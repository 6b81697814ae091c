-------------------------- MODULE IrohaListsProofs --------------------------
(***************************************************************************)
(* Proofs about IrohaLists: its types, that paging loses nothing, and that *)
(* the statements about the tables answer what is in the ledger, for every *)
(* ledger, page size and filter.                                           *)
(*                                                                         *)
(* What the recursive functions of the model compute is proved by          *)
(* induction on the length of what they run through (RowsProofs).          *)
(***************************************************************************)
EXTENDS IrohaLists, RowsProofs

-----------------------------------------------------------------------------
(* The tables: rows numbered from 1, to which a block adds and of which it changes nothing *)
(* that "after" or a filter looks at.                                                      *)

TableNames == {"block", "transaction", "account", "peer", "role", "domain"}

KeyOf(l, row) == IF l = "block" THEN row.height ELSE row.index

AccountRow(r) ==
  r = [index |-> r.index, id |-> r.id, quorum |-> r.quorum, roles |-> r.roles,
       granted |-> r.granted]

RowOK(l, row, i) == KeyOf(l, row) = i /\ (l = "account" => AccountRow(row))

TableOK(l, rows) ==
  /\ rows \in Seq(Range(rows))
  /\ \A i \in 1 .. Len(rows) : RowOK(l, rows[i], i)

SameRow(l, r, s) == IF l = "account" THEN r.index = s.index /\ r.id = s.id ELSE r = s

Continues(l, old, new) ==
  /\ Len(old) <= Len(new)
  /\ \A i \in 1 .. Len(old) : SameRow(l, old[i], new[i])

DbOK(d) ==
  /\ d = [block |-> d.block, transaction |-> d.transaction, account |-> d.account,
          peer |-> d.peer, role |-> d.role, domain |-> d.domain]
  /\ \A l \in TableNames : TableOK(l, d[l])

Grows(old, new) == \A l \in TableNames : Continues(l, old[l], new[l])

LEMMA TableLength ==
  ASSUME NEW l, NEW rows, TableOK(l, rows)
  PROVE  Len(rows) \in Nat /\ DOMAIN rows = 1 .. Len(rows)
BY DEF TableOK

LEMMA SameTable ==
  ASSUME NEW l, NEW rows, TableOK(l, rows)
  PROVE  Continues(l, rows, rows)
BY TableLength DEF Continues, SameRow

LEMMA ContinuesTransitive ==
  ASSUME NEW l, NEW r, NEW s, NEW t, TableOK(l, r), TableOK(l, s), TableOK(l, t),
         Continues(l, r, s), Continues(l, s, t)
  PROVE  Continues(l, r, t)
<1>1. Len(r) \in Nat /\ Len(s) \in Nat /\ Len(t) \in Nat
  BY TableLength
<1>2. Len(r) <= Len(s) /\ Len(s) <= Len(t)
  BY DEF Continues
<1>3. ASSUME NEW i \in 1 .. Len(r) PROVE SameRow(l, r[i], t[i])
  <2>1. i \in 1 .. Len(s)
    BY <1>1, <1>2
  <2>2. SameRow(l, r[i], s[i]) /\ SameRow(l, s[i], t[i])
    BY <2>1 DEF Continues
  <2> QED
    BY <2>2 DEF SameRow
<1> QED
  BY <1>1, <1>2, <1>3 DEF Continues

LEMMA AppendRow ==
  ASSUME NEW l, NEW rows, TableOK(l, rows), NEW row, RowOK(l, row, Len(rows) + 1)
  PROVE  TableOK(l, Append(rows, row)) /\ Continues(l, rows, Append(rows, row))
<1> DEFINE S == Range(rows) \cup {row}
<1>1. rows \in Seq(S) /\ row \in S
  <2> DEFINE R == Range(rows)
  <2>1. rows \in Seq(R) /\ R \subseteq S
    BY DEF TableOK
  <2> HIDE DEF R, S
  <2>2. rows \in Seq(S)
    BY <2>1, SeqMonotonic
  <2> QED
    BY <2>2 DEF S
<1> HIDE DEF S
<1>2. /\ Append(rows, row) \in Seq(S)
      /\ Len(Append(rows, row)) = Len(rows) + 1
      /\ \A i \in 1 .. Len(rows) : Append(rows, row)[i] = rows[i]
      /\ Append(rows, row)[Len(rows) + 1] = row
  BY <1>1
<1>3. Append(rows, row) \in Seq(Range(Append(rows, row)))
  BY <1>2, SeqOfRange
<1> DEFINE new == Append(rows, row)
<1> HIDE DEF new
<1>4. Len(rows) \in Nat /\ \A i \in 1 .. Len(rows) : RowOK(l, rows[i], i)
  BY TableLength DEF TableOK
<1>5. ASSUME NEW i \in 1 .. Len(new) PROVE RowOK(l, new[i], i)
  <2>1. CASE i = Len(rows) + 1
    BY <1>2, <2>1 DEF new
  <2>2. CASE i # Len(rows) + 1
    <3>1. i \in 1 .. Len(rows)
      BY <1>2, <1>4, <2>2 DEF new
    <3> QED
      BY <1>2, <1>4, <3>1 DEF new
  <2> QED
    BY <2>1, <2>2
<1>6. TableOK(l, new)
  BY <1>3, <1>5 DEF TableOK, new
<1>7. Continues(l, rows, new)
  BY <1>2, <1>4 DEF Continues, SameRow, new
<1> QED
  BY <1>6, <1>7 DEF new

LEMMA UpdateRows ==
  ASSUME NEW rows, TableOK("account", rows), NEW new, new = [i \in DOMAIN rows |-> new[i]],
         \A i \in 1 .. Len(rows) :
           AccountRow(new[i]) /\ new[i].index = rows[i].index /\ new[i].id = rows[i].id
  PROVE  TableOK("account", new) /\ Continues("account", rows, new)
<1>1. Len(rows) \in Nat /\ DOMAIN rows = 1 .. Len(rows)
  BY TableLength
<1> DEFINE S == {new[i] : i \in 1 .. Len(rows)}
<1>2. new \in [1 .. Len(rows) -> S]
  BY <1>1
<1> HIDE DEF S
<1>3. new \in Seq(S) /\ Len(new) = Len(rows)
  BY <1>1, <1>2
<1>4. new \in Seq(Range(new))
  BY <1>3, SeqOfRange
<1>5. ASSUME NEW i \in 1 .. Len(new) PROVE RowOK("account", new[i], i)
  <2>1. i \in 1 .. Len(rows)
    BY <1>3
  <2>2. KeyOf("account", rows[i]) = i
    BY <2>1 DEF TableOK, RowOK
  <2> QED
    BY <2>1, <2>2 DEF RowOK, KeyOf
<1> QED
  BY <1>1, <1>3, <1>4, <1>5 DEF TableOK, Continues, SameRow

LEMMA ReplaceTable ==
  ASSUME NEW d, DbOK(d), NEW l \in TableNames, NEW rows, TableOK(l, rows),
         Continues(l, d[l], rows), NEW new, new = [d EXCEPT ![l] = rows]
  PROVE  DbOK(new) /\ Grows(d, new)
<1>1. DOMAIN d = TableNames
  BY DEF DbOK, TableNames
<1>2. \A k \in TableNames : new[k] = IF k = l THEN rows ELSE d[k]
  BY <1>1
<1>3. new = [block |-> new.block, transaction |-> new.transaction, account |-> new.account,
             peer |-> new.peer, role |-> new.role, domain |-> new.domain]
  <2> DEFINE e == [block |-> new.block, transaction |-> new.transaction,
                   account |-> new.account, peer |-> new.peer, role |-> new.role,
                   domain |-> new.domain]
  <2>1. DOMAIN new = TableNames /\ DOMAIN e = TableNames
    BY <1>1 DEF TableNames
  <2>2. new = [k \in DOMAIN new |-> new[k]] /\ e = [k \in DOMAIN e |-> e[k]]
    <3> DEFINE f == [d EXCEPT ![l] = rows]
    <3>1. f = [k \in DOMAIN d |-> f[k]]
      OBVIOUS
    <3>2. e = [k \in DOMAIN e |-> e[k]]
      OBVIOUS
    <3> HIDE DEF f, e
    <3>3. new = f
      BY DEF f
    <3>4. DOMAIN new = DOMAIN d
      BY <1>1, <2>1
    <3> QED
      BY <3>1, <3>2, <3>3, <3>4
  <2>3. \A k \in DOMAIN e : e[k] = new[k]
    BY DEF TableNames
  <2> HIDE DEF e
  <2>4. e = new
    BY <2>1, <2>2, <2>3
  <2> QED
    BY <2>4 DEF e
<1>4. \A k \in TableNames : TableOK(k, new[k])
  BY <1>2 DEF DbOK
<1>5. \A k \in TableNames : Continues(k, d[k], new[k])
  BY <1>2, SameTable DEF DbOK
<1> QED
  BY <1>3, <1>4, <1>5 DEF DbOK, Grows

LEMMA GrowsTransitive ==
  ASSUME NEW c, NEW d, NEW e, DbOK(c), DbOK(d), DbOK(e), Grows(c, d), Grows(d, e)
  PROVE  Grows(c, e)
BY ContinuesTransitive DEF DbOK, Grows

LEMMA GrowsReflexive ==
  ASSUME NEW d, DbOK(d)
  PROVE  Grows(d, d)
BY SameTable DEF DbOK, Grows

-----------------------------------------------------------------------------
(* Applying a block.                                                                       *)

LEMMA CommandKeeps ==
  ASSUME NEW d, DbOK(d), NEW creator, NEW c
  PROVE  DbOK(ApplyCommand(d, creator, c)) /\ Grows(d, ApplyCommand(d, creator, c))
<1>1. \A l \in TableNames : TableOK(l, d[l])
  BY DEF DbOK
<1>2. CASE c.kind = "createAccount"
  <2> DEFINE row == [index |-> NextIndex(d.account), id |-> c.id, quorum |-> 1,
                     roles |-> <<DefaultRole(d, c.domain)>>, granted |-> <<>>]
             rows == Append(d.account, row)
  <2>1. RowOK("account", row, Len(d.account) + 1)
    BY DEF RowOK, KeyOf, AccountRow, NextIndex
  <2>2. ApplyCommand(d, creator, c) = [d EXCEPT !["account"] = rows]
    BY <1>2 DEF ApplyCommand, CreateAccount
  <2> HIDE DEF row
  <2>3. "account" \in TableNames /\ TableOK("account", rows) /\ Continues("account", d["account"], rows)
    BY <1>1, <2>1, AppendRow DEF TableNames
  <2> HIDE DEF rows
  <2> QED
    BY <2>2, <2>3, ReplaceTable
<1>3. CASE c.kind = "setQuorum"
  <2> DEFINE rows == UpdateAccounts(d.account, LAMBDA a : a.id = c.id,
                                    LAMBDA a : [a EXCEPT !.quorum = c.quorum])
  <2>1. rows = [i \in DOMAIN d.account |-> rows[i]]
    BY DEF UpdateAccounts
  <2>2. ASSUME NEW i \in 1 .. Len(d.account)
        PROVE  /\ AccountRow(rows[i])
               /\ rows[i].index = d.account[i].index /\ rows[i].id = d.account[i].id
    <3> DEFINE a == d.account[i]
               x == c.quorum
    <3>1. i \in DOMAIN d.account /\ AccountRow(a)
      BY <1>1, TableLength DEF TableNames, TableOK, RowOK
    <3>2. rows[i] = a \/ rows[i] = [a EXCEPT !.quorum = x]
      BY <3>1 DEF UpdateAccounts
    <3> HIDE DEF a, x, rows
    <3>3. AccountRow(rows[i]) /\ rows[i].index = a.index /\ rows[i].id = a.id
      BY <3>1, <3>2 DEF AccountRow
    <3> QED
      BY <3>3 DEF a
  <2>3. ApplyCommand(d, creator, c) = [d EXCEPT !["account"] = rows]
    BY <1>3 DEF ApplyCommand, SetAccountQuorum
  <2> HIDE DEF rows
  <2>4. "account" \in TableNames /\ TableOK("account", rows) /\ Continues("account", d["account"], rows)
    BY <1>1, <2>1, <2>2, UpdateRows DEF TableNames
  <2> QED
    BY <2>3, <2>4, ReplaceTable
<1>4. CASE c.kind = "addPeer"
  <2> DEFINE row == [index |-> NextIndex(d.peer), key |-> c.key]
             rows == Append(d.peer, row)
  <2>1. RowOK("peer", row, Len(d.peer) + 1)
    BY DEF RowOK, KeyOf, NextIndex
  <2>2. ApplyCommand(d, creator, c) = [d EXCEPT !["peer"] = rows]
    BY <1>4 DEF ApplyCommand, AddPeer
  <2> HIDE DEF row
  <2>3. "peer" \in TableNames /\ TableOK("peer", rows) /\ Continues("peer", d["peer"], rows)
    BY <1>1, <2>1, AppendRow DEF TableNames
  <2> HIDE DEF rows
  <2> QED
    BY <2>2, <2>3, ReplaceTable
<1>5. CASE c.kind = "createRole"
  <2> DEFINE row == [index |-> NextIndex(d.role), name |-> c.name,
                     permissions |-> c.permissions]
             rows == Append(d.role, row)
  <2>1. RowOK("role", row, Len(d.role) + 1)
    BY DEF RowOK, KeyOf, NextIndex
  <2>2. ApplyCommand(d, creator, c) = [d EXCEPT !["role"] = rows]
    BY <1>5 DEF ApplyCommand, CreateRole
  <2> HIDE DEF row
  <2>3. "role" \in TableNames /\ TableOK("role", rows) /\ Continues("role", d["role"], rows)
    BY <1>1, <2>1, AppendRow DEF TableNames
  <2> HIDE DEF rows
  <2> QED
    BY <2>2, <2>3, ReplaceTable
<1>6. CASE c.kind = "createDomain"
  <2> DEFINE row == [index |-> NextIndex(d.domain), id |-> c.id, role |-> c.role]
             rows == Append(d.domain, row)
  <2>1. RowOK("domain", row, Len(d.domain) + 1)
    BY DEF RowOK, KeyOf, NextIndex
  <2>2. ApplyCommand(d, creator, c) = [d EXCEPT !["domain"] = rows]
    BY <1>6 DEF ApplyCommand, CreateDomain
  <2> HIDE DEF row
  <2>3. "domain" \in TableNames /\ TableOK("domain", rows) /\ Continues("domain", d["domain"], rows)
    BY <1>1, <2>1, AppendRow DEF TableNames
  <2> HIDE DEF rows
  <2> QED
    BY <2>2, <2>3, ReplaceTable
<1>7. CASE c.kind \in {"appendRole", "detachRole"}
  <2> DEFINE rows == UpdateAccounts(d.account, LAMBDA a : a.id = c.id,
                       LAMBDA a : [a EXCEPT !.roles =
                                     Changed(a.roles, c.role, c.kind = "appendRole")])
  <2>1. rows = [i \in DOMAIN d.account |-> rows[i]]
    BY DEF UpdateAccounts
  <2>2. ASSUME NEW i \in 1 .. Len(d.account)
        PROVE  /\ AccountRow(rows[i])
               /\ rows[i].index = d.account[i].index /\ rows[i].id = d.account[i].id
    <3> DEFINE a == d.account[i]
               x == Changed(d.account[i].roles, c.role, c.kind = "appendRole")
    <3>1. i \in DOMAIN d.account /\ AccountRow(a)
      BY <1>1, TableLength DEF TableNames, TableOK, RowOK
    <3>2. rows[i] = a \/ rows[i] = [a EXCEPT !.roles = x]
      BY <3>1 DEF UpdateAccounts
    <3> HIDE DEF a, x, rows
    <3>3. AccountRow(rows[i]) /\ rows[i].index = a.index /\ rows[i].id = a.id
      BY <3>1, <3>2 DEF AccountRow
    <3> QED
      BY <3>3 DEF a
  <2>3. ApplyCommand(d, creator, c) = [d EXCEPT !["account"] = rows]
    BY <1>7 DEF ApplyCommand, AppendOrDetachRole
  <2> HIDE DEF rows
  <2>4. "account" \in TableNames /\ TableOK("account", rows) /\ Continues("account", d["account"], rows)
    BY <1>1, <2>1, <2>2, UpdateRows DEF TableNames
  <2> QED
    BY <2>3, <2>4, ReplaceTable
<1>8. CASE c.kind \in {"grant", "revoke"}
  <2> DEFINE g == [by |-> creator, to |-> c.to, permission |-> c.permission]
             rows == UpdateAccounts(d.account, LAMBDA a : a.id \in {g.by, g.to},
                       LAMBDA a : [a EXCEPT !.granted = Changed(a.granted, g, c.kind = "grant")])
  <2>1. rows = [i \in DOMAIN d.account |-> rows[i]]
    BY DEF UpdateAccounts
  <2>2. ASSUME NEW i \in 1 .. Len(d.account)
        PROVE  /\ AccountRow(rows[i])
               /\ rows[i].index = d.account[i].index /\ rows[i].id = d.account[i].id
    <3> DEFINE a == d.account[i]
               x == Changed(d.account[i].granted, g, c.kind = "grant")
    <3>1. i \in DOMAIN d.account /\ AccountRow(a)
      BY <1>1, TableLength DEF TableNames, TableOK, RowOK
    <3>2. rows[i] = a \/ rows[i] = [a EXCEPT !.granted = x]
      BY <3>1 DEF UpdateAccounts
    <3> HIDE DEF a, x, rows
    <3>3. AccountRow(rows[i]) /\ rows[i].index = a.index /\ rows[i].id = a.id
      BY <3>1, <3>2 DEF AccountRow
    <3> QED
      BY <3>3 DEF a
  <2>3. ApplyCommand(d, creator, c) = [d EXCEPT !["account"] = rows]
    BY <1>8 DEF ApplyCommand, GrantOrRevoke
  <2> HIDE DEF rows
  <2>4. "account" \in TableNames /\ TableOK("account", rows) /\ Continues("account", d["account"], rows)
    BY <1>1, <2>1, <2>2, UpdateRows DEF TableNames
  <2> QED
    BY <2>3, <2>4, ReplaceTable
<1>9. CASE c.kind \notin {"createAccount", "setQuorum", "addPeer", "createRole", "createDomain",
                          "appendRole", "detachRole", "grant", "revoke"}
  <2>1. ApplyCommand(d, creator, c) = d
    BY <1>9 DEF ApplyCommand
  <2> QED
    BY <2>1, GrowsReflexive
<1> QED
  BY <1>2, <1>3, <1>4, <1>5, <1>6, <1>7, <1>8, <1>9

AfterCommandsStep(g, d, tx, height, time, n) ==
  IF n = 0 THEN [d EXCEPT !.transaction = InsertTransaction(d, tx, height, time)]
  ELSE ApplyCommand(g[n - 1], tx.creator, tx.commands[n])

AfterTransactionsStep(g, d, block, height, n) ==
  IF n = 0 THEN [d EXCEPT !.block = Append(@, [height |-> height, time |-> block.time,
                                               txcount |-> Len(block.transactions)])]
  ELSE ApplyTransaction(g[n - 1], block.transactions[n], height, block.time)

(* The equation of AfterCommands, as for Selected.                                      *)
LEMMA AfterCommandsEquation ==
  ASSUME NEW d, NEW tx, NEW height, NEW time, Len(tx.commands) \in Nat
  PROVE  AfterCommands(d, tx, height, time)
           = [n \in 0 .. Len(tx.commands) |-> AfterCommandsStep(AfterCommands(d, tx, height, time), d, tx, height, time, n)]
<1> DEFINE Step(g, n) == AfterCommandsStep(g, d, tx, height, time, n)
           Solves(g, n) == g = [i \in 0 .. n |-> Step(g, i)]
           T == {n \in Nat : \E g : Solves(g, n)}
<1>1. 0 \in T
  <2> DEFINE g == [i \in 0 .. 0 |-> Step(<<>>, 0)]
  <2>1. \A i \in 0 .. 0 : Step(g, i) = Step(<<>>, 0)
    BY DEF AfterCommandsStep
  <2> HIDE DEF Step
  <2>2. Solves(g, 0)
    BY <2>1
  <2> QED
    BY <2>2
<1>2. ASSUME NEW n \in T PROVE n + 1 \in T
  <2>1. PICK g : Solves(g, n)
    OBVIOUS
  <2> DEFINE h == [i \in 0 .. n + 1 |-> IF i = n + 1 THEN Step(g, n + 1) ELSE g[i]]
  <2>2. ASSUME NEW i \in 0 .. n + 1 PROVE h[i] = Step(h, i)
    <3>1. i # 0 => h[i - 1] = g[i - 1]
      OBVIOUS
    <3>2. Step(h, i) = Step(g, i)
      <4> HIDE DEF h
      <4> QED
        BY <3>1 DEF AfterCommandsStep
    <3> HIDE DEF Step
    <3>3. i # n + 1 => g[i] = Step(g, i)
      <4> HIDE DEF h
      <4> QED
        BY <2>1
    <3> QED
      BY <3>2, <3>3
  <2> HIDE DEF Step
  <2>3. h = [i \in 0 .. n + 1 |-> h[i]]
    OBVIOUS
  <2>4. Solves(h, n + 1)
    <3> HIDE DEF h
    <3> QED
      BY <2>2, <2>3
  <2> HIDE DEF h, Solves
  <2> QED
    BY <2>4
<1>3. T = Nat
  <2> HIDE DEF T
  <2>1. T \in SUBSET Nat
    BY DEF T
  <2> QED
    BY <1>1, <1>2, <2>1, NatInduct
<1>4. PICK g : g = [n \in 0 .. Len(tx.commands) |-> AfterCommandsStep(g, d, tx, height, time, n)]
  BY <1>3
<1> QED
  BY <1>4 DEF AfterCommands, AfterCommandsStep

(* The equation of AfterTransactions, as for Selected.                                  *)
LEMMA AfterTransactionsEquation ==
  ASSUME NEW d, NEW block, NEW height, Len(block.transactions) \in Nat
  PROVE  AfterTransactions(d, block, height)
           = [n \in 0 .. Len(block.transactions) |-> AfterTransactionsStep(AfterTransactions(d, block, height), d, block, height, n)]
<1> DEFINE Step(g, n) == AfterTransactionsStep(g, d, block, height, n)
           Solves(g, n) == g = [i \in 0 .. n |-> Step(g, i)]
           T == {n \in Nat : \E g : Solves(g, n)}
<1>1. 0 \in T
  <2> DEFINE g == [i \in 0 .. 0 |-> Step(<<>>, 0)]
  <2>1. \A i \in 0 .. 0 : Step(g, i) = Step(<<>>, 0)
    BY DEF AfterTransactionsStep
  <2> HIDE DEF Step
  <2>2. Solves(g, 0)
    BY <2>1
  <2> QED
    BY <2>2
<1>2. ASSUME NEW n \in T PROVE n + 1 \in T
  <2>1. PICK g : Solves(g, n)
    OBVIOUS
  <2> DEFINE h == [i \in 0 .. n + 1 |-> IF i = n + 1 THEN Step(g, n + 1) ELSE g[i]]
  <2>2. ASSUME NEW i \in 0 .. n + 1 PROVE h[i] = Step(h, i)
    <3>1. i # 0 => h[i - 1] = g[i - 1]
      OBVIOUS
    <3>2. Step(h, i) = Step(g, i)
      <4> HIDE DEF h
      <4> QED
        BY <3>1 DEF AfterTransactionsStep
    <3> HIDE DEF Step
    <3>3. i # n + 1 => g[i] = Step(g, i)
      <4> HIDE DEF h
      <4> QED
        BY <2>1
    <3> QED
      BY <3>2, <3>3
  <2> HIDE DEF Step
  <2>3. h = [i \in 0 .. n + 1 |-> h[i]]
    OBVIOUS
  <2>4. Solves(h, n + 1)
    <3> HIDE DEF h
    <3> QED
      BY <2>2, <2>3
  <2> HIDE DEF h, Solves
  <2> QED
    BY <2>4
<1>3. T = Nat
  <2> HIDE DEF T
  <2>1. T \in SUBSET Nat
    BY DEF T
  <2> QED
    BY <1>1, <1>2, <2>1, NatInduct
<1>4. PICK g : g = [n \in 0 .. Len(block.transactions) |-> AfterTransactionsStep(g, d, block, height, n)]
  BY <1>3
<1> QED
  BY <1>4 DEF AfterTransactions, AfterTransactionsStep

LEMMA TransactionKeeps ==
  ASSUME NEW d, DbOK(d), NEW tx, Len(tx.commands) \in Nat, NEW height, NEW time
  PROVE  /\ DbOK(ApplyTransaction(d, tx, height, time))
         /\ Grows(d, ApplyTransaction(d, tx, height, time))
<1> DEFINE f == AfterCommands(d, tx, height, time)
           P(n) == DbOK(f[n]) /\ Grows(d, f[n])
           T == {n \in Nat : n <= Len(tx.commands) => P(n)}
<1>1. f = [n \in 0 .. Len(tx.commands) |-> AfterCommandsStep(f, d, tx, height, time, n)]
  BY AfterCommandsEquation
<1>2. ApplyTransaction(d, tx, height, time) = f[Len(tx.commands)]
  BY DEF ApplyTransaction
<1> HIDE DEF f
<1>3. \A n \in 0 .. Len(tx.commands) : f[n] = AfterCommandsStep(f, d, tx, height, time, n)
  BY <1>1
<1>4. P(0)
  <2> DEFINE row == [index |-> NextIndex(d.transaction), hash |-> tx.hash,
                     who |-> tx.creator, domain |-> tx.domain, height |-> height,
                     time |-> time]
             rows == Append(d.transaction, row)
  <2>1. RowOK("transaction", row, Len(d.transaction) + 1)
    BY DEF RowOK, KeyOf, NextIndex
  <2>2. f[0] = [d EXCEPT !["transaction"] = rows]
    BY <1>3 DEF AfterCommandsStep, InsertTransaction
  <2> HIDE DEF row
  <2>3. "transaction" \in TableNames /\ TableOK("transaction", d["transaction"])
    BY DEF DbOK, TableNames
  <2>4. TableOK("transaction", rows) /\ Continues("transaction", d["transaction"], rows)
    BY <2>1, <2>3, AppendRow
  <2> HIDE DEF rows
  <2> QED
    BY <2>2, <2>3, <2>4, ReplaceTable
<1>5. ASSUME NEW n \in Nat, n + 1 <= Len(tx.commands), P(n) PROVE P(n + 1)
  <2>1. f[n + 1] = ApplyCommand(f[n], tx.creator, tx.commands[n + 1])
    BY <1>3, <1>5 DEF AfterCommandsStep
  <2>2. DbOK(f[n + 1]) /\ Grows(f[n], f[n + 1])
    BY <1>5, <2>1, CommandKeeps
  <2> QED
    BY <1>5, <2>2, GrowsTransitive
<1> HIDE DEF P
<1>6. 0 \in T /\ \A n \in T : n + 1 \in T
  BY <1>4, <1>5
<1>7. T = Nat
  <2>1. T \in SUBSET Nat
    OBVIOUS
  <2> HIDE DEF T
  <2> QED
    BY <1>6, <2>1, NatInduct
<1>8. P(Len(tx.commands))
  BY <1>7
<1> QED
  BY <1>2, <1>8 DEF P

(* A block adds rows and changes none of what "after" and the filters look at.             *)
LEMMA BlockKeeps ==
  ASSUME NEW d, DbOK(d), NEW block, NEW height, height = Len(d.block) + 1,
         Len(block.transactions) \in Nat,
         \A i \in 1 .. Len(block.transactions) : Len(block.transactions[i].commands) \in Nat
  PROVE  DbOK(ApplyBlock(d, block, height)) /\ Grows(d, ApplyBlock(d, block, height))
<1> DEFINE f == AfterTransactions(d, block, height)
           P(n) == DbOK(f[n]) /\ Grows(d, f[n])
           T == {n \in Nat : n <= Len(block.transactions) => P(n)}
<1>1. f = [n \in 0 .. Len(block.transactions) |-> AfterTransactionsStep(f, d, block, height, n)]
  BY AfterTransactionsEquation
<1>2. ApplyBlock(d, block, height) = f[Len(block.transactions)]
  BY DEF ApplyBlock
<1> HIDE DEF f
<1>3. \A n \in 0 .. Len(block.transactions) :
        f[n] = AfterTransactionsStep(f, d, block, height, n)
  BY <1>1
<1>4. P(0)
  <2> DEFINE row == [height |-> height, time |-> block.time,
                     txcount |-> Len(block.transactions)]
             rows == Append(d.block, row)
  <2>1. RowOK("block", row, Len(d.block) + 1)
    BY DEF RowOK, KeyOf
  <2>2. f[0] = [d EXCEPT !["block"] = rows]
    BY <1>3 DEF AfterTransactionsStep
  <2> HIDE DEF row
  <2>3. "block" \in TableNames /\ TableOK("block", d["block"])
    BY DEF DbOK, TableNames
  <2>4. TableOK("block", rows) /\ Continues("block", d["block"], rows)
    BY <2>1, <2>3, AppendRow
  <2> HIDE DEF rows
  <2> QED
    BY <2>2, <2>3, <2>4, ReplaceTable
<1>5. ASSUME NEW n \in Nat, n + 1 <= Len(block.transactions), P(n) PROVE P(n + 1)
  <2>1. f[n + 1] = ApplyTransaction(f[n], block.transactions[n + 1], height, block.time)
    <3>1. n + 1 \in 0 .. Len(block.transactions) /\ n + 1 # 0 /\ n + 1 - 1 = n
      BY <1>5
    <3> QED
      BY <1>3, <3>1 DEF AfterTransactionsStep
  <2>2. Len(block.transactions[n + 1].commands) \in Nat
    BY <1>5
  <2>3. DbOK(f[n + 1]) /\ Grows(f[n], f[n + 1])
    BY <1>5, <2>1, <2>2, TransactionKeeps
  <2> QED
    BY <1>5, <2>3, GrowsTransitive
<1> HIDE DEF P
<1>6. 0 \in T /\ \A n \in T : n + 1 \in T
  BY <1>4, <1>5
<1>7. T = Nat
  <2>1. T \in SUBSET Nat
    OBVIOUS
  <2> HIDE DEF T
  <2> QED
    BY <1>6, <2>1, NatInduct
<1>8. P(Len(block.transactions))
  BY <1>7
<1> QED
  BY <1>2, <1>8 DEF P

-----------------------------------------------------------------------------
(* Reading a page.                                                                         *)

(* What the filter says of a row.                                                          *)
Match(l, row, f) ==
  /\ l \in {"block", "transaction"} => InTime(row, f)
  /\ l = "transaction" => (f.who # None => row.who = f.who)
  /\ l = "account" => (f.who # None => row.id = f.who)

(* The rows after a that the filter lets through.                                          *)
Rest(l, rows, f, a) == {r \in Range(rows) : KeyOf(l, r) > a /\ Match(l, r, f)}

PageItems(l, rows, f, a, count) == Limit(Select(rows, Rest(l, rows, f, a)), count)

(* The positions of the rows of a filter after lo and up to hi.                            *)
Positions(l, rows, f, lo, hi) ==
  {i \in 1 .. Len(rows) : lo < i /\ i <= hi /\ Match(l, rows[i], f)}

IsQuery(q) == q.after \in Nat \cup {None} /\ q.count \in Nat

LEMMA AfterNat ==
  ASSUME NEW q, IsQuery(q)
  PROVE  After(q) \in Nat
BY DEF IsQuery, After

LEMMA RestPositions ==
  ASSUME NEW l, NEW rows, TableOK(l, rows), NEW f, NEW a \in Nat
  PROVE  \A i \in 1 .. Len(rows) : rows[i] \in Rest(l, rows, f, a) <=> i > a /\ Match(l, rows[i], f)
<1>1. Len(rows) \in Nat /\ DOMAIN rows = 1 .. Len(rows)
  BY TableLength
<1>2. ASSUME NEW i \in 1 .. Len(rows)
      PROVE  rows[i] \in Range(rows) /\ KeyOf(l, rows[i]) = i
  BY <1>1 DEF TableOK, RowOK, Range
<1> QED
  BY <1>2 DEF Rest

(* Every list reads a page of this kind.                                                   *)
LEMMA ReadItems ==
  ASSUME NEW d, NEW l \in TableNames, NEW q
  PROVE  /\ ReadList(d, l, q).items = PageItems(l, d[l], q.filter, After(q), q.count)
         /\ l \in {"transaction", "account"} =>
              ReadList(d, l, q).nextAfter = IndexNextAfter(ReadList(d, l, q).items, q)
         /\ l \notin {"transaction", "account"} =>
              ReadList(d, l, q).nextAfter = After(q) + Len(ReadList(d, l, q).items)
<1>1. CASE l = "block"
  <2> DEFINE which == {b \in Range(d.block) : b.height > After(q) /\ InTime(b, q.filter)}
             items == Limit(Select(d.block, which), q.count)
  <2>1. which = Rest("block", d["block"], q.filter, After(q))
    BY DEF Rest, KeyOf, Match
  <2>2. ReadList(d, l, q) = [items |-> items, nextAfter |-> After(q) + Len(items)]
    BY <1>1 DEF ReadList, BlockList
  <2> HIDE DEF which
  <2>3. items = PageItems(l, d[l], q.filter, After(q), q.count)
    BY <1>1, <2>1 DEF PageItems
  <2> HIDE DEF items
  <2> QED
    BY <1>1, <2>2, <2>3
<1>2. CASE l = "transaction"
  <2> DEFINE which == {t \in Range(d.transaction) :
                         /\ t.index > After(q)
                         /\ InTime(t, q.filter)
                         /\ q.filter.who # None => t.who = q.filter.who}
             items == Limit(Select(d.transaction, which), q.count)
  <2>1. which = Rest("transaction", d["transaction"], q.filter, After(q))
    BY DEF Rest, KeyOf, Match
  <2>2. ReadList(d, l, q) = [items |-> items, nextAfter |-> IndexNextAfter(items, q)]
    BY <1>2 DEF ReadList, TransactionList
  <2> HIDE DEF which
  <2>3. items = PageItems(l, d[l], q.filter, After(q), q.count)
    BY <1>2, <2>1 DEF PageItems
  <2> HIDE DEF items
  <2> QED
    BY <1>2, <2>2, <2>3
<1>3. CASE l = "account"
  <2> DEFINE which == {a \in Range(d.account) :
                         a.index > After(q) /\ (q.filter.who # None => a.id = q.filter.who)}
             items == Limit(Select(d.account, which), q.count)
  <2>1. which = Rest("account", d["account"], q.filter, After(q))
    BY DEF Rest, KeyOf, Match
  <2>2. ReadList(d, l, q) = [items |-> items, nextAfter |-> IndexNextAfter(items, q)]
    BY <1>3 DEF ReadList, AccountList
  <2> HIDE DEF which
  <2>3. items = PageItems(l, d[l], q.filter, After(q), q.count)
    BY <1>3, <2>1 DEF PageItems
  <2> HIDE DEF items
  <2> QED
    BY <1>3, <2>2, <2>3
<1>4. CASE l \notin Lists
  <2> DEFINE which == {r \in Range(d[l]) : r.index > After(q)}
             items == Limit(Select(d[l], which), q.count)
  <2>1. which = Rest(l, d[l], q.filter, After(q))
    BY <1>4 DEF Rest, KeyOf, Match, Lists
  <2>2. ReadList(d, l, q) = [items |-> items, nextAfter |-> After(q) + Len(items)]
    BY <1>4 DEF ReadList, PagedList, Lists
  <2> HIDE DEF which
  <2>3. items = PageItems(l, d[l], q.filter, After(q), q.count)
    BY <1>4, <2>1 DEF PageItems
  <2> HIDE DEF items
  <2> QED
    BY <1>4, <2>2, <2>3 DEF Lists
<1> QED
  BY <1>1, <1>2, <1>3, <1>4 DEF Lists

(* The last item of a page stands at a position b: up to b there are just the items.       *)
LEMMA PageEnds ==
  ASSUME NEW l, NEW rows, TableOK(l, rows), NEW f, NEW a \in Nat, NEW count \in Nat,
         NEW items, items = PageItems(l, rows, f, a, count), items # <<>>
  PROVE  \E b \in 1 .. Len(rows) :
           /\ items[Len(items)] = rows[b]
           /\ b > a
           /\ Selected(rows, Rest(l, rows, f, a))[b] = items
<1> DEFINE rest == Rest(l, rows, f, a)
           out == Selected(rows, rest)[Len(rows)]
           S == Range(rows)
<1>1. rows \in Seq(S) /\ Len(rows) \in Nat
  BY TableLength DEF TableOK
<1>2. items = Limit(out, count)
  BY DEF PageItems, Select
<1>3. \A i \in 1 .. Len(rows) : rows[i] \in rest => i > a
  BY RestPositions
<1> HIDE DEF rest, S
<1>4. out \in Seq(S)
  <2>1. Len(rows) \in 0 .. Len(rows)
    BY <1>1
  <2> QED
    BY <1>1, <2>1, SelectedLength
<1>5. \A k \in 1 .. Len(out) :
        \E b \in 1 .. Len(rows) : /\ rows[b] \in rest /\ out[k] = rows[b]
                                  /\ Selected(rows, rest)[b] = SubSeq(out, 1, k)
  <2>1. Len(rows) \in 0 .. Len(rows)
    BY <1>1
  <2> QED
    <3> DEFINE Found(n, k) == \E b \in 1 .. n :
                                /\ rows[b] \in rest /\ Selected(rows, rest)[n][k] = rows[b]
                                /\ Selected(rows, rest)[b]
                                     = SubSeq(Selected(rows, rest)[n], 1, k)
    <3>1. \A n \in 0 .. Len(rows) : \A k \in 1 .. Len(Selected(rows, rest)[n]) : Found(n, k)
      BY <1>1, SelectedPositions
    <3> HIDE DEF Found
    <3>2. \A k \in 1 .. Len(out) : Found(Len(rows), k)
      BY <2>1, <3>1
    <3> QED
      BY <3>2 DEF Found
<1> HIDE DEF out
<1>6. /\ items \in Seq(S) /\ Len(items) \in 1 .. Len(out)
      /\ items[Len(items)] = out[Len(items)]
      /\ items = SubSeq(out, 1, Len(items))
  BY <1>2, <1>4 DEF Limit
<1>7. PICK b \in 1 .. Len(rows) : /\ rows[b] \in rest /\ out[Len(items)] = rows[b]
                                  /\ Selected(rows, rest)[b] = SubSeq(out, 1, Len(items))
  BY <1>5, <1>6
<1> QED
  BY <1>3, <1>6, <1>7 DEF rest

LEMMA PageLength ==
  ASSUME NEW l, NEW rows, TableOK(l, rows), NEW f, NEW a \in Nat, NEW count \in Nat
  PROVE  /\ PageItems(l, rows, f, a, count) \in Seq(Range(rows))
         /\ Len(PageItems(l, rows, f, a, count)) \in Nat
         /\ Len(PageItems(l, rows, f, a, count)) <= count
<1> DEFINE rest == Rest(l, rows, f, a)
           out == Selected(rows, rest)[Len(rows)]
           S == Range(rows)
<1>1. rows \in Seq(S) /\ Len(rows) \in Nat
  BY TableLength DEF TableOK
<1>2. PageItems(l, rows, f, a, count) = Limit(out, count)
  BY DEF PageItems, Select
<1> HIDE DEF rest, S
<1>3. out \in Seq(S)
  <2>1. Len(rows) \in 0 .. Len(rows)
    BY <1>1
  <2> QED
    BY <1>1, <2>1, SelectedLength
<1> HIDE DEF out
<1>4. Limit(out, count) \in Seq(S) /\ Len(Limit(out, count)) \in Nat
      /\ Len(Limit(out, count)) <= count
  BY <1>3 DEF Limit
<1> QED
  BY <1>2, <1>4 DEF S

(* The rows up to the last item are no more than the items.                                *)
LEMMA PositionsCount ==
  ASSUME NEW l, NEW rows, TableOK(l, rows), NEW f, NEW a \in Nat, NEW count \in Nat,
         NEW items, items = PageItems(l, rows, f, a, count), NEW b \in 1 .. Len(rows),
         b > a, Selected(rows, Rest(l, rows, f, a))[b] = items
  PROVE  /\ Cardinality(Positions(l, rows, f, a, b)) = Len(items)
         /\ Len(items) <= b - a
<1> DEFINE rest == Rest(l, rows, f, a)
           S == Range(rows)
           At == SelectedAt(rows, rest, b)
<1>1. rows \in Seq(S) /\ Len(rows) \in Nat
  BY TableLength DEF TableOK
<1>2. \A i \in 1 .. Len(rows) : rows[i] \in rest <=> i > a /\ Match(l, rows[i], f)
  BY RestPositions
<1> HIDE DEF rest, S
<1>3. Positions(l, rows, f, a, b) = At
  BY <1>1, <1>2 DEF Positions, SelectedAt
<1>4. IsFiniteSet(At) /\ Len(items) = Cardinality(At)
  <2>1. b \in 0 .. Len(rows)
    BY <1>1
  <2>2. \A n \in 0 .. Len(rows) :
          /\ IsFiniteSet(SelectedAt(rows, rest, n))
          /\ Len(Selected(rows, rest)[n]) = Cardinality(SelectedAt(rows, rest, n))
    BY <1>1, SelectedLength
  <2> QED
    BY <2>1, <2>2 DEF rest
<1>5. At \subseteq a + 1 .. b
  BY <1>1, <1>2 DEF SelectedAt
<1> HIDE DEF At
<1>6. IsFiniteSet(a + 1 .. b) /\ Cardinality(a + 1 .. b) = b - a
  <2>1. a + 1 \in Int /\ b \in Int /\ ~(a + 1 > b) /\ b - (a + 1) + 1 = b - a
    BY <1>1
  <2> QED
    BY <2>1, FS_Interval
<1>7. Cardinality(At) <= b - a
  BY <1>5, <1>6, FS_Subset
<1> QED
  BY <1>3, <1>4, <1>7

LEMMA PositionsFinite ==
  ASSUME NEW l, NEW rows, NEW f, NEW lo \in Nat, NEW hi \in Nat
  PROVE  /\ IsFiniteSet(Positions(l, rows, f, lo, hi))
         /\ Cardinality(Positions(l, rows, f, lo, hi)) \in Nat
         /\ lo <= hi => Cardinality(Positions(l, rows, f, lo, hi)) <= hi - lo
<1> DEFINE P == Positions(l, rows, f, lo, hi)
<1>1. P \subseteq lo + 1 .. hi
  BY DEF Positions
<1>2. /\ IsFiniteSet(lo + 1 .. hi)
      /\ Cardinality(lo + 1 .. hi) = IF lo + 1 > hi THEN 0 ELSE hi - (lo + 1) + 1
  <2>1. lo + 1 \in Int /\ hi \in Int
    OBVIOUS
  <2> QED
    BY <2>1, FS_Interval
<1> HIDE DEF P
<1>3. IsFiniteSet(P) /\ Cardinality(P) <= Cardinality(lo + 1 .. hi)
  BY <1>1, <1>2, FS_Subset
<1>4. Cardinality(P) \in Nat
  BY <1>3, FS_CardinalityType
<1> QED
  BY <1>2, <1>3, <1>4 DEF P

(* nextAfter lies no further than the count of the page after "after", counted in rows of  *)
(* the filter, and not beyond the last row of the table unless it is "after" itself.       *)
LEMMA NextAfter ==
  ASSUME NEW d, DbOK(d), NEW l \in TableNames, NEW q, IsQuery(q), NEW answered,
         answered = ReadList(d, l, q)
  PROVE  /\ answered.nextAfter \in Nat
         /\ After(q) <= answered.nextAfter
         /\ answered.nextAfter = After(q) \/ answered.nextAfter <= Len(d[l])
         /\ Cardinality(Positions(l, d[l], q.filter, After(q), answered.nextAfter)) <= q.count
<1> DEFINE rows == d[l]
           f == q.filter
           a == After(q)
           items == answered.items
           next == answered.nextAfter
<1>1. TableOK(l, rows) /\ Len(rows) \in Nat
  BY TableLength DEF DbOK
<1>2. a \in Nat /\ q.count \in Nat
  BY AfterNat DEF IsQuery
<1>3. /\ items = PageItems(l, rows, f, a, q.count)
      /\ l \in {"transaction", "account"} => next = IndexNextAfter(items, q)
      /\ l \notin {"transaction", "account"} => next = a + Len(items)
  BY ReadItems
<1>4. items \in Seq(Range(rows)) /\ Len(items) \in Nat /\ Len(items) <= q.count
  BY <1>1, <1>2, <1>3, PageLength
<1> HIDE DEF rows, f, a, items, next
<1>5. CASE items = <<>>
  <2>1. next = a
    BY <1>2, <1>3, <1>5 DEF IndexNextAfter, a
  <2>2. Cardinality(Positions(l, rows, f, a, a)) <= a - a
    BY <1>2, PositionsFinite
  <2>3. Cardinality(Positions(l, rows, f, a, a)) \in Nat
    BY <1>2, PositionsFinite
  <2>4. Cardinality(Positions(l, rows, f, a, a)) <= q.count
    BY <1>2, <2>2, <2>3
  <2> QED
    BY <1>2, <2>1, <2>4 DEF rows, f, a, next
<1>6. CASE items # <<>>
  <2>1. PICK b \in 1 .. Len(rows) :
          /\ items[Len(items)] = rows[b]
          /\ b > a
          /\ Selected(rows, Rest(l, rows, f, a))[b] = items
    BY <1>1, <1>2, <1>3, <1>6, PageEnds
  <2>2. Cardinality(Positions(l, rows, f, a, b)) = Len(items) /\ Len(items) <= b - a
    BY <1>1, <1>2, <1>3, <2>1, PositionsCount
  <2>3. CASE l \in {"transaction", "account"}
    <3>1. next = b
      <4>1. next = rows[b].index
        BY <1>3, <1>6, <2>1, <2>3 DEF IndexNextAfter, Last
      <4>2. KeyOf(l, rows[b]) = b
        BY <1>1 DEF TableOK, RowOK
      <4> QED
        BY <2>3, <4>1, <4>2 DEF KeyOf
    <3> QED
      BY <1>1, <1>2, <1>4, <2>1, <2>2, <3>1 DEF rows, f, a, next
  <2>4. CASE l \notin {"transaction", "account"}
    <3>1. next = a + Len(items) /\ next \in Nat /\ a <= next /\ next <= Len(rows)
      BY <1>1, <1>2, <1>3, <1>4, <2>1, <2>2, <2>4
    <3>2. Cardinality(Positions(l, rows, f, a, next)) <= next - a
      BY <1>2, <3>1, PositionsFinite
    <3>3. Cardinality(Positions(l, rows, f, a, next)) \in Nat
      BY <1>2, <3>1, PositionsFinite
    <3> QED
      BY <1>2, <1>4, <3>1, <3>2, <3>3 DEF rows, f, a, next
  <2> QED
    BY <2>3, <2>4
<1> QED
  BY <1>5, <1>6

(* Without a filter the items of a page are the rows that follow "after".                  *)
LEMMA WholeItems ==
  ASSUME NEW l, NEW rows, TableOK(l, rows), NEW a \in Nat, NEW count \in Nat,
         NEW items, items = PageItems(l, rows, NoFilter, a, count)
  PROVE  \A i \in 1 .. Len(items) : a + i <= Len(rows) /\ items[i] = rows[a + i]
<1> DEFINE rest == Rest(l, rows, NoFilter, a)
           S == Range(rows)
           out == Selected(rows, rest)[Len(rows)]
<1>1. rows \in Seq(S) /\ Len(rows) \in Nat /\ DOMAIN rows = 1 .. Len(rows)
  BY TableLength DEF TableOK
<1>2. \A i \in 1 .. Len(rows) : rows[i] \in rest <=> i > a
  BY RestPositions DEF Match, NoFilter, InTime
<1>3. items = Limit(out, count)
  BY DEF PageItems, Select
<1>4. \A i \in 1 .. Len(rows) : rows[i] \in S
  BY <1>1 DEF Range
<1>5. CASE items = <<>>
  BY <1>5
<1>6. CASE items # <<>>
  <2>1. PICK b \in 1 .. Len(rows) : /\ items[Len(items)] = rows[b]
                                    /\ b > a
                                    /\ Selected(rows, Rest(l, rows, NoFilter, a))[b] = items
    BY <1>6, PageEnds, SMTT(20)
  <2>2. a \in 0 .. Len(rows) /\ Len(rows) \in 0 .. Len(rows)
    BY <1>1, <2>1
  <2> HIDE DEF rest, S, out
  <2>3. Selected(rows, S)[Len(rows)] = Selected(rows, S)[a] \o out
    <3>1. \A i \in 1 .. Len(rows) : rows[i] \in rest <=> rows[i] \in S /\ i > a
      BY <1>2, <1>4
    <3> QED
      BY <1>1, <2>2, <3>1, SelectedAfter DEF out
  <2>4. Selected(rows, S)[Len(rows)] = rows /\ Selected(rows, S)[a] = SubSeq(rows, 1, a)
    <3>1. \A n \in 0 .. Len(rows) : Selected(rows, S)[n] = SubSeq(rows, 1, n)
      BY <1>1, <1>4, SelectAll
    <3>2. SubSeq(rows, 1, Len(rows)) = rows
      BY <1>1
    <3> QED
      BY <2>2, <3>1, <3>2
  <2>5. out \in Seq(S)
    BY <1>1, <2>2, SelectedLength DEF out
  <2>6. SubSeq(rows, 1, a) \in Seq(S) /\ Len(SubSeq(rows, 1, a)) = a
    BY <1>1, <2>2
  <2> DEFINE front == SubSeq(rows, 1, a)
  <2> HIDE DEF front
  <2>7. rows = front \o out /\ front \in Seq(S) /\ Len(front) = a
    BY <2>3, <2>4, <2>6 DEF front
  <2>8. Len(rows) = a + Len(out) /\ \A i \in 1 .. Len(out) : rows[a + i] = out[i]
    <3>1. front \in Seq(S) /\ out \in Seq(S) /\ Len(front) \in Nat /\ Len(out) \in Nat
      BY <2>5, <2>7
    <3>2. Len(front \o out) = Len(front) + Len(out)
      BY <3>1
    <3>3. ASSUME NEW i \in 1 .. Len(out) PROVE (front \o out)[Len(front) + i] = out[i]
      <4>1. Len(front) + i \in 1 .. Len(front) + Len(out) /\ ~(Len(front) + i <= Len(front))
        BY <3>1
      <4> QED
        BY <3>1, <4>1
    <3> QED
      BY <2>7, <3>2, <3>3
  <2>9. Len(items) <= Len(out) /\ \A i \in 1 .. Len(items) : items[i] = out[i]
    BY <1>3, <2>5 DEF Limit
  <2>10. Len(items) \in Nat /\ Len(out) \in Nat
    BY <1>3, <2>5 DEF Limit
  <2> QED
    BY <2>8, <2>9, <2>10
<1> QED
  BY <1>5, <1>6

-----------------------------------------------------------------------------
(* Pages follow one another.                                                               *)

(* Concatenation under a name of its own: a lemma about \o itself is not found when cited. *)
Followed(s, t) == s \o t

LEMMA LimitConcat ==
  ASSUME NEW S, NEW s \in Seq(S), NEW t \in Seq(S), NEW n \in Nat,
         NEW m, m = Len(s) + n
  PROVE  Limit(Followed(s, t), m) = Followed(s, Limit(t, n))
<1> DEFINE k == IF n < Len(t) THEN n ELSE Len(t)
           left == Limit(s \o t, Len(s) + n)
           right == s \o Limit(t, n)
<1>1. Len(s) \in Nat /\ Len(t) \in Nat /\ k \in 0 .. Len(t)
  OBVIOUS
<1>2. s \o t \in Seq(S) /\ Len(s \o t) = Len(s) + Len(t)
  OBVIOUS
<1>3. Limit(t, n) = SubSeq(t, 1, k)
  BY DEF Limit
<1>4. left = SubSeq(s \o t, 1, Len(s) + k)
  BY <1>1, <1>2 DEF Limit
<1> HIDE DEF k
<1>5. SubSeq(t, 1, k) \in Seq(S) /\ Len(SubSeq(t, 1, k)) = k
  BY <1>1
<1>6. left \in Seq(S) /\ Len(left) = Len(s) + k
  <2> DEFINE u == s \o t
  <2> HIDE DEF u
  <2>1. u \in Seq(S) /\ Len(u) = Len(s) + Len(t)
    BY <1>2 DEF u
  <2>2. SubSeq(u, 1, Len(s) + k) \in Seq(S) /\ Len(SubSeq(u, 1, Len(s) + k)) = Len(s) + k
    BY <1>1, <2>1
  <2> QED
    BY <1>4, <2>2 DEF u
<1>7. right \in Seq(S) /\ Len(right) = Len(s) + k
  BY <1>1, <1>3, <1>5
<1>8. ASSUME NEW i \in 1 .. Len(s) + k PROVE left[i] = right[i]
  <2>1. left[i] = (s \o t)[i]
    <3> DEFINE u == s \o t
    <3> HIDE DEF u
    <3>1. u \in Seq(S) /\ Len(u) = Len(s) + Len(t)
      BY <1>2 DEF u
    <3>2. SubSeq(u, 1, Len(s) + k)[i] = u[i]
      BY <1>1, <3>1
    <3> QED
      BY <1>4, <3>2 DEF u
  <2>2. CASE i <= Len(s)
    <3>1. (s \o t)[i] = s[i]
      BY <1>1, <2>2
    <3>2. right[i] = s[i]
      BY <1>1, <1>3, <1>5, <2>2
    <3> QED
      BY <2>1, <3>1, <3>2
  <2>3. CASE ~(i <= Len(s))
    <3>1. i - Len(s) \in 1 .. k
      BY <1>1, <2>3
    <3>2. (s \o t)[i] = t[i - Len(s)]
      BY <1>1, <2>3
    <3>3. right[i] = SubSeq(t, 1, k)[i - Len(s)]
      BY <1>1, <1>3, <1>5, <2>3
    <3>4. SubSeq(t, 1, k)[i - Len(s)] = t[i - Len(s)]
      BY <1>1, <3>1
    <3> QED
      BY <2>1, <3>2, <3>3, <3>4
  <2> QED
    BY <2>2, <2>3
<1> HIDE DEF left, right
<1>9. left = right
  BY <1>6, <1>7, <1>8, SeqEqual
<1> QED
  BY <1>9 DEF left, right, Followed

(* The rows a filter keeps of a table.                                                     *)
LEMMA KeptIs ==
  ASSUME DbOK(tables), NEW l \in TableNames, NEW f
  PROVE  /\ Kept(l, f) = Selected(tables[l], Rest(l, tables[l], f, 0))[Len(tables[l])]
         /\ Kept(l, f) \in Seq(Range(tables[l]))
         /\ Len(Kept(l, f)) \in Nat
<1> DEFINE rows == tables[l]
           rest == Rest(l, rows, f, 0)
           out == Selected(rows, rest)[Len(rows)]
           S == Range(rows)
           q == [after |-> None, count |-> Len(rows), filter |-> f]
<1>1. TableOK(l, rows) /\ rows \in Seq(S) /\ Len(rows) \in Nat
  BY TableLength DEF DbOK, TableOK
<1>2. After(q) = 0 /\ q.filter = f /\ q.count = Len(rows)
  BY DEF After
<1>3. Kept(l, f) = ReadList(tables, l, q).items
  BY DEF Kept
<1> HIDE DEF q
<1>4. Kept(l, f) = Limit(out, Len(rows))
  BY <1>2, <1>3, ReadItems DEF PageItems, Select
<1> HIDE DEF rest, S
<1>5. /\ out \in Seq(S)
      /\ Len(out) = Cardinality(SelectedAt(rows, rest, Len(rows)))
  <2>1. Len(rows) \in 0 .. Len(rows)
    BY <1>1
  <2>2. \A n \in 0 .. Len(rows) :
          /\ Selected(rows, rest)[n] \in Seq(S)
          /\ Len(Selected(rows, rest)[n]) = Cardinality(SelectedAt(rows, rest, n))
    BY <1>1, SelectedLength
  <2> QED
    BY <2>1, <2>2
<1>6. Cardinality(SelectedAt(rows, rest, Len(rows))) <= Len(rows)
  <2>1. SelectedAt(rows, rest, Len(rows)) \subseteq 1 .. Len(rows)
    BY DEF SelectedAt
  <2>2. IsFiniteSet(1 .. Len(rows)) /\ Cardinality(1 .. Len(rows)) = Len(rows)
    <3>1. 1 \in Int /\ Len(rows) \in Int
      BY <1>1
    <3>2. /\ IsFiniteSet(1 .. Len(rows))
          /\ Cardinality(1 .. Len(rows)) = IF 1 > Len(rows) THEN 0 ELSE Len(rows) - 1 + 1
      BY <3>1, FS_Interval
    <3> QED
      BY <1>1, <3>2
  <2> QED
    BY <2>1, <2>2, FS_Subset
<1> HIDE DEF out
<1>7. Limit(out, Len(rows)) = out
  <2>1. Len(out) <= Len(rows) /\ Len(out) \in Nat
    BY <1>5, <1>6
  <2>2. Limit(out, Len(rows)) = SubSeq(out, 1, Len(out))
    BY <1>1, <2>1 DEF Limit
  <2> QED
    BY <1>5, <2>2
<1> QED
  BY <1>4, <1>5, <1>7 DEF out, rest, S

(* The first k rows a filter keeps, and where the next page starts.                        *)
LEMMA FirstPage ==
  ASSUME DbOK(tables), NEW l \in TableNames, NEW f,
         f = NoFilter \/ l \in {"transaction", "account"},
         NEW k \in 0 .. Len(Kept(l, f)), NEW first,
         first = ReadList(tables, l, [after |-> None, count |-> k, filter |-> f])
  PROVE  /\ first.items = SubSeq(Kept(l, f), 1, k)
         /\ first.nextAfter \in 0 .. Len(tables[l])
         /\ Selected(tables[l], Rest(l, tables[l], f, 0))[first.nextAfter] = first.items
<1> DEFINE rows == tables[l]
           rest == Rest(l, rows, f, 0)
           out == Kept(l, f)
           S == Range(rows)
           q == [after |-> None, count |-> k, filter |-> f]
           items == first.items
<1>1. TableOK(l, rows) /\ rows \in Seq(S) /\ Len(rows) \in Nat
  BY TableLength DEF DbOK, TableOK
<1>2. After(q) = 0 /\ q.filter = f /\ q.count = k
  BY DEF After
<1>3. out = Selected(rows, rest)[Len(rows)] /\ out \in Seq(S) /\ Len(out) \in Nat
  BY KeptIs
<1>4. k \in Nat /\ k <= Len(out)
  BY <1>3
<1>5. /\ items = PageItems(l, rows, f, 0, k)
      /\ l \in {"transaction", "account"} => first.nextAfter = IndexNextAfter(items, q)
      /\ l \notin {"transaction", "account"} => first.nextAfter = Len(items)
  <2>1. first = ReadList(tables, l, q)
    OBVIOUS
  <2> HIDE DEF q
  <2>2. /\ items = PageItems(l, rows, q.filter, After(q), q.count)
        /\ l \in {"transaction", "account"} => first.nextAfter = IndexNextAfter(items, q)
        /\ l \notin {"transaction", "account"} => first.nextAfter = After(q) + Len(items)
    <3>1. /\ ReadList(tables, l, q).items
               = PageItems(l, tables[l], q.filter, After(q), q.count)
          /\ l \in {"transaction", "account"} =>
               ReadList(tables, l, q).nextAfter
                 = IndexNextAfter(ReadList(tables, l, q).items, q)
          /\ l \notin {"transaction", "account"} =>
               ReadList(tables, l, q).nextAfter
                 = After(q) + Len(ReadList(tables, l, q).items)
      BY ReadItems
    <3> QED
      BY <2>1, <3>1
  <2>3. Len(items) \in Nat
    BY <1>1, <1>2, <1>4, <2>2, PageLength
  <2> QED
    BY <1>2, <2>2, <2>3
<1>6. items = SubSeq(out, 1, k) /\ Len(items) = k
  <2>1. items = Limit(out, k)
    BY <1>3, <1>5 DEF PageItems, Select
  <2> HIDE DEF out, items
  <2> QED
    BY <1>3, <1>4, <2>1 DEF Limit
<1>7. Selected(rows, rest)[0] = <<>>
  <2> HIDE DEF rest, rows, S
  <2> QED
    BY <1>1, SelectedRows
<1>8. CASE k = 0
  <2>1. items = <<>>
    BY <1>3, <1>6, <1>8, SubSeqEmpty
  <2>2. first.nextAfter = 0
    BY <1>2, <1>5, <1>6, <1>8, <2>1 DEF IndexNextAfter
  <2> QED
    BY <1>1, <1>6, <1>7, <2>1, <2>2
<1>9. CASE k # 0
  <2>1. items # <<>>
    BY <1>4, <1>6, <1>9
  <2>2. CASE l \in {"transaction", "account"}
    <3>1. PICK b \in 1 .. Len(rows) : /\ items[Len(items)] = rows[b]
                                      /\ b > 0
                                      /\ Selected(rows, Rest(l, rows, f, 0))[b] = items
      BY <1>1, <1>4, <1>5, <2>1, PageEnds
    <3>2. first.nextAfter = b
      <4>1. first.nextAfter = rows[b].index
        BY <1>5, <2>1, <2>2, <3>1 DEF IndexNextAfter, Last
      <4>2. KeyOf(l, rows[b]) = b
        BY <1>1 DEF TableOK, RowOK
      <4> QED
        BY <2>2, <4>1, <4>2 DEF KeyOf
    <3> QED
      BY <1>1, <1>6, <3>1, <3>2
  <2>3. CASE l \notin {"transaction", "account"}
    <3>1. first.nextAfter = k /\ f = NoFilter
      BY <1>5, <1>6, <2>3
    <3>2. \A i \in 1 .. Len(rows) : rows[i] \in rest
      BY <1>1, <3>1, RestPositions DEF Match, NoFilter, InTime
    <3>3. \A n \in 0 .. Len(rows) : Selected(rows, rest)[n] = SubSeq(rows, 1, n)
      <4> HIDE DEF rest, S, rows
      <4> QED
        BY <1>1, <3>2, SelectAll
    <3>4. out = rows
      <4>1. Selected(rows, rest)[Len(rows)] = SubSeq(rows, 1, Len(rows))
        BY <1>1, <3>3
      <4> HIDE DEF out, rest, S, rows
      <4> QED
        BY <1>1, <1>3, <4>1
    <3>5. k \in 0 .. Len(rows)
      BY <1>4, <3>4
    <3> QED
      BY <1>6, <3>1, <3>3, <3>4, <3>5
  <2> QED
    BY <2>2, <2>3
<1> QED
  BY <1>8, <1>9

LEMMA PagesFollowLemma ==
  ASSUME ListsAssumption, DbOK(tables)
  PROVE  PagesFollow
<1>1. DOMAIN tables = TableNames
  BY DEF DbOK, TableNames
<1>2. ASSUME NEW l \in TableNames, NEW f, f = NoFilter \/ l \in {"transaction", "account"},
             NEW n \in PageSizes, NEW k \in 0 .. Len(Kept(l, f)), NEW first, NEW second,
             first = ReadList(tables, l, [after |-> None, count |-> k, filter |-> f]),
             second = ReadList(tables, l,
                               [after |-> first.nextAfter, count |-> n, filter |-> f])
      PROVE  Followed(first.items, second.items) = Limit(Kept(l, f), k + n)
  <2> DEFINE rows == tables[l]
             S == Range(rows)
             a == first.nextAfter
             rest == Rest(l, rows, f, 0)
             later == Rest(l, rows, f, a)
             lat == Selected(rows, later)[Len(rows)]
             q == [after |-> a, count |-> n, filter |-> f]
  <2>1. TableOK(l, rows) /\ rows \in Seq(S) /\ Len(rows) \in Nat
    BY TableLength DEF DbOK, TableOK
  <2>2. n \in Nat
    BY DEF ListsAssumption
  <2>3. /\ Kept(l, f) = Selected(rows, rest)[Len(rows)]
        /\ Kept(l, f) \in Seq(S)
        /\ Len(Kept(l, f)) \in Nat
    BY KeptIs
  <2>4. /\ first.items = SubSeq(Kept(l, f), 1, k)
        /\ a \in 0 .. Len(rows)
        /\ Selected(rows, rest)[a] = first.items
    BY <1>2, FirstPage
  <2>5. After(q) = a /\ q.filter = f /\ q.count = n
    BY <2>1, <2>4 DEF After, ListsAssumption
  <2>6. second.items = Limit(lat, n)
    <3>1. second = ReadList(tables, l, q)
      BY <1>2
    <3> HIDE DEF q, later
    <3>2. second.items = PageItems(l, rows, f, a, n)
      BY <2>5, <3>1, ReadItems
    <3> QED
      BY <3>2 DEF PageItems, Select, later
  <2>7. \A i \in 1 .. Len(rows) : rows[i] \in later <=> rows[i] \in rest /\ i > a
    <3>1. \A i \in 1 .. Len(rows) : rows[i] \in later <=> i > a /\ Match(l, rows[i], f)
      BY <2>1, <2>4, RestPositions
    <3>2. \A i \in 1 .. Len(rows) : rows[i] \in rest <=> i > 0 /\ Match(l, rows[i], f)
      BY <2>1, RestPositions
    <3> QED
      BY <2>1, <3>1, <3>2
  <2> HIDE DEF rest, later, S, a, rows
  <2>8. Kept(l, f) = Selected(rows, rest)[a] \o lat
    BY <2>1, <2>3, <2>4, <2>7, SelectedAfter
  <2>9. lat \in Seq(S)
    <3>1. Len(rows) \in 0 .. Len(rows)
      BY <2>1
    <3> QED
      BY <2>1, <3>1, SelectedLength
  <2> DEFINE front == first.items
  <2>10. front \in Seq(S) /\ Len(front) = k
    BY <2>3, <2>4
  <2> HIDE DEF lat, front
  <2> DEFINE m == k + n
  <2>11. m = Len(front) + n
    BY <2>10
  <2> HIDE DEF m
  <2>12. Limit(Followed(front, lat), m) = Followed(front, Limit(lat, n))
    <3>1. front \in Seq(S) /\ lat \in Seq(S) /\ n \in Nat
      BY <2>2, <2>9, <2>10
    <3> QED
      BY <2>11, <3>1, LimitConcat
  <2> QED
    BY <2>4, <2>6, <2>8, <2>12 DEF front, m, Followed
<1>3. ASSUME NEW l \in TableNames
      PROVE  Kept(l, NoFilter) = tables[l]
  <2> DEFINE rows == tables[l]
             S == Range(rows)
             rest == Rest(l, rows, NoFilter, 0)
  <2>1. TableOK(l, rows) /\ rows \in Seq(S) /\ Len(rows) \in Nat
    BY TableLength DEF DbOK, TableOK
  <2>2. \A i \in 1 .. Len(rows) : rows[i] \in rest
    BY <2>1, RestPositions DEF Match, NoFilter, InTime
  <2>3. Kept(l, NoFilter) = Selected(rows, rest)[Len(rows)]
    BY KeptIs
  <2> HIDE DEF rest, S, rows
  <2>4. Selected(rows, rest)[Len(rows)] = SubSeq(rows, 1, Len(rows))
    <3>1. \A n \in 0 .. Len(rows) : Selected(rows, rest)[n] = SubSeq(rows, 1, n)
      BY <2>1, <2>2, SelectAll
    <3> QED
      BY <2>1, <3>1
  <2> QED
    BY <2>1, <2>3, <2>4 DEF rows
<1> SUFFICES ASSUME NEW l \in DOMAIN tables,
                    NEW f \in {NoFilter} \cup
                             (IF l \in {"transaction", "account"} THEN Filters[l] ELSE {}),
                    NEW n \in PageSizes, NEW k \in 0 .. Len(Kept(l, f))
             PROVE  LET Read(after, count) ==
                          ReadList(tables, l, [after |-> after, count |-> count, filter |-> f])
                        first == Read(None, k)
                        second == Read(first.nextAfter, n)
                    IN  /\ first.items \o second.items = Limit(Kept(l, f), k + n)
                        /\ f = NoFilter => Kept(l, f) = tables[l]
  BY DEF PagesFollow
<1> DEFINE first == ReadList(tables, l, [after |-> None, count |-> k, filter |-> f])
           second == ReadList(tables, l,
                              [after |-> first.nextAfter, count |-> n, filter |-> f])
<1>4. l \in TableNames /\ (f = NoFilter \/ l \in {"transaction", "account"})
  BY <1>1
<1>5. first.items \o second.items = Limit(Kept(l, f), k + n)
  <2>1. /\ first = ReadList(tables, l, [after |-> None, count |-> k, filter |-> f])
        /\ second = ReadList(tables, l,
                             [after |-> first.nextAfter, count |-> n, filter |-> f])
    OBVIOUS
  <2> HIDE DEF first, second
  <2> QED
    <3>1. n \in PageSizes /\ k \in 0 .. Len(Kept(l, f))
      OBVIOUS
    <3>2. Followed(first.items, second.items) = Limit(Kept(l, f), k + n)
      BY <1>2, <1>4, <2>1, <3>1
    <3> QED
      BY <3>2 DEF Followed
<1> QED
  BY <1>3, <1>4, <1>5

-----------------------------------------------------------------------------
(* The inductive invariant.                                                                *)

Rows == tables[list]

Between(lo, hi) == Positions(list, Rows, query.filter, lo, hi)

Numbers ==
  /\ DbOK(tables)
  /\ list \in Lists
  /\ page \in Nat
  /\ query = [after |-> query.after, count |-> query.count, filter |-> query.filter]
  /\ query.after \in Nat \cup {None}
  /\ query.count \in PageSizes
  /\ loading \in BOOLEAN /\ stale \in BOOLEAN
  /\ turns \in 0 .. MaxTurns

Increasing(known) ==
  /\ known \in Seq(Nat \cup {None}) /\ known # <<>>
  /\ \A i \in 1 .. Len(known) : known[i] = None <=> i = 1
  /\ \A i, j \in 1 .. Len(known) : i < j => Num(known[i]) < Num(known[j])

(* pages grows; with a filter no more than a page of rows lies between two of its entries. *)
PagesOK ==
  /\ Increasing(pages)
  /\ IF WholePaging THEN Num(query.after) = page * query.count
     ELSE Num(query.after) <= Num(pages[Len(pages)])
  /\ ~WholePaging /\ ~stale =>
       \A k \in 1 .. Len(pages) - 1 :
         /\ pages[k + 1] <= Len(Rows)
         /\ Cardinality(Between(Num(pages[k]), pages[k + 1])) <= query.count

(* Items of a list without a filter.                                                       *)
ItemsFollow(items, after) ==
  \A i \in DOMAIN items :
    /\ i \in Nat \ {0}
    /\ after + i <= Len(Rows)
    /\ KeyOf(list, items[i]) = after + i

(* What the server has read for the latest query stays right while blocks arrive.          *)
AnswerOK ==
  /\ answer = [list |-> answer.list, total |-> answer.total]
  /\ answer # NoAnswer => loading
  /\ answer.total # None => answer.total \in Nat
  /\ answer.list # None =>
       LET next == answer.list.nextAfter
           from == Num(query.after)
       IN  /\ next \in Nat /\ from <= next
           /\ next = from \/ next <= Len(Rows)
           /\ Cardinality(Between(from, next)) <= query.count
           /\ WholePaging => ItemsFollow(answer.list.items, from)

DataOK ==
  /\ data # None => data.total \in Nat /\ data.nextAfter \in Nat
  /\ ~loading =>
       /\ data.query = query
       /\ WholePaging => ItemsFollow(data.items, Num(query.after))

ListsInv == Numbers /\ PagesOK /\ AnswerOK /\ DataOK

LEMMA LargestPageSize ==
  ASSUME ListsAssumption
  PROVE  Max(PageSizes) \in PageSizes
<1>1. \E x \in PageSizes : \A y \in PageSizes : x >= y
  BY FiniteMax DEF ListsAssumption
<1> QED
  BY <1>1 DEF Max

LEMMA NoPositions ==
  ASSUME NEW l, NEW rows, NEW f, NEW lo \in Nat
  PROVE  Positions(l, rows, f, lo, lo) = {} /\ Cardinality(Positions(l, rows, f, lo, lo)) = 0
<1>1. Positions(l, rows, f, lo, lo) = {}
  BY DEF Positions
<1> QED
  BY <1>1, FS_EmptySet

(* Rows that arrive later do not come between rows that are there.                         *)
LEMMA PositionsStable ==
  ASSUME NEW l, NEW old, NEW new, TableOK(l, old), TableOK(l, new), Continues(l, old, new),
         NEW f, NEW lo \in Nat, NEW hi \in Nat, hi <= Len(old)
  PROVE  Positions(l, new, f, lo, hi) = Positions(l, old, f, lo, hi)
<1>1. Len(old) \in Nat /\ Len(new) \in Nat /\ Len(old) <= Len(new)
  BY TableLength DEF Continues
<1>2. ASSUME NEW i \in 1 .. Len(old) PROVE Match(l, new[i], f) <=> Match(l, old[i], f)
  <2>1. SameRow(l, old[i], new[i])
    BY DEF Continues
  <2>2. CASE l = "account"
    BY <2>1, <2>2 DEF SameRow, Match
  <2>3. CASE l # "account"
    BY <2>1, <2>3 DEF SameRow
  <2> QED
    BY <2>2, <2>3
<1> QED
  BY <1>1, <1>2 DEF Positions

LEMMA InvInit ==
  ASSUME ListsAssumption, Init
  PROVE  ListsInv
<1>1. DbOK(tables)
  <2>1. \A l \in TableNames : tables[l] = <<>>
    BY DEF Init, EmptyTables, TableNames
  <2>2. \A l : TableOK(l, <<>>)
    BY DEF TableOK
  <2> QED
    BY <2>1, <2>2 DEF DbOK, Init, EmptyTables
<1>2. Max(PageSizes) \in PageSizes /\ PageSizes \subseteq Nat
  BY LargestPageSize DEF ListsAssumption
<1>3. Numbers
  <2>1. /\ query = [after |-> query.after, count |-> query.count, filter |-> query.filter]
        /\ query.after \in Nat \cup {None} /\ query.count \in PageSizes
    BY <1>2 DEF Init
  <2>2. list \in Lists /\ page \in Nat /\ loading \in BOOLEAN /\ stale \in BOOLEAN
    BY DEF Init
  <2>3. turns \in 0 .. MaxTurns
    BY DEF Init, ListsAssumption
  <2> QED
    BY <1>1, <2>1, <2>2, <2>3 DEF Numbers
<1>4. PagesOK
  <2>1. pages = <<None>> /\ WholePaging /\ page = 0 /\ query.after = None /\ query.count \in Nat
    BY <1>2 DEF Init, WholePaging
  <2>2. Len(pages) = 1 /\ pages \in Seq(Nat \cup {None}) /\ pages[1] = None /\ pages # <<>>
    BY <2>1
  <2>3. Num(query.after) = page * query.count
    BY <2>1 DEF Num
  <2> QED
    BY <2>1, <2>2, <2>3 DEF PagesOK, Increasing
<1>5. AnswerOK
  BY DEF AnswerOK, Init, NoAnswer
<1>6. DataOK
  BY DEF DataOK, Init
<1> QED
  BY <1>3, <1>4, <1>5, <1>6 DEF ListsInv

LEMMA NumNat ==
  ASSUME ListsAssumption, NEW x \in Nat \cup {None}
  PROVE  Num(x) \in Nat /\ (x # None => Num(x) = x)
BY DEF Num, ListsAssumption

LEMMA TimesNat ==
  ASSUME NEW m \in Nat, NEW n \in Nat
  PROVE  m * n \in Nat
OBVIOUS

LEMMA DivNat ==
  ASSUME NEW m \in Nat, NEW n \in Nat \ {0}
  PROVE  m \div n \in Nat
OBVIOUS

LEMMA IncreasingNums ==
  ASSUME ListsAssumption, NEW known, Increasing(known)
  PROVE  /\ Len(known) \in Nat \ {0}
         /\ \A i \in 1 .. Len(known) :
              /\ known[i] \in Nat \cup {None} /\ Num(known[i]) \in Nat
              /\ i # 1 => known[i] \in Nat /\ Num(known[i]) = known[i]
         /\ \A i \in 1 .. Len(known) : Num(known[i]) <= Num(known[Len(known)])
<1>1. Len(known) \in Nat \ {0} /\ known \in Seq(Nat \cup {None})
  BY DEF Increasing
<1>2. \A i \in 1 .. Len(known) : known[i] \in Nat \cup {None}
  BY <1>1
<1>3. \A i \in 1 .. Len(known) : Num(known[i]) \in Nat
  BY <1>2, NumNat
<1>4. \A i \in 1 .. Len(known) : i # 1 => known[i] \in Nat /\ Num(known[i]) = known[i]
  BY <1>2, NumNat DEF Increasing
<1>5. ASSUME NEW i \in 1 .. Len(known) PROVE Num(known[i]) <= Num(known[Len(known)])
  <2>1. Len(known) \in 1 .. Len(known)
    BY <1>1
  <2>2. CASE i = Len(known)
    BY <1>3, <2>2
  <2>3. CASE i # Len(known)
    <3>1. i < Len(known)
      BY <1>1, <2>3
    <3>2. Num(known[i]) < Num(known[Len(known)])
      BY <2>1, <3>1 DEF Increasing
    <3> QED
      BY <1>3, <2>1, <3>2
  <2> QED
    BY <2>2, <2>3
<1> QED
  BY <1>1, <1>2, <1>3, <1>4, <1>5

(* What an answer adds to pages.                                                           *)
LEMMA ReceivedKnown ==
  ASSUME ListsAssumption, NEW known, Increasing(known), NEW d, d # None => d.nextAfter \in Nat,
         NEW new, new = Received(known, d)
  PROVE  /\ Increasing(new)
         /\ Num(known[Len(known)]) <= Num(new[Len(new)])
         /\ \/ new = known
            \/ /\ d # None /\ Num(known[Len(known)]) < d.nextAfter
               /\ Len(new) = Len(known) + 1
               /\ new[Len(new)] = d.nextAfter
               /\ \A i \in 1 .. Len(known) : new[i] = known[i]
<1>1. /\ Len(known) \in Nat \ {0} /\ known \in Seq(Nat \cup {None})
      /\ \A i \in 1 .. Len(known) : Num(known[i]) \in Nat
      /\ \A i \in 1 .. Len(known) : Num(known[i]) <= Num(known[Len(known)])
  BY IncreasingNums DEF Increasing
<1>2. CASE new = known
  <2>1. Num(known[Len(known)]) \in Nat
    BY <1>1
  <2> QED
    BY <1>2, <2>1
<1>3. CASE new # known
  <2>1. d # None /\ Num(known[Len(known)]) < d.nextAfter /\ new = Append(known, d.nextAfter)
    BY <1>3 DEF Received, Last
  <2> DEFINE x == d.nextAfter
  <2>2. x \in Nat /\ x # None /\ Num(x) = x
    BY <2>1 DEF Num, ListsAssumption
  <2> HIDE DEF x
  <2>3. /\ new \in Seq(Nat \cup {None}) /\ new # <<>> /\ Len(new) = Len(known) + 1
        /\ \A i \in 1 .. Len(known) : new[i] = known[i]
        /\ new[Len(known) + 1] = x
    <3>1. new = Append(known, x)
      BY <2>1 DEF x
    <3> QED
      BY <1>1, <2>2, <3>1
  <2>4. \A i \in 1 .. Len(new) : new[i] = None <=> i = 1
    <3> SUFFICES ASSUME NEW i \in 1 .. Len(new) PROVE new[i] = None <=> i = 1
      OBVIOUS
    <3>1. CASE i = Len(known) + 1
      BY <1>1, <2>2, <2>3, <3>1
    <3>2. CASE i # Len(known) + 1
      <4>1. i \in 1 .. Len(known)
        BY <1>1, <2>3, <3>2
      <4> QED
        BY <2>3, <4>1 DEF Increasing
    <3> QED
      BY <3>1, <3>2
  <2>5. ASSUME NEW i \in 1 .. Len(new), NEW j \in 1 .. Len(new), i < j
        PROVE  Num(new[i]) < Num(new[j])
    <3>1. i \in 1 .. Len(known)
      BY <1>1, <2>3, <2>5
    <3>2. CASE j = Len(known) + 1
      <4>1. Num(known[i]) <= Num(known[Len(known)]) /\ Num(known[Len(known)]) < x
        BY <1>1, <2>1, <3>1 DEF x
      <4>2. Num(known[i]) \in Nat /\ Num(known[Len(known)]) \in Nat
        BY <1>1, <3>1
      <4> QED
        BY <2>2, <2>3, <3>1, <3>2, <4>1, <4>2
    <3>3. CASE j # Len(known) + 1
      <4>1. j \in 1 .. Len(known)
        BY <1>1, <2>3, <3>3
      <4> QED
        BY <2>3, <2>5, <3>1, <4>1 DEF Increasing
    <3> QED
      BY <3>2, <3>3
  <2>6. Increasing(new)
    BY <2>3, <2>4, <2>5 DEF Increasing
  <2>7. Num(known[Len(known)]) <= Num(new[Len(new)])
    <3>1. Num(known[Len(known)]) \in Nat /\ Num(known[Len(known)]) < x
      BY <1>1, <2>1 DEF x
    <3> QED
      BY <2>2, <2>3, <3>1
  <2> QED
    BY <2>1, <2>3, <2>6, <2>7 DEF x
<1> QED
  BY <1>2, <1>3

LEMMA ApplyInv ==
  ASSUME ListsAssumption, ListsInv, Apply
  PROVE  ListsInv'
<1> USE DEF ListsInv
<1>1. DbOK(tables') /\ Grows(tables, tables')
  <2> DEFINE height == Len(tables.block) + 1
             block == Ledger[height]
  <2>1. tables' = ApplyBlock(tables, block, height) /\ Len(tables.block) < Len(Ledger)
    BY DEF Apply
  <2>2. Len(tables.block) \in Nat
    <3>1. TableOK("block", tables["block"])
      BY DEF Numbers, DbOK, TableNames
    <3> QED
      BY <3>1, TableLength
  <2>3. height \in 1 .. Len(Ledger)
    BY <2>1, <2>2 DEF ListsAssumption
  <2>4. /\ Len(block.transactions) \in Nat
        /\ \A i \in 1 .. Len(block.transactions) :
             Len(block.transactions[i].commands) \in Nat
    BY <2>3 DEF ListsAssumption
  <2> HIDE DEF block
  <2>5. DbOK(tables)
    BY DEF Numbers
  <2> QED
    BY <2>1, <2>4, <2>5, BlockKeeps
<1>2. UNCHANGED <<list, page, pages, query, loading, stale, turns, answer, data>>
  BY DEF Apply, clientVars
<1> DEFINE old == tables[list]
           new == tables'[list]
<1>3. TableOK(list, old) /\ TableOK(list, new) /\ Continues(list, old, new)
  BY <1>1 DEF Numbers, DbOK, Grows, Lists, TableNames
<1>4. Len(old) \in Nat /\ Len(new) \in Nat /\ Len(old) <= Len(new)
  BY <1>3, TableLength DEF Continues
<1>5. \A lo, hi \in Nat : hi <= Len(old) =>
        Positions(list, new, query.filter, lo, hi) = Positions(list, old, query.filter, lo, hi)
  BY <1>3, PositionsStable
<1>6. \A lo \in Nat : Cardinality(Positions(list, new, query.filter, lo, lo)) = 0
  BY NoPositions
<1>7. Rows = old /\ Rows' = new
  BY <1>2 DEF Rows
<1>8. \A lo, hi : Between(lo, hi) = Positions(list, old, query.filter, lo, hi)
  BY <1>7 DEF Between
<1>9. \A lo, hi : Between(lo, hi)' = Positions(list, new, query.filter, lo, hi)
  BY <1>2, <1>7 DEF Between
<1> HIDE DEF old, new
<1>10. Numbers'
  BY <1>1, <1>2 DEF Numbers
<1>11. \A k \in 1 .. Len(pages) - 1 : Num(pages[k]) \in Nat /\ pages[k + 1] \in Nat
  <2> SUFFICES ASSUME NEW k \in 1 .. Len(pages) - 1
               PROVE  Num(pages[k]) \in Nat /\ pages[k + 1] \in Nat
    OBVIOUS
  <2>1. /\ Len(pages) \in Nat \ {0}
        /\ \A i \in 1 .. Len(pages) : /\ Num(pages[i]) \in Nat
                                      /\ i # 1 => pages[i] \in Nat
    BY IncreasingNums DEF PagesOK
  <2>2. k \in 1 .. Len(pages) /\ k + 1 \in 1 .. Len(pages) /\ k + 1 # 1
    BY <2>1
  <2> QED
    BY <2>1, <2>2
<1>12. PagesOK'
  <2>1. ASSUME ~WholePaging, ~stale, NEW k \in 1 .. Len(pages) - 1
        PROVE  /\ pages[k + 1] <= Len(new)
               /\ Cardinality(Positions(list, new, query.filter, Num(pages[k]), pages[k + 1]))
                    <= query.count
    <3>1. /\ pages[k + 1] <= Len(old)
          /\ Cardinality(Positions(list, old, query.filter, Num(pages[k]), pages[k + 1]))
               <= query.count
      BY <1>7, <1>8, <2>1 DEF PagesOK
    <3>2. pages[k + 1] <= Len(new)
      BY <1>4, <1>11, <3>1
    <3> QED
      BY <1>5, <1>11, <3>1, <3>2
  <2>2. PagesOK' <=>
          /\ Increasing(pages)
          /\ IF WholePaging THEN Num(query.after) = page * query.count
             ELSE Num(query.after) <= Num(pages[Len(pages)])
          /\ ~WholePaging /\ ~stale =>
               \A k \in 1 .. Len(pages) - 1 :
                 /\ pages[k + 1] <= Len(new)
                 /\ Cardinality(Positions(list, new, query.filter, Num(pages[k]), pages[k + 1]))
                      <= query.count
    BY <1>2, <1>7, <1>9 DEF PagesOK, WholePaging
  <2> QED
    BY <2>1, <2>2 DEF PagesOK
<1>13. Num(query.after) \in Nat
  BY NumNat DEF Numbers
<1>14. \A items : ItemsFollow(items, Num(query.after)) => ItemsFollow(items, Num(query.after))'
  BY <1>2, <1>4, <1>7, <1>13 DEF ItemsFollow
<1>15. AnswerOK'
  <2>1. ASSUME answer.list # None
        PROVE  LET next == answer.list.nextAfter
                   from == Num(query.after)
               IN  /\ next \in Nat /\ from <= next
                   /\ next = from \/ next <= Len(new)
                   /\ Cardinality(Positions(list, new, query.filter, from, next)) <= query.count
                   /\ WholePaging => ItemsFollow(answer.list.items, from)'
    <3> DEFINE next == answer.list.nextAfter
               from == Num(query.after)
    <3>1. /\ next \in Nat /\ from <= next
          /\ next = from \/ next <= Len(old)
          /\ Cardinality(Positions(list, old, query.filter, from, next)) <= query.count
          /\ WholePaging => ItemsFollow(answer.list.items, from)
      BY <1>7, <1>8, <2>1 DEF AnswerOK
    <3>2. WholePaging => ItemsFollow(answer.list.items, from)'
      BY <1>2, <1>14, <3>1
    <3> HIDE DEF next, from
    <3>3. CASE next = from
      <4>1. Cardinality(Positions(list, new, query.filter, from, next)) = 0
        BY <1>6, <3>1, <3>3
      <4>2. 0 <= query.count
        BY DEF Numbers, ListsAssumption
      <4> QED
        BY <3>1, <3>2, <3>3, <4>1, <4>2 DEF next, from
    <3>4. CASE next <= Len(old)
      <4>1. from \in Nat
        BY <1>13 DEF from
      <4>2. Positions(list, new, query.filter, from, next)
              = Positions(list, old, query.filter, from, next)
        BY <1>5, <3>1, <3>4, <4>1
      <4>3. next <= Len(new)
        BY <1>4, <3>1, <3>4
      <4> QED
        BY <3>1, <3>2, <4>2, <4>3 DEF next, from
    <3> QED
      BY <3>1, <3>3, <3>4
  <2> QED
    BY <1>2, <1>7, <1>9, <2>1 DEF AnswerOK, WholePaging
<1>16. DataOK'
  BY <1>2, <1>14 DEF DataOK, WholePaging
<1> QED
  BY <1>10, <1>12, <1>15, <1>16

LEMMA ListTable ==
  ASSUME Numbers
  PROVE  /\ list \in TableNames /\ DbOK(tables) /\ TableOK(list, Rows) /\ Len(Rows) \in Nat
         /\ \A row : Key(row) = KeyOf(list, row)
<1>1. list \in TableNames /\ DbOK(tables)
  BY DEF Numbers, Lists, TableNames
<1>2. TableOK(list, Rows)
  BY <1>1 DEF DbOK, Rows
<1> QED
  BY <1>1, <1>2, TableLength DEF Key, KeyOf

LEMMA QueryOK ==
  ASSUME ListsAssumption, Numbers
  PROVE  /\ IsQuery(query) /\ After(query) = Num(query.after) /\ Num(query.after) \in Nat
         /\ query.count \in Nat \ {0}
BY NumNat DEF Numbers, IsQuery, After, Num, ListsAssumption

LEMMA AnswerListInv ==
  ASSUME ListsAssumption, ListsInv, AnswerList
  PROVE  ListsInv'
<1> USE DEF ListsInv
<1>1. UNCHANGED <<tables, list, page, pages, query, loading, stale, turns, data>>
  BY DEF AnswerList, clientVars
<1>2. /\ loading
      /\ answer' = [list |-> ReadList(tables, list, query), total |-> answer.total]
  BY DEF AnswerList, AnswerOK
<1>3. Numbers'
  BY <1>1 DEF Numbers
<1>4. PagesOK'
  BY <1>1 DEF PagesOK, WholePaging, Rows, Between
<1>5. DataOK'
  BY <1>1 DEF DataOK, WholePaging, Rows, ItemsFollow
<1>6. AnswerOK'
  <2> DEFINE read == ReadList(tables, list, query)
             from == Num(query.after)
  <2>1. answer'.list = read /\ answer'.total = answer.total
    BY <1>2
  <2>2. /\ list \in TableNames /\ DbOK(tables) /\ IsQuery(query) /\ After(query) = from
        /\ from \in Nat
    BY ListTable, QueryOK
  <2>3. /\ read.nextAfter \in Nat /\ from <= read.nextAfter
        /\ read.nextAfter = from \/ read.nextAfter <= Len(Rows)
        /\ Cardinality(Between(from, read.nextAfter)) <= query.count
    BY <2>2, NextAfter DEF Between, Rows
  <2>4. ASSUME WholePaging PROVE ItemsFollow(read.items, from)
    <3> DEFINE items == read.items
    <3>1. items = PageItems(list, Rows, NoFilter, from, query.count)
      BY <2>2, <2>4, ReadItems DEF Rows, WholePaging
    <3>2. TableOK(list, Rows) /\ query.count \in Nat
      BY ListTable, QueryOK
    <3> HIDE DEF items, from
    <3>3. \A i \in 1 .. Len(items) : from + i <= Len(Rows) /\ items[i] = Rows[from + i]
      BY <2>2, <3>1, <3>2, WholeItems
    <3>4. DOMAIN items = 1 .. Len(items) /\ Len(items) \in Nat
      <4>1. items \in Seq(Range(Rows)) /\ Len(items) \in Nat
        BY <2>2, <3>1, <3>2, PageLength
      <4> QED
        BY <4>1
    <3>5. ASSUME NEW i \in DOMAIN items
          PROVE  /\ i \in Nat \ {0} /\ from + i <= Len(Rows)
                 /\ KeyOf(list, items[i]) = from + i
      <4>1. i \in Nat \ {0} /\ i \in 1 .. Len(items)
        BY <3>4
      <4>2. from + i \in 1 .. Len(Rows) /\ items[i] = Rows[from + i]
        BY <2>2, <3>3, <4>1, ListTable
      <4>3. KeyOf(list, Rows[from + i]) = from + i
        BY <3>2, <4>2 DEF TableOK, RowOK
      <4> QED
        BY <4>1, <4>2, <4>3
    <3> QED
      BY <3>5 DEF ItemsFollow, items
  <2>5. answer'.total # None => answer'.total \in Nat
    BY <2>1 DEF AnswerOK
  <2>6. answer' = [list |-> answer'.list, total |-> answer'.total]
    BY <1>2
  <2> HIDE DEF read, from
  <2>7. answer'.list # None =>
          LET next == answer'.list.nextAfter
          IN  /\ next \in Nat /\ from <= next
              /\ next = from \/ next <= Len(Rows)
              /\ Cardinality(Between(from, next)) <= query.count
              /\ WholePaging => ItemsFollow(answer'.list.items, from)
    BY <2>1, <2>3, <2>4
  <2>8. loading'
    BY <1>1, <1>2
  <2> QED
    BY <1>1, <2>5, <2>6, <2>7, <2>8
    DEF AnswerOK, from, WholePaging, Rows, Between, ItemsFollow
<1> QED
  BY <1>3, <1>4, <1>5, <1>6

LEMMA AnswerTotalInv ==
  ASSUME ListsAssumption, ListsInv, AnswerTotal
  PROVE  ListsInv'
<1> USE DEF ListsInv
<1>1. UNCHANGED <<tables, list, page, pages, query, loading, stale, turns, data>>
  BY DEF AnswerTotal, clientVars
<1>2. loading /\ answer' = [list |-> answer.list, total |-> Len(Rows)]
  BY DEF AnswerTotal, AnswerOK, Rows
<1>3. Numbers'
  BY <1>1 DEF Numbers
<1>4. PagesOK'
  BY <1>1 DEF PagesOK, WholePaging, Rows, Between
<1>5. DataOK'
  BY <1>1 DEF DataOK, WholePaging, Rows, ItemsFollow
<1>6. AnswerOK'
  <2>1. Len(Rows) \in Nat
    BY ListTable
  <2>2. answer'.list = answer.list /\ answer'.total = Len(Rows)
    BY <1>2
  <2>3. answer' = [list |-> answer'.list, total |-> answer'.total]
    BY <1>2
  <2>4. loading'
    BY <1>1, <1>2
  <2> QED
    BY <1>1, <2>1, <2>2, <2>3, <2>4 DEF AnswerOK, WholePaging, Rows, Between, ItemsFollow
<1> QED
  BY <1>3, <1>4, <1>5, <1>6

LEMMA DeliverInv ==
  ASSUME ListsAssumption, ListsInv, Deliver
  PROVE  ListsInv'
<1> USE DEF ListsInv
<1>1. UNCHANGED <<tables, list, page, query, stale, turns>>
  BY DEF Deliver
<1>2. /\ answer.list # None /\ answer.total # None
      /\ data' = [query |-> query, total |-> answer.total,
                  items |-> answer.list.items, nextAfter |-> answer.list.nextAfter]
      /\ pages' = Received(pages, data')
      /\ answer' = NoAnswer
      /\ loading' = FALSE
  BY DEF Deliver
<1> DEFINE next == answer.list.nextAfter
           from == Num(query.after)
<1>3. /\ next \in Nat /\ from <= next
      /\ next = from \/ next <= Len(Rows)
      /\ Cardinality(Between(from, next)) <= query.count
      /\ WholePaging => ItemsFollow(answer.list.items, from)
      /\ answer.total \in Nat
  BY <1>2 DEF AnswerOK
<1>4. /\ data'.nextAfter = next /\ data'.total = answer.total /\ data'.query = query
      /\ data'.items = answer.list.items
  BY <1>2
<1>5. Numbers'
  BY <1>1, <1>2 DEF Numbers
<1>6. AnswerOK'
  BY <1>2 DEF AnswerOK, NoAnswer
<1>7. DataOK'
  <2>1. WholePaging => ItemsFollow(data'.items, from)
    BY <1>3, <1>4
  <2>2. data'.total \in Nat /\ data'.nextAfter \in Nat /\ data'.query = query
    BY <1>3, <1>4
  <2> QED
    BY <1>1, <2>1, <2>2 DEF DataOK, WholePaging, Rows, ItemsFollow
<1>8. PagesOK'
  <2> DEFINE len == Len(pages)
             last == Num(pages[len])
  <2>1. /\ Increasing(pages)
        /\ IF WholePaging THEN from = page * query.count ELSE from <= last
        /\ ~WholePaging /\ ~stale =>
             \A k \in 1 .. len - 1 :
               /\ pages[k + 1] <= Len(Rows)
               /\ Cardinality(Between(Num(pages[k]), pages[k + 1])) <= query.count
    BY DEF PagesOK
  <2>2. /\ Increasing(pages')
        /\ last <= Num(pages'[Len(pages')])
        /\ \/ pages' = pages
           \/ /\ last < next
              /\ Len(pages') = len + 1
              /\ pages'[Len(pages')] = next
              /\ \A i \in 1 .. len : pages'[i] = pages[i]
    <3>1. data' # None => data'.nextAfter \in Nat
      BY <1>3, <1>4
    <3>2. Increasing(pages) /\ pages' = Received(pages, data')
      BY <1>2, <2>1
    <3>3. /\ Increasing(pages')
          /\ Num(pages[Len(pages)]) <= Num(pages'[Len(pages')])
          /\ \/ pages' = pages
             \/ /\ data' # None /\ Num(pages[Len(pages)]) < data'.nextAfter
                /\ Len(pages') = Len(pages) + 1
                /\ pages'[Len(pages')] = data'.nextAfter
                /\ \A i \in 1 .. Len(pages) : pages'[i] = pages[i]
      BY <3>1, <3>2, ReceivedKnown
    <3> QED
      BY <1>4, <3>3
  <2>3. len \in Nat \ {0} /\ last \in Nat /\ Num(pages'[Len(pages')]) \in Nat
    <3>1. /\ Len(pages) \in Nat \ {0}
          /\ \A i \in 1 .. Len(pages) : Num(pages[i]) \in Nat
      BY <2>1, IncreasingNums
    <3>2. /\ Len(pages') \in Nat \ {0}
          /\ \A i \in 1 .. Len(pages') : Num(pages'[i]) \in Nat
      BY <2>2, IncreasingNums
    <3>3. len \in 1 .. len /\ Len(pages') \in 1 .. Len(pages')
      BY <3>1, <3>2
    <3> QED
      BY <3>1, <3>2, <3>3
  <2>4. from \in Nat /\ query.count \in Nat /\ Len(Rows) \in Nat
    BY QueryOK, ListTable
  <2> HIDE DEF from, len, last
  <2>5. IF WholePaging THEN from = page * query.count ELSE from <= Num(pages'[Len(pages')])
    BY <2>1, <2>2, <2>3, <2>4
  <2>6. ASSUME ~WholePaging, ~stale, NEW k \in 1 .. Len(pages') - 1
        PROVE  /\ pages'[k + 1] <= Len(Rows)
               /\ Cardinality(Between(Num(pages'[k]), pages'[k + 1])) <= query.count
    <3>1. CASE pages' = pages
      BY <2>1, <2>6, <3>1 DEF len
    <3>2. CASE pages' # pages
      <4>1. /\ last < next /\ Len(pages') = len + 1 /\ pages'[len + 1] = next
            /\ \A i \in 1 .. len : pages'[i] = pages[i]
        BY <2>2, <3>2
      <4>2. CASE k = len
        <5>1. next <= Len(Rows)
          BY <1>3, <2>1, <2>3, <2>4, <2>6, <4>1
        <5>2. Between(last, next) \in SUBSET Between(from, next)
          BY <1>3, <2>1, <2>3, <2>4, <2>6 DEF Between, Positions
        <5>3. /\ IsFiniteSet(Between(from, next))
              /\ Cardinality(Between(from, next)) \in Nat
          BY <1>3, <2>4, PositionsFinite DEF Between
        <5>4. Cardinality(Between(last, next)) <= Cardinality(Between(from, next))
          BY <5>2, <5>3, FS_Subset
        <5>5. Cardinality(Between(last, next)) \in Nat
          BY <1>3, <2>3, PositionsFinite DEF Between
        <5>6. Cardinality(Between(last, next)) <= query.count
          BY <1>3, <2>4, <5>3, <5>4, <5>5
        <5>7. Num(pages'[k]) = last /\ pages'[k + 1] = next
          BY <2>3, <4>1, <4>2 DEF last
        <5> QED
          BY <5>1, <5>6, <5>7
      <4>3. CASE k # len
        <5>1. k \in 1 .. len - 1 /\ k \in 1 .. len /\ k + 1 \in 1 .. len
          BY <2>3, <2>6, <4>1, <4>3
        <5>2. pages'[k] = pages[k] /\ pages'[k + 1] = pages[k + 1]
          BY <4>1, <5>1
        <5> QED
          BY <2>1, <2>6, <5>1, <5>2
      <4> QED
        BY <4>2, <4>3
    <3> QED
      BY <3>1, <3>2
  <2>7. PagesOK' <=>
          /\ Increasing(pages')
          /\ IF WholePaging THEN from = page * query.count
             ELSE from <= Num(pages'[Len(pages')])
          /\ ~WholePaging /\ ~stale =>
               \A k \in 1 .. Len(pages') - 1 :
                 /\ pages'[k + 1] <= Len(Rows)
                 /\ Cardinality(Between(Num(pages'[k]), pages'[k + 1])) <= query.count
    BY <1>1 DEF PagesOK, WholePaging, Rows, Between, from
  <2> QED
    BY <2>2, <2>5, <2>6, <2>7
<1> QED
  BY <1>5, <1>6, <1>7, <1>8

LEMMA RerenderInv ==
  ASSUME ListsAssumption, ListsInv, Rerender
  PROVE  ListsInv'
<1> USE DEF ListsInv
<1>1. UNCHANGED <<tables, list, page, query, answer, loading, data, turns>>
  BY DEF Rerender
<1>2. loading /\ pages' = Received(pages, data) /\ stale' = (stale \/ pages' # pages)
  BY DEF Rerender
<1>3. Numbers'
  BY <1>1, <1>2 DEF Numbers
<1>4. AnswerOK'
  BY <1>1 DEF AnswerOK, WholePaging, Rows, Between, ItemsFollow
<1>5. DataOK'
  BY <1>1 DEF DataOK, WholePaging, Rows, ItemsFollow
<1>6. PagesOK'
  <2>1. CASE pages' = pages
    <3>1. stale' = stale
      BY <1>2, <2>1 DEF Numbers
    <3> QED
      BY <1>1, <2>1, <3>1 DEF PagesOK, WholePaging, Rows, Between
  <2>2. CASE pages' # pages
    <3>1. stale'
      BY <1>2, <2>2
    <3>2. Increasing(pages) /\ (data # None => data.nextAfter \in Nat)
      BY DEF PagesOK, DataOK
    <3>3. Increasing(pages') /\ Num(pages[Len(pages)]) <= Num(pages'[Len(pages')])
      BY <1>2, <3>2, ReceivedKnown
    <3>4. Num(pages[Len(pages)]) \in Nat /\ Num(pages'[Len(pages')]) \in Nat
      <4>1. /\ Len(pages) \in Nat \ {0}
            /\ \A i \in 1 .. Len(pages) : Num(pages[i]) \in Nat
        BY <3>2, IncreasingNums
      <4>2. /\ Len(pages') \in Nat \ {0}
            /\ \A i \in 1 .. Len(pages') : Num(pages'[i]) \in Nat
        BY <3>3, IncreasingNums
      <4>3. Len(pages) \in 1 .. Len(pages) /\ Len(pages') \in 1 .. Len(pages')
        BY <4>1, <4>2
      <4> QED
        BY <4>1, <4>2, <4>3
    <3>5. Num(query.after) \in Nat
      BY QueryOK
    <3>6. IF WholePaging THEN Num(query.after) = page * query.count
          ELSE Num(query.after) <= Num(pages'[Len(pages')])
      BY <3>3, <3>4, <3>5 DEF PagesOK
    <3> QED
      BY <1>1, <3>1, <3>3, <3>6 DEF PagesOK, WholePaging
  <2> QED
    BY <2>1, <2>2
<1> QED
  BY <1>3, <1>4, <1>5, <1>6

LEMMA TurnTaken ==
  ASSUME ListsAssumption, Numbers, Turn
  PROVE  turns' \in 0 .. MaxTurns
BY DEF Numbers, Turn, ListsAssumption

(* The number of pages is a natural number, and of a filtered list that of its pages.      *)
LEMMA PagesNat ==
  ASSUME ListsAssumption, ListsInv, NEW p \in 0 .. Pages - 1
  PROVE  p \in Nat /\ (~WholePaging => p + 1 \in 1 .. Len(pages))
<1> USE DEF ListsInv
<1>1. CASE WholePaging
  <2>1. Pages \in Int
    <3>1. CASE Total = None
      BY <1>1, <3>1 DEF Pages
    <3>2. CASE Total # None
      <4>1. Total \in Nat
        BY <3>2 DEF Total, DataOK
      <4>2. query.count \in Nat \ {0}
        BY QueryOK
      <4>3. Total + query.count - 1 \in Nat
        BY <4>1, <4>2
      <4>4. (Total + query.count - 1) \div query.count \in Nat
        BY <4>2, <4>3, DivNat
      <4> QED
        BY <1>1, <3>2, <4>4 DEF Pages
    <3> QED
      BY <3>1, <3>2
  <2> QED
    BY <1>1, <2>1
<1>2. CASE ~WholePaging
  <2>1. Len(pages) \in Nat
    BY IncreasingNums DEF PagesOK
  <2>2. Pages = Len(pages)
    BY <1>2 DEF Pages
  <2> QED
    BY <1>2, <2>1, <2>2
<1> QED
  BY <1>1, <1>2

LEMMA PageChangeInv ==
  ASSUME ListsAssumption, ListsInv, OnPageChange
  PROVE  ListsInv'
<1> USE DEF ListsInv
<1>1. PICK p \in 0 .. Pages - 1 :
        /\ page' = p
        /\ Refetch([query EXCEPT !.after = PageToAfter(p, query.count)])
  BY DEF OnPageChange
<1>2. UNCHANGED <<tables, list, pages, data, stale>> /\ turns' \in 0 .. MaxTurns
  BY TurnTaken DEF OnPageChange
<1> DEFINE after == PageToAfter(p, query.count)
<1>3. /\ query' = [after |-> after, count |-> query.count, filter |-> query.filter]
      /\ answer' = NoAnswer /\ loading'
  BY <1>1 DEF Refetch, Numbers
<1>4. p \in Nat /\ (~WholePaging => p + 1 \in 1 .. Len(pages))
  BY PagesNat
<1>5. query.count \in PageSizes /\ query.count \in Nat
  BY QueryOK DEF Numbers
<1>6. /\ after \in Nat \cup {None}
      /\ IF WholePaging THEN Num(after) = p * query.count
         ELSE Num(after) <= Num(pages[Len(pages)])
  <2>1. CASE WholePaging
    <3>1. after = p * query.count
      BY <2>1 DEF PageToAfter
    <3>2. after \in Nat
      BY <1>4, <1>5, <3>1, TimesNat
    <3>3. Num(after) = after
      BY <3>2 DEF Num, ListsAssumption
    <3> QED
      BY <2>1, <3>1, <3>2, <3>3
  <2>2. CASE ~WholePaging
    <3>1. after = pages[p + 1] /\ p + 1 \in 1 .. Len(pages)
      BY <1>4, <2>2 DEF PageToAfter
    <3>2. \A i \in 1 .. Len(pages) :
            pages[i] \in Nat \cup {None} /\ Num(pages[i]) <= Num(pages[Len(pages)])
      BY IncreasingNums DEF PagesOK
    <3> QED
      BY <2>2, <3>1, <3>2
  <2> QED
    BY <2>1, <2>2
<1> HIDE DEF after
<1>7. /\ query'.after = after /\ query'.count = query.count /\ query'.filter = query.filter
      /\ query' = [after |-> query'.after, count |-> query'.count, filter |-> query'.filter]
  BY <1>3
<1>8. Numbers'
  BY <1>1, <1>2, <1>3, <1>4, <1>5, <1>6, <1>7 DEF Numbers
<1>9. WholePaging' <=> WholePaging
  BY <1>7 DEF WholePaging
<1>10. PagesOK'
  BY <1>1, <1>2, <1>6, <1>7, <1>9 DEF PagesOK, Rows, Between
<1>11. AnswerOK'
  BY <1>3 DEF AnswerOK, NoAnswer
<1>12. DataOK'
  BY <1>2, <1>3 DEF DataOK
<1> QED
  BY <1>8, <1>10, <1>11, <1>12

(* The pages with which a filtered list starts.                                            *)
LEMMA FirstPages ==
  Increasing(<<None>>) /\ Len(<<None>>) = 1 /\ Num(<<None>>[1]) = 0 /\ Num(None) = 0
BY DEF Increasing, Num

(* Setting a filter, or a page size with a filter, starts anew.                            *)
LEMMA StartAnew ==
  ASSUME ListsAssumption, ListsInv, UNCHANGED <<tables, list, data>>,
         turns' \in 0 .. MaxTurns, page' = 0, pages' = <<None>>, stale' = FALSE,
         NEW count \in PageSizes, NEW filter,
         query' = [after |-> None, count |-> count, filter |-> filter],
         answer' = NoAnswer, loading' = TRUE
  PROVE  ListsInv'
<1> USE DEF ListsInv
<1>1. /\ query'.after = None /\ query'.count = count
      /\ query' = [after |-> query'.after, count |-> query'.count, filter |-> query'.filter]
  OBVIOUS
<1>2. Numbers'
  BY <1>1 DEF Numbers
<1>3. PagesOK'
  <2>1. 0 * count = 0
    BY DEF ListsAssumption
  <2>2. /\ Increasing(pages') /\ Len(pages') = 1 /\ Num(pages'[1]) = 0
        /\ Num(query'.after) = 0
    BY <1>1, FirstPages
  <2> QED
    BY <1>1, <2>1, <2>2 DEF PagesOK
<1>4. AnswerOK'
  BY DEF AnswerOK, NoAnswer
<1>5. DataOK'
  BY DEF DataOK
<1> QED
  BY <1>2, <1>3, <1>4, <1>5

LEMMA PageSizeChangeInv ==
  ASSUME ListsAssumption, ListsInv, OnPageSizeChange
  PROVE  ListsInv'
<1>1. PICK count \in PageSizes \ {query.count} :
        LET p == (page * query.count) \div count
        IN  IF WholePaging
            THEN /\ page' = p
                 /\ Refetch([query EXCEPT !.after = PageToAfter(p, count), !.count = count])
                 /\ UNCHANGED <<pages, stale>>
            ELSE /\ page' = 0
                 /\ pages' = <<None>>
                 /\ stale' = FALSE
                 /\ Refetch([query EXCEPT !.after = None, !.count = count])
  BY DEF OnPageSizeChange
<1>2. UNCHANGED <<tables, list, data>> /\ turns' \in 0 .. MaxTurns
  BY TurnTaken DEF OnPageSizeChange, ListsInv
<1>3. query = [after |-> query.after, count |-> query.count, filter |-> query.filter]
  BY DEF ListsInv, Numbers
<1>4. CASE ~WholePaging
  <2>1. /\ page' = 0 /\ pages' = <<None>> /\ stale' = FALSE
        /\ query' = [after |-> None, count |-> count, filter |-> query.filter]
        /\ answer' = NoAnswer /\ loading' = TRUE
    BY <1>1, <1>3, <1>4 DEF Refetch
  <2> QED
    BY <1>2, <2>1, StartAnew
<1>5. CASE WholePaging
  <2> DEFINE p == (page * query.count) \div count
             after == PageToAfter(p, count)
  <2>1. /\ page' = p /\ UNCHANGED <<pages, stale>>
        /\ query' = [after |-> after, count |-> count, filter |-> query.filter]
        /\ answer' = NoAnswer /\ loading' = TRUE
    BY <1>1, <1>3, <1>5 DEF Refetch
  <2>2. page \in Nat /\ query.count \in Nat /\ count \in Nat \ {0}
    BY QueryOK DEF ListsInv, Numbers, ListsAssumption
  <2>3. page * query.count \in Nat
    BY <2>2, TimesNat
  <2>4. p \in Nat
    BY <2>2, <2>3, DivNat
  <2>5. after = p * count
    BY <1>5 DEF PageToAfter
  <2> HIDE DEF p
  <2>6. after \in Nat
    BY <2>2, <2>4, <2>5, TimesNat
  <2> HIDE DEF after
  <2>7. Num(after) = p * count
    BY <2>5, <2>6 DEF Num, ListsAssumption
  <2>8. /\ query'.after = after /\ query'.count = count /\ query'.filter = query.filter
        /\ query' = [after |-> query'.after, count |-> query'.count, filter |-> query'.filter]
    BY <2>1
  <2>9. Numbers'
    BY <1>2, <2>1, <2>4, <2>6, <2>8 DEF Numbers, ListsInv
  <2>10. WholePaging'
    BY <1>5, <2>8 DEF WholePaging
  <2>11. PagesOK'
    BY <2>1, <2>7, <2>8, <2>10 DEF PagesOK, ListsInv
  <2>12. AnswerOK'
    BY <2>1 DEF AnswerOK, NoAnswer
  <2>13. DataOK'
    BY <1>2, <2>1 DEF DataOK, ListsInv
  <2> QED
    BY <2>9, <2>11, <2>12, <2>13 DEF ListsInv
<1> QED
  BY <1>4, <1>5

LEMMA FilterChangeInv ==
  ASSUME ListsAssumption, ListsInv, OnFilterChange
  PROVE  ListsInv'
<1>1. PICK f \in (Filters[list] \cup {NoFilter}) \ {query.filter} :
        /\ page' = 0
        /\ pages' = <<None>>
        /\ stale' = FALSE
        /\ Refetch([query EXCEPT !.after = None, !.filter = f])
  BY DEF OnFilterChange
<1>2. UNCHANGED <<tables, list, data>> /\ turns' \in 0 .. MaxTurns
  BY TurnTaken DEF OnFilterChange, ListsInv
<1>3. /\ query = [after |-> query.after, count |-> query.count, filter |-> query.filter]
      /\ query.count \in PageSizes
  BY DEF ListsInv, Numbers
<1>4. /\ query' = [after |-> None, count |-> query.count, filter |-> f]
      /\ answer' = NoAnswer /\ loading' = TRUE
  BY <1>1, <1>3 DEF Refetch
<1> QED
  BY <1>1, <1>2, <1>3, <1>4, StartAnew

LEMMA ListsStep ==
  ASSUME ListsAssumption, ListsInv, [Next]_vars
  PROVE  ListsInv'
<1>1. CASE UNCHANGED vars
  BY <1>1 DEF vars, clientVars, ListsInv, Numbers, PagesOK, AnswerOK, DataOK, WholePaging, Rows,
              Between, ItemsFollow
<1> QED
  BY <1>1, ApplyInv, AnswerListInv, AnswerTotalInv, DeliverInv, RerenderInv, PageChangeInv,
     PageSizeChangeInv, FilterChangeInv DEF Next

-----------------------------------------------------------------------------
(* What the invariant implies.                                                             *)

LEMMA InvTypeOK ==
  ASSUME ListsAssumption, ListsInv
  PROVE  TypeOK
<1>1. pages # <<>> /\ \A i \in DOMAIN pages : pages[i] = None <=> i = 1
  <2>1. DOMAIN pages = 1 .. Len(pages)
    BY DEF ListsInv, PagesOK, Increasing
  <2> QED
    BY <2>1 DEF ListsInv, PagesOK, Increasing
<1>2. answer # NoAnswer => loading
  BY DEF ListsInv, AnswerOK
<1>3. ~loading => data.query = query
  BY DEF ListsInv, DataOK
<1> QED
  BY <1>1, <1>2, <1>3 DEF TypeOK, ListsInv, Numbers

LEMMA InvWholePage ==
  ASSUME ListsAssumption, ListsInv
  PROVE  WholePageExact
<1> SUFFICES ASSUME WholePaging, ~loading, NEW i \in DOMAIN data.items
             PROVE  Key(data.items[i]) = Key(tables[list][page * query.count + i])
  BY DEF WholePageExact
<1> DEFINE a == Num(query.after)
<1>1. a = page * query.count
  BY DEF ListsInv, PagesOK
<1>2. a \in Nat
  BY QueryOK DEF ListsInv
<1>3. i \in Nat \ {0} /\ a + i <= Len(Rows) /\ KeyOf(list, data.items[i]) = a + i
  BY DEF ListsInv, DataOK, ItemsFollow
<1>4. /\ TableOK(list, Rows) /\ Len(Rows) \in Nat
      /\ \A row : Key(row) = KeyOf(list, row)
  BY ListTable DEF ListsInv
<1> HIDE DEF a
<1>5. a + i \in 1 .. Len(Rows)
  BY <1>2, <1>3, <1>4
<1>6. KeyOf(list, Rows[a + i]) = a + i
  BY <1>4, <1>5 DEF TableOK, RowOK
<1> QED
  BY <1>1, <1>3, <1>4, <1>6 DEF Rows

(* The rows between two keys are as many as their positions.                               *)
LEMMA RowsBetween ==
  ASSUME DbOK(tables), NEW l \in TableNames, NEW f, NEW lo \in Nat, NEW hi \in Nat,
         NEW R, \A r \in R : r \in Range(Kept(l, f)) /\ lo < KeyOf(l, r) /\ KeyOf(l, r) <= hi
  PROVE  /\ Cardinality(R) \in Nat
         /\ Cardinality(R) <= Cardinality(Positions(l, tables[l], f, lo, hi))
<1> DEFINE rows == tables[l]
           S == Range(rows)
           rest == Rest(l, rows, f, 0)
           P == Positions(l, rows, f, lo, hi)
           key == [r \in R |-> KeyOf(l, r)]
<1>1. TableOK(l, rows) /\ rows \in Seq(S) /\ Len(rows) \in Nat
  BY TableLength DEF DbOK, TableOK
<1>2. /\ Kept(l, f) = Selected(rows, rest)[Len(rows)]
      /\ Kept(l, f) \in Seq(S)
      /\ Len(Kept(l, f)) \in Nat
  BY KeptIs
<1>3. \A i \in 1 .. Len(rows) :
        /\ KeyOf(l, rows[i]) = i
        /\ rows[i] \in rest <=> i > 0 /\ Match(l, rows[i], f)
  <2>1. \A i \in 1 .. Len(rows) : rows[i] \in rest <=> i > 0 /\ Match(l, rows[i], f)
    BY <1>1, RestPositions
  <2> QED
    BY <1>1, <2>1 DEF TableOK, RowOK
<1> HIDE DEF rest, S
<1>4. ASSUME NEW r \in R
      PROVE  KeyOf(l, r) \in P /\ r = rows[KeyOf(l, r)]
  <2>1. r \in Range(Kept(l, f)) /\ lo < KeyOf(l, r) /\ KeyOf(l, r) <= hi
    OBVIOUS
  <2>2. PICK k \in 1 .. Len(Kept(l, f)) : r = Kept(l, f)[k]
    BY <1>2, <2>1 DEF Range
  <2>3. Len(rows) \in 0 .. Len(rows)
    BY <1>1
  <2> DEFINE Found(n, j) == \E a \in 1 .. n :
                              /\ rows[a] \in rest /\ Selected(rows, rest)[n][j] = rows[a]
                              /\ Selected(rows, rest)[a]
                                   = SubSeq(Selected(rows, rest)[n], 1, j)
  <2>4. \A n \in 0 .. Len(rows) : \A j \in 1 .. Len(Selected(rows, rest)[n]) : Found(n, j)
    <3> HIDE DEF rows
    <3> QED
      BY <1>1, SelectedPositions
  <2> HIDE DEF Found
  <2>5. Found(Len(rows), k)
    BY <1>2, <2>3, <2>4
  <2>6. PICK a \in 1 .. Len(rows) : rows[a] \in rest /\ Kept(l, f)[k] = rows[a]
    BY <1>2, <2>5 DEF Found
  <2>7. KeyOf(l, r) = a /\ Match(l, rows[a], f)
    BY <1>3, <2>2, <2>6
  <2> QED
    BY <2>1, <2>2, <2>6, <2>7 DEF Positions
<1>5. key \in Injection(R, P)
  <2> HIDE DEF P, rows
  <2>1. key \in [R -> P]
    BY <1>4
  <2>2. \A r, s \in R : key[r] = key[s] => r = s
    BY <1>4
  <2> HIDE DEF key
  <2> QED
    BY <2>1, <2>2 DEF Injection, IsInjective
<1>6. IsFiniteSet(P)
  BY PositionsFinite
<1> HIDE DEF P, key
<1>7. IsFiniteSet(R) /\ Cardinality(R) <= Cardinality(P)
  BY <1>5, <1>6, FS_Injection
<1> QED
  BY <1>7, FS_CardinalityType DEF P

LEMMA InvNoRowBetween ==
  ASSUME ListsAssumption, ListsInv
  PROVE  NoRowBetweenPages
<1> SUFFICES ASSUME ~WholePaging, ~stale, NEW k \in 1 .. Len(pages) - 1
             PROVE  Cardinality({r \in Range(Kept(list, query.filter)) :
                                   Num(pages[k]) < Key(r) /\ Key(r) <= pages[k + 1]})
                      <= query.count
  BY DEF NoRowBetweenPages
<1> DEFINE R == {r \in Range(Kept(list, query.filter)) :
                   Num(pages[k]) < Key(r) /\ Key(r) <= pages[k + 1]}
           lo == Num(pages[k])
           hi == pages[k + 1]
           B == Between(lo, hi)
<1>1. lo \in Nat /\ hi \in Nat /\ query.count \in Nat
  <2>1. Increasing(pages) /\ query.count \in Nat
    BY QueryOK DEF ListsInv, PagesOK
  <2>2. /\ Len(pages) \in Nat
        /\ \A i \in 1 .. Len(pages) :
             Num(pages[i]) \in Nat /\ (i # 1 => pages[i] \in Nat)
    BY <2>1, IncreasingNums
  <2>3. k \in 1 .. Len(pages) /\ k + 1 \in 1 .. Len(pages) /\ k + 1 # 1
    BY <2>2
  <2> QED
    BY <2>1, <2>2, <2>3
<1>2. Cardinality(B) <= query.count
  BY DEF ListsInv, PagesOK
<1>3. Cardinality(R) \in Nat /\ Cardinality(R) <= Cardinality(B)
  <2>1. list \in TableNames /\ DbOK(tables) /\ \A row : Key(row) = KeyOf(list, row)
    BY ListTable DEF ListsInv
  <2>2. \A r \in R : /\ r \in Range(Kept(list, query.filter))
                     /\ lo < KeyOf(list, r) /\ KeyOf(list, r) <= hi
    BY <2>1
  <2> HIDE DEF R, lo, hi
  <2>3. /\ Cardinality(R) \in Nat
        /\ Cardinality(R) <= Cardinality(Positions(list, tables[list], query.filter, lo, hi))
    BY <1>1, <2>1, <2>2, RowsBetween
  <2> QED
    BY <2>3 DEF Between, Rows
<1>4. Cardinality(B) \in Nat
  <2> HIDE DEF lo, hi
  <2> QED
    BY <1>1, PositionsFinite DEF Between
<1> HIDE DEF R, B
<1> QED
  BY <1>1, <1>2, <1>3, <1>4 DEF R

LEMMA InvPaging ==
  ASSUME ListsAssumption, ListsInv
  PROVE  PagingLosesNothing
<1>1. PagesFollow
  BY PagesFollowLemma DEF ListsInv, Numbers
<1> QED
  BY <1>1, InvWholePage, InvNoRowBetween DEF PagingLosesNothing

-----------------------------------------------------------------------------
(* The theorems.                                                                           *)

(* The invariant: the rows of every table are numbered without a gap, pages grows, "after" *)
(* belongs to the page on the screen, and what the server has read for a request stays     *)
(* right while blocks arrive.                                                              *)
THEOREM ListsInductive == Spec => []ListsInv
<1>1. Init => ListsInv
  BY ListsAssumption, InvInit
<1>2. ListsInv /\ [Next]_vars => ListsInv'
  BY ListsAssumption, ListsStep
<1> QED
  BY <1>1, <1>2, PTL DEF Spec

(* The state of the lists is of its type, whatever the reader chooses and the node commits. *)
THEOREM ListsTypes == Spec => []TypeOK
<1>1. ListsInv => TypeOK
  BY ListsAssumption, InvTypeOK
<1> QED
  BY <1>1, ListsInductive, PTL

(* Whoever reads a list page by page (BlockList, TransactionList, AccountList of the       *)
(* client) while applyBlock adds rows misses none and sees none twice.                     *)
THEOREM ListsLoseNothing == Spec => []PagingLosesNothing
<1>1. ListsInv => PagingLosesNothing
  BY ListsAssumption, InvPaging
<1> QED
  BY <1>1, ListsInductive, PTL

-----------------------------------------------------------------------------
(* Rows with a key.                                                                        *)

OfKey(rows, key, k) == Where(rows, LAMBDA r : r[key] = k)

LEMMA OfKeyRows ==
  ASSUME NEW S, NEW rows \in Seq(S), NEW key, NEW k
  PROVE  /\ OfKey(rows, key, k) \in Seq(S)
         /\ Len(OfKey(rows, key, k)) \in Nat
         /\ \A i \in 1 .. Len(OfKey(rows, key, k)) :
              \E a \in 1 .. Len(rows) : rows[a][key] = k /\ OfKey(rows, key, k)[i] = rows[a]
         /\ OfKey(rows, key, k) # <<>> <=> Known(rows, key, k)
<1> DEFINE which == {r \in Range(rows) : r[key] = k}
           found == Select(rows, which)
<1>1. OfKey(rows, key, k) = found
  BY DEF OfKey, Where
<1>2. \A a \in 1 .. Len(rows) : rows[a] \in which <=> rows[a][key] = k
  BY DEF Range
<1>3. DOMAIN rows = 1 .. Len(rows)
  OBVIOUS
<1> HIDE DEF which
<1>4. found \in Seq(S) /\ Len(found) \in Nat
  BY SelectType
<1>5. \A i \in 1 .. Len(found) : \E a \in 1 .. Len(rows) : rows[a] \in which /\ found[i] = rows[a]
  BY SelectRows
<1>6. found = <<>> <=> \A a \in 1 .. Len(rows) : rows[a] \notin which
  BY SelectNone
<1> HIDE DEF found
<1>7. Known(rows, key, k) <=> \E a \in 1 .. Len(rows) : rows[a] \in which
  BY <1>2, <1>3 DEF Known
<1> QED
  BY <1>1, <1>2, <1>4, <1>5, <1>6, <1>7

LEMMA OfKeyAppend ==
  ASSUME NEW S, NEW rows \in Seq(S), NEW row \in S, NEW key, NEW k
  PROVE  OfKey(Append(rows, row), key, k)
           = IF row[key] = k THEN Append(OfKey(rows, key, k), row) ELSE OfKey(rows, key, k)
<1> DEFINE more == Append(rows, row)
           which == {r \in S : r[key] = k}
           old == {r \in Range(rows) : r[key] = k}
           new == {r \in Range(more) : r[key] = k}
<1>1. OfKey(rows, key, k) = Select(rows, old) /\ OfKey(more, key, k) = Select(more, new)
  BY DEF OfKey, Where
<1>2. more \in Seq(S)
  OBVIOUS
<1>3. \A i \in 1 .. Len(rows) : rows[i] \in old <=> rows[i] \in which
  BY DEF Range
<1>4. \A i \in 1 .. Len(more) : more[i] \in new <=> more[i] \in which
  <2> HIDE DEF more
  <2> QED
    BY <1>2 DEF Range
<1>5. row \in which <=> row[key] = k
  OBVIOUS
<1> HIDE DEF which, old, new
<1>6. Select(rows, old) = Select(rows, which)
  BY <1>3, SelectSame
<1>7. Select(more, new) = Select(more, which)
  <2> HIDE DEF more
  <2> QED
    BY <1>2, <1>4, SelectSame
<1>8. Select(more, which)
        = IF row \in which THEN Append(Select(rows, which), row) ELSE Select(rows, which)
  BY SelectAppend
<1> QED
  BY <1>1, <1>5, <1>6, <1>7, <1>8

(* A loader finds what is known, and a row of that key.                                    *)
LEMMA ByKeyFinds ==
  ASSUME NEW S, NEW rows \in Seq(S), NEW key, NEW k, Known(rows, key, k)
  PROVE  \E a \in 1 .. Len(rows) : rows[a][key] = k /\ ByKey(rows, key, k) = rows[a]
<1> DEFINE found == OfKey(rows, key, k)
<1>1. ByKey(rows, key, k) = IF found = <<>> THEN None ELSE found[Len(found)]
  BY DEF ByKey, OfKey, Last
<1>2. /\ found \in Seq(S) /\ found # <<>>
      /\ \A i \in 1 .. Len(found) : \E a \in 1 .. Len(rows) : rows[a][key] = k /\ found[i] = rows[a]
  BY OfKeyRows
<1> HIDE DEF found
<1>3. Len(found) \in 1 .. Len(found)
  BY <1>2
<1> QED
  BY <1>1, <1>2, <1>3

(* Where keys are unique it is the row.                                                    *)
LEMMA ByKeyIs ==
  ASSUME NEW S, NEW rows \in Seq(S), NEW key, NEW a \in 1 .. Len(rows),
         \A i, j \in 1 .. Len(rows) : rows[i][key] = rows[j][key] => i = j
  PROVE  Known(rows, key, rows[a][key]) /\ ByKey(rows, key, rows[a][key]) = rows[a]
<1> DEFINE k == rows[a][key]
<1>1. Known(rows, key, k)
  BY DEF Known
<1>2. rows[a][key] = k
  OBVIOUS
<1> HIDE DEF k
<1>3. PICK b \in 1 .. Len(rows) : rows[b][key] = k /\ ByKey(rows, key, k) = rows[b]
  BY <1>1, ByKeyFinds
<1> QED
  BY <1>1, <1>2, <1>3

-----------------------------------------------------------------------------
(* What holds of the tables: ids and hashes are unique, roles exist, and whoever holds a   *)
(* permission of somebody's is in the record of that account too.                          *)

Names(d) == {d.role[i].name : i \in 1 .. Len(d.role)}

HoldsOf(d, g) ==
  \E j \in 1 .. Len(d.account) : d.account[j].id = g.by /\ g \in Range(d.account[j].granted)

Unique(rows, key) == \A i, j \in 1 .. Len(rows) : rows[i][key] = rows[j][key] => i = j

AccountData(d, a) ==
  /\ a.roles \in Seq(Names(d))
  /\ a.granted \in Seq(Range(a.granted))
  /\ \A g \in Range(a.granted) : g.to = a.id => HoldsOf(d, g)

Data(d) ==
  /\ DbOK(d)
  /\ Unique(d.account, "id")
  /\ Unique(d.transaction, "hash")
  /\ \A i \in 1 .. Len(d.domain) : d.domain[i].role \in Names(d)
  /\ \A i \in 1 .. Len(d.account) : AccountData(d, d.account[i])

LEMMA UniqueAppend ==
  ASSUME NEW S, NEW rows \in Seq(S), NEW row \in S, NEW key, Unique(rows, key),
         ~Known(rows, key, row[key])
  PROVE  Unique(Append(rows, row), key)
<1> DEFINE more == Append(rows, row)
<1>1. /\ Len(more) = Len(rows) + 1 /\ Len(rows) \in Nat
      /\ \A i \in 1 .. Len(rows) : more[i] = rows[i]
      /\ more[Len(rows) + 1] = row
  OBVIOUS
<1>2. \A i \in 1 .. Len(rows) : rows[i][key] # row[key]
  BY DEF Known
<1> HIDE DEF more
<1>3. ASSUME NEW i \in 1 .. Len(more), NEW j \in 1 .. Len(more), more[i][key] = more[j][key]
      PROVE  i = j
  <2>1. CASE i \in 1 .. Len(rows) /\ j \in 1 .. Len(rows)
    BY <1>1, <1>3, <2>1 DEF Unique
  <2>2. CASE i \in 1 .. Len(rows) /\ j = Len(rows) + 1
    BY <1>1, <1>2, <1>3, <2>2
  <2>3. CASE i = Len(rows) + 1 /\ j \in 1 .. Len(rows)
    BY <1>1, <1>2, <1>3, <2>3
  <2>4. CASE i = Len(rows) + 1 /\ j = Len(rows) + 1
    BY <2>4
  <2>5. \A n \in 1 .. Len(more) : n \in 1 .. Len(rows) \/ n = Len(rows) + 1
    BY <1>1
  <2> QED
    BY <2>1, <2>2, <2>3, <2>4, <2>5
<1> QED
  BY <1>3 DEF Unique, more

LEMMA TableSeq ==
  ASSUME NEW d, DbOK(d), NEW l \in TableNames
  PROVE  /\ d[l] \in Seq(Range(d[l])) /\ Len(d[l]) \in Nat /\ DOMAIN d[l] = 1 .. Len(d[l])
BY TableLength DEF DbOK, TableOK

(* Names stay.                                                                             *)
LEMMA NamesGrow ==
  ASSUME NEW d, NEW e, DbOK(d), DbOK(e), Grows(d, e)
  PROVE  Names(d) \subseteq Names(e)
<1>1. /\ Len(d["role"]) \in Nat /\ Len(e["role"]) \in Nat
      /\ Continues("role", d["role"], e["role"])
  BY TableSeq DEF Grows, TableNames
<1>2. ASSUME NEW i \in 1 .. Len(d.role) PROVE i \in 1 .. Len(e.role) /\ e.role[i] = d.role[i]
  BY <1>1, <1>2 DEF Continues, SameRow
<1> QED
  BY <1>2 DEF Names

(* Ids stay.                                                                               *)
LEMMA KnownStays ==
  ASSUME NEW d, NEW e, DbOK(d), DbOK(e), Grows(d, e), NEW id, Known(d.account, "id", id)
  PROVE  Known(e.account, "id", id)
<1>1. /\ Len(d["account"]) \in Nat /\ Len(e["account"]) \in Nat
      /\ DOMAIN d["account"] = 1 .. Len(d["account"])
      /\ DOMAIN e["account"] = 1 .. Len(e["account"])
      /\ Continues("account", d["account"], e["account"])
  BY TableSeq DEF Grows, TableNames
<1>2. PICK i \in 1 .. Len(d.account) : d.account[i]["id"] = id
  BY <1>1 DEF Known
<1>3. i \in 1 .. Len(e.account) /\ e.account[i].id = d.account[i].id
  BY <1>1 DEF Continues, SameRow
<1> QED
  BY <1>1, <1>2, <1>3 DEF Known

LEMMA AccountAt ==
  ASSUME NEW d, DbOK(d)
  PROVE  /\ Len(d.account) \in Nat /\ DOMAIN d.account = 1 .. Len(d.account)
         /\ d.account \in Seq(Range(d.account))
         /\ \A i \in 1 .. Len(d.account) : AccountRow(d.account[i])
<1>1. "account" \in TableNames /\ d.account = d["account"]
  BY DEF TableNames
<1>2. TableOK("account", d["account"])
  BY <1>1 DEF DbOK
<1> QED
  BY <1>1, <1>2, TableLength DEF TableOK, RowOK

(* Accounts change, but for what they are called.                                          *)
LEMMA DataChanged ==
  ASSUME NEW d, Data(d), NEW e, DbOK(e),
         e.transaction = d.transaction, e.domain = d.domain, e.role = d.role,
         Len(e.account) = Len(d.account),
         \A i \in 1 .. Len(d.account) : e.account[i].id = d.account[i].id,
         \A i \in 1 .. Len(d.account) : AccountData(e, e.account[i])
  PROVE  Data(e)
<1>1. Names(e) = Names(d)
  BY DEF Names
<1>2. Unique(e.account, "id")
  <2>1. \A i \in 1 .. Len(d.account) : e.account[i]["id"] = d.account[i]["id"]
    OBVIOUS
  <2> QED
    BY <2>1 DEF Data, Unique
<1> QED
  BY <1>1, <1>2 DEF Data

(* Accounts change, but for their grants.                                                  *)
LEMMA RolesChanged ==
  ASSUME NEW d, Data(d), NEW e, DbOK(e),
         e.transaction = d.transaction, e.domain = d.domain, e.role = d.role,
         Len(e.account) = Len(d.account),
         \A i \in 1 .. Len(d.account) :
           /\ e.account[i].id = d.account[i].id /\ e.account[i].granted = d.account[i].granted
           /\ e.account[i].roles \in Seq(Names(d))
  PROVE  Data(e)
<1>1. Names(e) = Names(d)
  BY DEF Names
<1>2. ASSUME NEW g, HoldsOf(d, g) PROVE HoldsOf(e, g)
  BY <1>2 DEF HoldsOf
<1>3. ASSUME NEW i \in 1 .. Len(d.account) PROVE AccountData(e, e.account[i])
  <2>1. AccountData(d, d.account[i])
    BY DEF Data
  <2> QED
    BY <1>1, <1>2, <2>1 DEF AccountData
<1> QED
  BY <1>3, DataChanged

LEMMA DefaultRoleKnown ==
  ASSUME NEW d, Data(d), NEW domain, Known(d.domain, "id", domain)
  PROVE  DefaultRole(d, domain) \in Names(d)
<1> DEFINE found == OfKey(d.domain, "id", domain)
<1>1. DefaultRole(d, domain) = found[1].role
  BY DEF DefaultRole, OfKey, Where
<1>2. d.domain \in Seq(Range(d.domain))
  <2>1. "domain" \in TableNames /\ d.domain = d["domain"]
    BY DEF TableNames
  <2> QED
    BY <2>1, TableSeq DEF Data
<1>3. /\ Len(found) \in Nat /\ found # <<>> /\ found \in Seq(Range(d.domain))
      /\ \A i \in 1 .. Len(found) :
           \E a \in 1 .. Len(d.domain) : d.domain[a]["id"] = domain /\ found[i] = d.domain[a]
  BY <1>2, OfKeyRows
<1> HIDE DEF found
<1>4. 1 \in 1 .. Len(found)
  BY <1>3
<1>5. PICK a \in 1 .. Len(d.domain) : found[1] = d.domain[a]
  BY <1>3, <1>4
<1> QED
  BY <1>1, <1>5 DEF Data

LEMMA AccountCreated ==
  ASSUME NEW d, Data(d), NEW c, NEW e, e = CreateAccount(d, c), DbOK(e),
         ~Known(d.account, "id", c.id), Known(d.domain, "id", c.domain)
  PROVE  Data(e)
<1> DEFINE row == [index |-> NextIndex(d.account), id |-> c.id, quorum |-> 1,
                   roles |-> <<DefaultRole(d, c.domain)>>, granted |-> <<>>]
           rows == d.account
           more == Append(rows, row)
           S == Range(rows) \cup {row}
<1>1. d = [block |-> d.block, transaction |-> d.transaction, account |-> d.account,
           peer |-> d.peer, role |-> d.role, domain |-> d.domain]
  BY DEF Data, DbOK
<1>2. e = [d EXCEPT !.account = more]
  BY DEF CreateAccount
<1> HIDE DEF more
<1>3. /\ e.account = more /\ e.role = d.role /\ e.domain = d.domain
      /\ e.transaction = d.transaction
  BY <1>1, <1>2
<1>4. row.id = c.id /\ row.granted = <<>> /\ row.roles \in Seq(Names(d)) /\ row["id"] = c.id
  <2>1. DefaultRole(d, c.domain) \in Names(d)
    BY DefaultRoleKnown
  <2> QED
    BY <2>1
<1>5. rows \in Seq(S) /\ row \in S
  <2>1. rows \in Seq(Range(rows)) /\ Range(rows) \subseteq S
    BY AccountAt DEF Data
  <2> DEFINE R == Range(rows)
  <2> HIDE DEF R, S, rows
  <2>2. R \subseteq S /\ rows \in Seq(R)
    BY <2>1 DEF R
  <2>3. rows \in Seq(S)
    BY <2>2, SeqMonotonic
  <2> QED
    BY <2>3 DEF S
<1>6. Unique(rows, "id")
  BY DEF Data
<1>7. ~Known(rows, "id", row["id"])
  BY <1>4
<1> HIDE DEF row, S
<1>8. Unique(more, "id")
  <2> HIDE DEF rows
  <2> QED
    BY <1>5, <1>6, <1>7, UniqueAppend DEF more
<1>9. /\ Len(more) = Len(rows) + 1 /\ Len(rows) \in Nat
      /\ \A i \in 1 .. Len(rows) : more[i] = rows[i]
      /\ more[Len(rows) + 1] = row
  <2> HIDE DEF rows
  <2> QED
    BY <1>5 DEF more
<1>10. Names(e) = Names(d)
  BY <1>3 DEF Names
<1>11. ASSUME NEW g, HoldsOf(d, g) PROVE HoldsOf(e, g)
  <2>1. PICK j \in 1 .. Len(rows) : rows[j].id = g.by /\ g \in Range(rows[j].granted)
    BY <1>11 DEF HoldsOf
  <2>2. j \in 1 .. Len(more) /\ more[j] = rows[j]
    BY <1>9
  <2> QED
    BY <1>3, <2>1, <2>2 DEF HoldsOf
<1>12. ASSUME NEW i \in 1 .. Len(more) PROVE AccountData(e, more[i])
  <2>1. CASE i \in 1 .. Len(rows)
    <3>1. AccountData(d, rows[i])
      BY <2>1 DEF Data
    <3>2. more[i] = rows[i]
      BY <1>9, <2>1
    <3> QED
      BY <1>10, <1>11, <3>1, <3>2 DEF AccountData
  <2>2. CASE i = Len(rows) + 1
    <3>1. more[i] = row
      BY <1>9, <2>2
    <3>2. <<>> \in Seq(Range(<<>>)) /\ Range(<<>>) = {}
      BY DEF Range
    <3> QED
      BY <1>4, <1>10, <3>1, <3>2 DEF AccountData
  <2>3. i \in 1 .. Len(rows) \/ i = Len(rows) + 1
    BY <1>9
  <2> QED
    BY <2>1, <2>2, <2>3
<1> QED
  BY <1>3, <1>8, <1>10, <1>12 DEF Data

LEMMA RoleCreated ==
  ASSUME NEW d, Data(d), NEW c, NEW e, e = CreateRole(d, c), DbOK(e), Grows(d, e)
  PROVE  Data(e)
<1>1. d = [block |-> d.block, transaction |-> d.transaction, account |-> d.account,
           peer |-> d.peer, role |-> d.role, domain |-> d.domain]
  BY DEF Data, DbOK
<1>2. e.account = d.account /\ e.domain = d.domain /\ e.transaction = d.transaction
  BY <1>1 DEF CreateRole
<1>3. Names(d) \subseteq Names(e)
  BY NamesGrow DEF Data
<1>4. \A g : HoldsOf(d, g) <=> HoldsOf(e, g)
  BY <1>2 DEF HoldsOf
<1>5. ASSUME NEW a, AccountData(d, a) PROVE AccountData(e, a)
  <2> DEFINE r == a.roles
             m == Names(d)
             n == Names(e)
  <2>1. r \in Seq(m) /\ m \subseteq n
    BY <1>3, <1>5 DEF AccountData
  <2> HIDE DEF r, m, n
  <2>2. r \in Seq(n)
    BY <2>1, SeqMonotonic
  <2> QED
    BY <1>4, <1>5, <2>2 DEF AccountData, r, n
<1> QED
  BY <1>2, <1>3, <1>5 DEF Data

LEMMA DomainCreated ==
  ASSUME NEW d, Data(d), NEW c, NEW e, e = CreateDomain(d, c), DbOK(e),
         Known(d.role, "name", c.role)
  PROVE  Data(e)
<1> DEFINE row == [index |-> NextIndex(d.domain), id |-> c.id, role |-> c.role]
           rows == d.domain
           more == Append(rows, row)
<1>1. d = [block |-> d.block, transaction |-> d.transaction, account |-> d.account,
           peer |-> d.peer, role |-> d.role, domain |-> d.domain]
  BY DEF Data, DbOK
<1>2. e.account = d.account /\ e.role = d.role /\ e.transaction = d.transaction
      /\ e.domain = more
  BY <1>1 DEF CreateDomain
<1>3. Names(e) = Names(d) /\ \A g : HoldsOf(d, g) <=> HoldsOf(e, g)
  BY <1>2 DEF Names, HoldsOf
<1>4. \A a : AccountData(d, a) => AccountData(e, a)
  BY <1>3 DEF AccountData
<1>5. c.role \in Names(d)
  <2>1. "role" \in TableNames /\ d.role = d["role"]
    BY DEF TableNames
  <2>2. DOMAIN d.role = 1 .. Len(d.role)
    BY <2>1, TableSeq DEF Data
  <2>3. PICK i \in 1 .. Len(d.role) : d.role[i]["name"] = c.role
    BY <2>2 DEF Known
  <2> QED
    BY <2>3 DEF Names
<1>6. row.role = c.role
  OBVIOUS
<1>7. rows \in Seq(Range(rows)) /\ \A i \in 1 .. Len(rows) : rows[i].role \in Names(d)
  <2>1. "domain" \in TableNames /\ d.domain = d["domain"]
    BY DEF TableNames
  <2> QED
    BY <2>1, TableSeq DEF Data
<1> HIDE DEF row, rows
<1>8. /\ Len(more) = Len(rows) + 1 /\ Len(rows) \in Nat
      /\ \A i \in 1 .. Len(rows) : more[i] = rows[i]
      /\ more[Len(rows) + 1] = row
  <2> DEFINE S == Range(rows) \cup {row}
             R == Range(rows)
  <2>1. rows \in Seq(R) /\ R \subseteq S /\ row \in S
    BY <1>7
  <2> HIDE DEF S, R
  <2>2. rows \in Seq(S)
    BY <2>1, SeqMonotonic
  <2> QED
    BY <2>1, <2>2
<1> HIDE DEF more
<1>9. \A i \in 1 .. Len(more) : more[i].role \in Names(d)
  <2>1. \A i \in 1 .. Len(more) : i \in 1 .. Len(rows) \/ i = Len(rows) + 1
    BY <1>8
  <2> QED
    BY <1>5, <1>6, <1>7, <1>8, <2>1
<1> QED
  BY <1>2, <1>3, <1>4, <1>9 DEF Data

LEMMA ChangedIs ==
  ASSUME NEW S, NEW s \in Seq(S), NEW x
  PROVE  /\ Range(Changed(s, x, TRUE)) = Range(s) \cup {x}
         /\ Range(Changed(s, x, FALSE)) = Range(s) \ {x}
         /\ x \in S => Changed(s, x, TRUE) \in Seq(S)
         /\ Changed(s, x, FALSE) \in Seq(S)
         /\ Changed(s, x, TRUE) \in Seq(Range(Changed(s, x, TRUE)))
         /\ Changed(s, x, FALSE) \in Seq(Range(Changed(s, x, FALSE)))
<1> DEFINE T == S \cup {x}
           which == {y \in Range(s) : y # x}
           more == Append(s, x)
           less == Select(s, which)
<1>1. s \in Seq(T) /\ x \in T
  <2>1. S \subseteq T
    OBVIOUS
  <2> QED
    BY <2>1, SeqMonotonic
<1>2. Changed(s, x, TRUE) = more /\ Changed(s, x, FALSE) = less
  BY DEF Changed, Where
<1>3. more \in Seq(T) /\ (x \in S => more \in Seq(S))
  BY <1>1
<1>4. Range(more) = Range(s) \cup {x}
  <2> HIDE DEF T
  <2>1. /\ Len(more) = Len(s) + 1 /\ Len(s) \in Nat
        /\ \A i \in 1 .. Len(s) : more[i] = s[i]
        /\ more[Len(s) + 1] = x
        /\ DOMAIN more = 1 .. Len(more) /\ DOMAIN s = 1 .. Len(s)
    BY <1>1
  <2> HIDE DEF more
  <2>2. \A y \in Range(more) : y \in Range(s) \cup {x}
    <3> SUFFICES ASSUME NEW i \in 1 .. Len(more) PROVE more[i] \in Range(s) \cup {x}
      BY <2>1 DEF Range
    <3>1. i \in 1 .. Len(s) \/ i = Len(s) + 1
      BY <2>1
    <3> QED
      BY <2>1, <3>1 DEF Range
  <2>3. \A y \in Range(s) : y \in Range(more)
    <3> SUFFICES ASSUME NEW i \in 1 .. Len(s) PROVE s[i] \in Range(more)
      BY <2>1 DEF Range
    <3>1. i \in 1 .. Len(more)
      BY <2>1
    <3> QED
      BY <2>1, <3>1 DEF Range
  <2>4. x \in Range(more)
    <3>1. Len(s) + 1 \in 1 .. Len(more)
      BY <2>1
    <3> QED
      BY <2>1, <3>1 DEF Range
  <2> QED
    BY <2>2, <2>3, <2>4
<1>5. less \in Seq(S) /\ Range(less) = {y \in Range(s) : y \in which}
  BY SelectType, SelectRange
<1>6. Range(less) = Range(s) \ {x}
  BY <1>5
<1> HIDE DEF T, which, more, less
<1>7. more \in Seq(Range(more)) /\ less \in Seq(Range(less))
  BY <1>3, <1>5, SeqOfRange
<1> QED
  BY <1>2, <1>3, <1>4, <1>5, <1>6, <1>7

(* UpdateAccounts changes the account table alone.                                         *)
LEMMA AccountsReplaced ==
  ASSUME NEW d, DbOK(d), NEW rows, rows = [i \in DOMAIN d.account |-> rows[i]],
         NEW e, e = [d EXCEPT !.account = rows]
  PROVE  /\ e.account = rows /\ Len(rows) = Len(d.account)
         /\ e.transaction = d.transaction /\ e.domain = d.domain /\ e.role = d.role
         /\ e.block = d.block
<1>1. d = [block |-> d.block, transaction |-> d.transaction, account |-> d.account,
           peer |-> d.peer, role |-> d.role, domain |-> d.domain]
  BY DEF DbOK
<1>2. DOMAIN d.account = 1 .. Len(d.account) /\ Len(d.account) \in Nat
  BY AccountAt
<1>3. Len(rows) = Len(d.account)
  <2> DEFINE n == Len(d.account)
  <2>1. DOMAIN rows = 1 .. n /\ n \in Nat
    BY <1>2
  <2>2. rows \in [1 .. n -> Range(rows)]
    BY <1>2, <2>1 DEF Range
  <2> HIDE DEF n
  <2>3. Len(rows) = n
    BY <2>1, <2>2
  <2> QED
    BY <2>3 DEF n
<1> QED
  BY <1>1, <1>3

LEMMA QuorumSet ==
  ASSUME NEW d, Data(d), NEW c, NEW e, e = SetAccountQuorum(d, c), DbOK(e)
  PROVE  Data(e)
<1> DEFINE rows == UpdateAccounts(d.account, LAMBDA a : a.id = c.id,
                                  LAMBDA a : [a EXCEPT !.quorum = c.quorum])
<1>1. rows = [i \in DOMAIN d.account |-> rows[i]] /\ e = [d EXCEPT !.account = rows]
  BY DEF UpdateAccounts, SetAccountQuorum
<1>2. ASSUME NEW i \in 1 .. Len(d.account)
      PROVE  /\ rows[i].id = d.account[i].id /\ rows[i].granted = d.account[i].granted
             /\ rows[i].roles \in Seq(Names(d))
  <2> DEFINE a == d.account[i]
             x == c.quorum
  <2>1. i \in DOMAIN d.account /\ AccountRow(a)
    BY AccountAt DEF Data
  <2>2. rows[i] = a \/ rows[i] = [a EXCEPT !.quorum = x]
    BY <2>1 DEF UpdateAccounts
  <2>3. a.roles \in Seq(Names(d))
    BY DEF Data, AccountData
  <2> HIDE DEF a, x, rows
  <2>4. rows[i].id = a.id /\ rows[i].granted = a.granted /\ rows[i].roles = a.roles
    BY <2>1, <2>2 DEF AccountRow
  <2> QED
    BY <2>3, <2>4 DEF a
<1> HIDE DEF rows
<1>3. /\ e.account = rows /\ Len(rows) = Len(d.account)
      /\ e.transaction = d.transaction /\ e.domain = d.domain /\ e.role = d.role
  BY <1>1, AccountsReplaced DEF Data
<1> QED
  BY <1>2, <1>3, RolesChanged

LEMMA RoleChanged ==
  ASSUME NEW d, Data(d), NEW c, NEW e, e = AppendOrDetachRole(d, c), DbOK(e),
         c.kind \in {"appendRole", "detachRole"},
         c.kind = "appendRole" => Known(d.role, "name", c.role)
  PROVE  Data(e)
<1> DEFINE rows == UpdateAccounts(d.account, LAMBDA a : a.id = c.id,
                     LAMBDA a : [a EXCEPT !.roles =
                                   Changed(a.roles, c.role, c.kind = "appendRole")])
<1>1. rows = [i \in DOMAIN d.account |-> rows[i]] /\ e = [d EXCEPT !.account = rows]
  BY DEF UpdateAccounts, AppendOrDetachRole
<1>2. ASSUME NEW i \in 1 .. Len(d.account)
      PROVE  /\ rows[i].id = d.account[i].id /\ rows[i].granted = d.account[i].granted
             /\ rows[i].roles \in Seq(Names(d))
  <2> DEFINE a == d.account[i]
             r == a.roles
             m == Names(d)
             x == Changed(r, c.role, c.kind = "appendRole")
  <2>1. i \in DOMAIN d.account /\ AccountRow(a)
    BY AccountAt DEF Data
  <2>2. rows[i] = a \/ rows[i] = [a EXCEPT !.roles = x]
    BY <2>1 DEF UpdateAccounts
  <2>3. r \in Seq(m)
    BY DEF Data, AccountData
  <2>4. c.kind = "appendRole" => c.role \in m
    <3>1. "role" \in TableNames /\ d.role = d["role"]
      BY DEF TableNames
    <3>2. DOMAIN d.role = 1 .. Len(d.role)
      BY <3>1, TableSeq DEF Data
    <3> SUFFICES ASSUME c.kind = "appendRole" PROVE c.role \in m
      OBVIOUS
    <3>3. PICK j \in 1 .. Len(d.role) : d.role[j]["name"] = c.role
      BY <3>2 DEF Known
    <3> QED
      BY <3>3 DEF Names
  <2>5. x \in Seq(m)
    <3> HIDE DEF r, m
    <3>1. CASE c.kind = "appendRole"
      <4>1. Changed(r, c.role, TRUE) \in Seq(m)
        BY <2>3, <2>4, <3>1, ChangedIs
      <4>2. (c.kind = "appendRole") = TRUE
        BY <3>1
      <4> QED
        BY <4>1, <4>2
    <3>2. CASE c.kind # "appendRole"
      <4>1. Changed(r, c.role, FALSE) \in Seq(m)
        BY <2>3, ChangedIs
      <4>2. (c.kind = "appendRole") = FALSE
        BY <3>2
      <4> QED
        BY <4>1, <4>2
    <3> QED
      BY <3>1, <3>2
  <2> HIDE DEF a, x, rows, m
  <2>6. /\ rows[i].id = a.id /\ rows[i].granted = a.granted
        /\ rows[i].roles = a.roles \/ rows[i].roles = x
    BY <2>1, <2>2 DEF AccountRow
  <2> QED
    BY <2>3, <2>5, <2>6 DEF a, m
<1> HIDE DEF rows
<1>3. /\ e.account = rows /\ Len(rows) = Len(d.account)
      /\ e.transaction = d.transaction /\ e.domain = d.domain /\ e.role = d.role
  BY <1>1, AccountsReplaced DEF Data
<1> QED
  BY <1>2, <1>3, RolesChanged

(* A grant reaches both accounts that record it, and so does its revocation.               *)
LEMMA GrantChanged ==
  ASSUME NEW d, Data(d), NEW c, NEW creator, NEW e, e = GrantOrRevoke(d, creator, c), DbOK(e),
         c.kind \in {"grant", "revoke"}, c.kind = "grant" => Known(d.account, "id", creator)
  PROVE  Data(e)
<1> DEFINE g == [by |-> creator, to |-> c.to, permission |-> c.permission]
           rows == UpdateAccounts(d.account, LAMBDA a : a.id \in {g.by, g.to},
                     LAMBDA a : [a EXCEPT !.granted = Changed(a.granted, g, c.kind = "grant")])
<1>1. rows = [i \in DOMAIN d.account |-> rows[i]] /\ e = [d EXCEPT !.account = rows]
  BY DEF UpdateAccounts, GrantOrRevoke
<1>2. g.by = creator /\ g.to = c.to
  OBVIOUS
<1>3. ASSUME NEW i \in 1 .. Len(d.account)
      PROVE  /\ rows[i].id = d.account[i].id /\ rows[i].roles = d.account[i].roles
             /\ rows[i].granted \in Seq(Range(rows[i].granted))
             /\ Range(rows[i].granted)
                  = IF d.account[i].id \notin {g.by, g.to} THEN Range(d.account[i].granted)
                    ELSE IF c.kind = "grant" THEN Range(d.account[i].granted) \cup {g}
                    ELSE Range(d.account[i].granted) \ {g}
  <2> DEFINE a == d.account[i]
             s == a.granted
             x == Changed(s, g, c.kind = "grant")
  <2>1. i \in DOMAIN d.account /\ AccountRow(a)
    BY AccountAt DEF Data
  <2>2. rows[i] = IF a.id \in {g.by, g.to} THEN [a EXCEPT !.granted = x] ELSE a
    BY <2>1 DEF UpdateAccounts
  <2>3. s \in Seq(Range(s))
    BY DEF Data, AccountData
  <2>4. /\ x \in Seq(Range(x))
        /\ Range(x) = IF c.kind = "grant" THEN Range(s) \cup {g} ELSE Range(s) \ {g}
    <3> DEFINE R == Range(s)
    <3> HIDE DEF s, g
    <3>0. s \in Seq(R)
      BY <2>3
    <3> HIDE DEF R
    <3>1. CASE c.kind = "grant"
      <4>1. (c.kind = "grant") = TRUE
        BY <3>1
      <4>2. /\ Changed(s, g, TRUE) \in Seq(Range(Changed(s, g, TRUE)))
            /\ Range(Changed(s, g, TRUE)) = Range(s) \cup {g}
        BY <3>0, ChangedIs
      <4> QED
        BY <3>1, <4>1, <4>2
    <3>2. CASE c.kind # "grant"
      <4>1. (c.kind = "grant") = FALSE
        BY <3>2
      <4>2. /\ Changed(s, g, FALSE) \in Seq(Range(Changed(s, g, FALSE)))
            /\ Range(Changed(s, g, FALSE)) = Range(s) \ {g}
        BY <3>0, ChangedIs
      <4> QED
        BY <3>2, <4>1, <4>2
    <3> QED
      BY <3>1, <3>2
  <2> HIDE DEF a, x, rows, g
  <2>5. /\ rows[i].id = a.id /\ rows[i].roles = a.roles
        /\ rows[i].granted = IF a.id \in {g.by, g.to} THEN x ELSE a.granted
    BY <2>1, <2>2 DEF AccountRow
  <2> QED
    BY <2>3, <2>4, <2>5 DEF a
<1> HIDE DEF rows, g
<1>4. /\ e.account = rows /\ Len(rows) = Len(d.account)
      /\ e.transaction = d.transaction /\ e.domain = d.domain /\ e.role = d.role
  BY <1>1, AccountsReplaced DEF Data
<1>5. ASSUME NEW i \in 1 .. Len(d.account), NEW h \in Range(rows[i].granted), h.to = rows[i].id
      PROVE  HoldsOf(e, h)
  <2>1. CASE h # g
    <3>1. h \in Range(d.account[i].granted) /\ h.to = d.account[i].id
      BY <1>3, <1>5, <2>1
    <3>2. PICK j \in 1 .. Len(d.account) : d.account[j].id = h.by /\ h \in Range(d.account[j].granted)
      BY <3>1 DEF Data, AccountData, HoldsOf
    <3>3. rows[j].id = h.by /\ h \in Range(rows[j].granted)
      BY <1>3, <2>1, <3>2
    <3> QED
      BY <1>4, <3>3 DEF HoldsOf
  <2>2. CASE h = g
    <3>1. d.account[i].id \in {g.by, g.to}
      BY <1>3, <1>5, <2>2
    <3>2. c.kind = "grant"
      BY <1>3, <1>5, <2>2, <3>1
    <3>3. PICK j \in 1 .. Len(d.account) : d.account[j]["id"] = creator
      BY <3>2, AccountAt DEF Known, Data
    <3>4. d.account[j].id = g.by
      BY <1>2, <3>3
    <3>5. rows[j].id = g.by /\ g \in Range(rows[j].granted)
      BY <1>3, <3>2, <3>4
    <3> QED
      BY <1>4, <2>2, <3>5 DEF HoldsOf
  <2> QED
    BY <2>1, <2>2
<1>6. Names(e) = Names(d)
  BY <1>4 DEF Names
<1>7. ASSUME NEW i \in 1 .. Len(d.account) PROVE AccountData(e, e.account[i])
  <2>1. d.account[i].roles \in Seq(Names(d))
    BY DEF Data, AccountData
  <2>2. rows[i].roles \in Seq(Names(e))
    BY <1>3, <1>6, <2>1
  <2>3. e.account[i] = rows[i]
    BY <1>4
  <2> QED
    BY <1>3, <1>5, <2>2, <2>3 DEF AccountData
<1>8. \A i \in 1 .. Len(d.account) : e.account[i].id = d.account[i].id
  BY <1>3, <1>4
<1> QED
  BY <1>4, <1>7, <1>8, DataChanged

(* A command that the node accepts keeps all of it, and touches neither blocks nor         *)
(* transactions.                                                                           *)
LEMMA CommandData ==
  ASSUME NEW d, Data(d), NEW creator, NEW c, Accepted(d, creator, c),
         NEW e, e = ApplyCommand(d, creator, c)
  PROVE  Data(e) /\ e.transaction = d.transaction /\ e.block = d.block
<1>1. DbOK(e) /\ Grows(d, e)
  BY CommandKeeps DEF Data
<1>2. d = [block |-> d.block, transaction |-> d.transaction, account |-> d.account,
           peer |-> d.peer, role |-> d.role, domain |-> d.domain]
  BY DEF Data, DbOK
<1>3. CASE c.kind = "createAccount"
  <2>1. e = CreateAccount(d, c)
    BY <1>3 DEF ApplyCommand
  <2>2. e.transaction = d.transaction /\ e.block = d.block
    BY <1>2, <2>1 DEF CreateAccount
  <2>3. ~Known(d.account, "id", c.id) /\ Known(d.domain, "id", c.domain)
    BY <1>3 DEF Accepted
  <2> QED
    BY <1>1, <2>1, <2>2, <2>3, AccountCreated
<1>4. CASE c.kind = "setQuorum"
  <2>1. e = SetAccountQuorum(d, c)
    BY <1>4 DEF ApplyCommand
  <2>2. e.transaction = d.transaction /\ e.block = d.block
    BY <1>2, <2>1 DEF SetAccountQuorum
  <2> QED
    BY <1>1, <2>1, <2>2, QuorumSet
<1>5. CASE c.kind = "addPeer"
  <2>1. e = AddPeer(d, c)
    BY <1>5 DEF ApplyCommand
  <2>2. /\ e.transaction = d.transaction /\ e.block = d.block
        /\ e.account = d.account /\ e.role = d.role /\ e.domain = d.domain
    BY <1>2, <2>1 DEF AddPeer
  <2>3. Data(e)
    <3>1. Names(e) = Names(d) /\ \A g : HoldsOf(d, g) <=> HoldsOf(e, g)
      BY <2>2 DEF Names, HoldsOf
    <3>2. \A a : AccountData(d, a) => AccountData(e, a)
      BY <3>1 DEF AccountData
    <3> QED
      BY <1>1, <2>2, <3>1, <3>2 DEF Data
  <2> QED
    BY <2>2, <2>3
<1>6. CASE c.kind = "createRole"
  <2>1. e = CreateRole(d, c)
    BY <1>6 DEF ApplyCommand
  <2>2. e.transaction = d.transaction /\ e.block = d.block
    BY <1>2, <2>1 DEF CreateRole
  <2> QED
    BY <1>1, <2>1, <2>2, RoleCreated
<1>7. CASE c.kind = "createDomain"
  <2>1. e = CreateDomain(d, c)
    BY <1>7 DEF ApplyCommand
  <2>2. e.transaction = d.transaction /\ e.block = d.block
    BY <1>2, <2>1 DEF CreateDomain
  <2>3. Known(d.role, "name", c.role)
    BY <1>7 DEF Accepted
  <2> QED
    BY <1>1, <2>1, <2>2, <2>3, DomainCreated
<1>8. CASE c.kind \in {"appendRole", "detachRole"}
  <2>1. e = AppendOrDetachRole(d, c)
    BY <1>8 DEF ApplyCommand
  <2>2. e.transaction = d.transaction /\ e.block = d.block
    BY <1>2, <2>1 DEF AppendOrDetachRole
  <2>3. c.kind = "appendRole" => Known(d.role, "name", c.role)
    BY DEF Accepted
  <2> QED
    BY <1>1, <1>8, <2>1, <2>2, <2>3, RoleChanged
<1>9. CASE c.kind \in {"grant", "revoke"}
  <2>1. e = GrantOrRevoke(d, creator, c)
    BY <1>9 DEF ApplyCommand
  <2>2. e.transaction = d.transaction /\ e.block = d.block
    BY <1>2, <2>1 DEF GrantOrRevoke
  <2>3. c.kind = "grant" => Known(d.account, "id", creator)
    BY DEF Accepted
  <2> QED
    BY <1>1, <1>9, <2>1, <2>2, <2>3, GrantChanged
<1>10. CASE c.kind \notin {"createAccount", "setQuorum", "addPeer", "createRole", "createDomain",
                           "appendRole", "detachRole", "grant", "revoke"}
  <2>1. e = d
    BY <1>10 DEF ApplyCommand
  <2> QED
    BY <2>1
<1> QED
  BY <1>3, <1>4, <1>5, <1>6, <1>7, <1>8, <1>9, <1>10

-----------------------------------------------------------------------------
(* The tables hold what the ledger says.                                                   *)

TablesAfterStep(g, h) == IF h = 0 THEN EmptyTables ELSE ApplyBlock(g[h - 1], Ledger[h], h)

(* The equation of TablesAfter, as for Selected.                                           *)
LEMMA TablesAfterEquation ==
  ASSUME Len(Ledger) \in Nat
  PROVE  TablesAfter = [h \in 0 .. Len(Ledger) |-> TablesAfterStep(TablesAfter, h)]
<1> DEFINE Solves(g, n) == g = [i \in 0 .. n |-> TablesAfterStep(g, i)]
           T == {n \in Nat : \E g : Solves(g, n)}
<1>1. 0 \in T
  <2> DEFINE g == [i \in 0 .. 0 |-> TablesAfterStep(<<>>, 0)]
  <2>1. \A i \in 0 .. 0 : TablesAfterStep(g, i) = TablesAfterStep(<<>>, 0)
    BY DEF TablesAfterStep
  <2>2. Solves(g, 0)
    BY <2>1
  <2> QED
    BY <2>2
<1>2. ASSUME NEW n \in T PROVE n + 1 \in T
  <2>1. PICK g : Solves(g, n)
    OBVIOUS
  <2> DEFINE f == [i \in 0 .. n + 1 |-> IF i = n + 1 THEN TablesAfterStep(g, n + 1) ELSE g[i]]
  <2>2. ASSUME NEW i \in 0 .. n + 1 PROVE f[i] = TablesAfterStep(f, i)
    <3>1. i # 0 => f[i - 1] = g[i - 1]
      OBVIOUS
    <3>2. TablesAfterStep(f, i) = TablesAfterStep(g, i)
      <4> HIDE DEF f
      <4> QED
        BY <3>1 DEF TablesAfterStep
    <3>3. i # n + 1 => g[i] = TablesAfterStep(g, i)
      <4> HIDE DEF f
      <4> QED
        BY <2>1
    <3> QED
      BY <3>2, <3>3
  <2>3. f = [i \in 0 .. n + 1 |-> f[i]]
    OBVIOUS
  <2>4. Solves(f, n + 1)
    <3> HIDE DEF f
    <3> QED
      BY <2>2, <2>3
  <2> HIDE DEF f, Solves
  <2> QED
    BY <2>4
<1>3. T = Nat
  <2> HIDE DEF T
  <2>1. T \in SUBSET Nat
    BY DEF T
  <2> QED
    BY <1>1, <1>2, <2>1, NatInduct
<1>4. PICK g : g = [h \in 0 .. Len(Ledger) |-> TablesAfterStep(g, h)]
  BY <1>3
<1> QED
  BY <1>4 DEF TablesAfter, TablesAfterStep

Summary(i) ==
  [height |-> i, time |-> Ledger[i].time, txcount |-> Len(Ledger[i].transactions)]

(* The transactions of block i in the table are the first n of the ledger.                 *)
Follows(d, i, n) ==
  LET txs == OfKey(d.transaction, "height", i)
  IN  Len(txs) = n /\ \A k \in 1 .. n : txs[k].hash = Ledger[i].transactions[k].hash

CreatorKnown(d, who) == who # None => Known(d.account, "id", who)

CreatorOf(h, who) == \E k \in 1 .. Len(Ledger[h].transactions) : who = Ledger[h].transactions[k].creator

(* With n transactions of block h, and with the first h blocks.                            *)
Partly(d, h, n) ==
  /\ Len(d.block) = h
  /\ \A i \in 1 .. h : d.block[i] = Summary(i)
  /\ \A i \in 1 .. Len(d.transaction) :
       /\ d.transaction[i].height \in 1 .. h
       /\ CreatorKnown(d, d.transaction[i].who) \/ CreatorOf(h, d.transaction[i].who)
  /\ \A i \in 1 .. h : Follows(d, i, IF i = h THEN n ELSE Len(Ledger[i].transactions))

Whole(d, h) ==
  /\ Len(d.block) = h
  /\ \A i \in 1 .. h : d.block[i] = Summary(i)
  /\ \A i \in 1 .. Len(d.transaction) :
       /\ d.transaction[i].height \in 1 .. h
       /\ CreatorKnown(d, d.transaction[i].who)
  /\ \A i \in 1 .. h : Follows(d, i, Len(Ledger[i].transactions))

LEMMA TransactionTable ==
  ASSUME NEW d, DbOK(d)
  PROVE  /\ d.transaction \in Seq(Range(d.transaction)) /\ Len(d.transaction) \in Nat
         /\ d.block \in Seq(Range(d.block)) /\ Len(d.block) \in Nat
         /\ DOMAIN d.transaction = 1 .. Len(d.transaction) /\ DOMAIN d.block = 1 .. Len(d.block)
         /\ \A i \in 1 .. Len(d.transaction) : d.transaction[i].index = i
<1>1. /\ "transaction" \in TableNames /\ d.transaction = d["transaction"]
      /\ "block" \in TableNames /\ d.block = d["block"]
  BY DEF TableNames
<1>2. TableOK("transaction", d["transaction"]) /\ TableOK("block", d["block"])
  BY <1>1 DEF DbOK
<1> QED
  BY <1>1, <1>2, TableLength DEF TableOK, RowOK, KeyOf

LEMMA PartlyStays ==
  ASSUME NEW d, NEW e, NEW h, NEW n, DbOK(d), DbOK(e), Grows(d, e), Partly(d, h, n),
         e.transaction = d.transaction, e.block = d.block
  PROVE  Partly(e, h, n)
<1>1. ASSUME NEW who, CreatorKnown(d, who) PROVE CreatorKnown(e, who)
  BY <1>1, KnownStays DEF CreatorKnown
<1>2. \A i, k : Follows(d, i, k) => Follows(e, i, k)
  BY DEF Follows
<1> QED
  BY <1>1, <1>2 DEF Partly

(* A transaction is inserted.                                                              *)
LEMMA TransactionInserted ==
  ASSUME ListsAssumption, NEW h \in 1 .. Len(Ledger), NEW n \in Nat,
         n + 1 \in 1 .. Len(Ledger[h].transactions),
         NEW d, Data(d), Partly(d, h, n), NEW tx, tx = Ledger[h].transactions[n + 1], NEW time,
         ~Known(d.transaction, "hash", tx.hash),
         NEW e, e = [d EXCEPT !.transaction = InsertTransaction(d, tx, h, time)]
  PROVE  Data(e) /\ Grows(d, e) /\ Partly(e, h, n + 1)
<1> DEFINE row == [index |-> NextIndex(d.transaction), hash |-> tx.hash, who |-> tx.creator,
                   domain |-> tx.domain, height |-> h, time |-> time]
           rows == d.transaction
           more == Append(rows, row)
           S == Range(rows) \cup {row}
<1>1. d = [block |-> d.block, transaction |-> d.transaction, account |-> d.account,
           peer |-> d.peer, role |-> d.role, domain |-> d.domain] /\ DbOK(d)
  BY DEF Data, DbOK
<1>2. e = [d EXCEPT !["transaction"] = more]
  BY DEF InsertTransaction
<1>3. /\ e.transaction = more /\ e.block = d.block /\ e.account = d.account /\ e.role = d.role
      /\ e.domain = d.domain
  <2> HIDE DEF more
  <2> QED
    BY <1>1, <1>2
<1>4. /\ row.hash = tx.hash /\ row.who = tx.creator /\ row.height = h
      /\ row["hash"] = tx.hash /\ row["height"] = h
      /\ RowOK("transaction", row, Len(rows) + 1)
  BY DEF RowOK, KeyOf, NextIndex
<1>5. rows \in Seq(Range(rows)) /\ Len(rows) \in Nat
  BY <1>1, TransactionTable
<1> HIDE DEF row, rows
<1>6. DbOK(e) /\ Grows(d, e)
  <2>1. "transaction" \in TableNames /\ TableOK("transaction", d["transaction"])
        /\ rows = d["transaction"]
    BY <1>1 DEF DbOK, TableNames, rows
  <2>2. TableOK("transaction", more) /\ Continues("transaction", d["transaction"], more)
    BY <1>4, <2>1, AppendRow
  <2> HIDE DEF more
  <2> QED
    BY <1>1, <1>2, <2>1, <2>2, ReplaceTable
<1>7. rows \in Seq(S) /\ row \in S
  <2> DEFINE R == Range(rows)
  <2>1. rows \in Seq(R) /\ R \subseteq S
    BY <1>5
  <2> HIDE DEF R
  <2>2. row \in S
    OBVIOUS
  <2> HIDE DEF S
  <2>3. rows \in Seq(S)
    BY <2>1, SeqMonotonic
  <2> QED
    BY <2>2, <2>3
<1> HIDE DEF S
<1>8. /\ Len(more) = Len(rows) + 1
      /\ \A i \in 1 .. Len(rows) : more[i] = rows[i]
      /\ more[Len(rows) + 1] = row
  BY <1>7
<1>9. Data(e)
  <2>1. Unique(more, "hash")
    <3>1. Unique(rows, "hash") /\ ~Known(rows, "hash", row["hash"])
      BY <1>4 DEF Data, rows
    <3> QED
      BY <1>7, <3>1, UniqueAppend
  <2>2. Names(e) = Names(d) /\ \A g : HoldsOf(d, g) <=> HoldsOf(e, g)
    BY <1>3 DEF Names, HoldsOf
  <2>3. \A a : AccountData(d, a) => AccountData(e, a)
    BY <2>2 DEF AccountData
  <2> QED
    BY <1>3, <1>6, <2>1, <2>2, <2>3 DEF Data
<1>10. \A i : OfKey(more, "height", i)
                = IF h = i THEN Append(OfKey(rows, "height", i), row) ELSE OfKey(rows, "height", i)
  <2> SUFFICES ASSUME NEW i
      PROVE  OfKey(more, "height", i)
               = IF h = i THEN Append(OfKey(rows, "height", i), row) ELSE OfKey(rows, "height", i)
    OBVIOUS
  <2>1. OfKey(Append(rows, row), "height", i)
          = IF row["height"] = i THEN Append(OfKey(rows, "height", i), row)
            ELSE OfKey(rows, "height", i)
    BY <1>7, OfKeyAppend
  <2> QED
    BY <1>4, <2>1
<1> HIDE DEF more
<1>11. ASSUME NEW i \in 1 .. h
       PROVE  Follows(e, i, IF i = h THEN n + 1 ELSE Len(Ledger[i].transactions))
  <2>1. Follows(d, i, IF i = h THEN n ELSE Len(Ledger[i].transactions))
    BY DEF Partly
  <2>2. CASE i # h
    BY <1>3, <1>10, <2>1, <2>2 DEF Follows, rows
  <2>3. CASE i = h
    <3> DEFINE txs == OfKey(rows, "height", h)
    <3>1. Len(txs) = n /\ \A k \in 1 .. n : txs[k].hash = Ledger[h].transactions[k].hash
      BY <2>1, <2>3 DEF Follows, rows
    <3>2. txs \in Seq(S)
      BY <1>7, OfKeyRows
    <3>3. OfKey(e.transaction, "height", h) = Append(txs, row)
      BY <1>3, <1>10
    <3> HIDE DEF txs
    <3>4. /\ Len(Append(txs, row)) = n + 1
          /\ \A k \in 1 .. n : Append(txs, row)[k] = txs[k]
          /\ Append(txs, row)[n + 1] = row
      BY <1>7, <3>1, <3>2
    <3>5. \A k \in 1 .. n + 1 : Append(txs, row)[k].hash = Ledger[h].transactions[k].hash
      <4>1. \A k \in 1 .. n + 1 : k \in 1 .. n \/ k = n + 1
        OBVIOUS
      <4> QED
        BY <1>4, <3>1, <3>4, <4>1
    <3> QED
      BY <2>3, <3>3, <3>4, <3>5 DEF Follows
  <2> QED
    BY <2>2, <2>3
<1>12. ASSUME NEW i \in 1 .. Len(more)
       PROVE  /\ more[i].height \in 1 .. h
              /\ CreatorKnown(e, more[i].who) \/ CreatorOf(h, more[i].who)
  <2>1. CASE i \in 1 .. Len(rows)
    <3>1. /\ rows[i].height \in 1 .. h
          /\ CreatorKnown(d, rows[i].who) \/ CreatorOf(h, rows[i].who)
      BY <2>1 DEF Partly, rows
    <3> QED
      BY <1>3, <1>8, <2>1, <3>1 DEF CreatorKnown
  <2>2. CASE i = Len(rows) + 1
    <3>1. CreatorOf(h, row.who)
      BY <1>4 DEF CreatorOf
    <3>2. h \in 1 .. h
      OBVIOUS
    <3> QED
      BY <1>4, <1>8, <2>2, <3>1, <3>2
  <2>3. i \in 1 .. Len(rows) \/ i = Len(rows) + 1
    BY <1>5, <1>8
  <2> QED
    BY <2>1, <2>2, <2>3
<1>13. Partly(e, h, n + 1)
  BY <1>3, <1>11, <1>12 DEF Partly
<1> QED
  BY <1>6, <1>9, <1>13

(* The tables after every command, and after every transaction.                            *)
LEMMA CommandsOneByOne ==
  ASSUME NEW d, NEW tx, NEW height, NEW time, Len(tx.commands) \in Nat
  PROVE  \A m \in 0 .. Len(tx.commands) :
           AfterCommands(d, tx, height, time)[m]
             = AfterCommandsStep(AfterCommands(d, tx, height, time), d, tx, height, time, m)
<1> DEFINE f == AfterCommands(d, tx, height, time)
<1>1. f = [n \in 0 .. Len(tx.commands) |-> AfterCommandsStep(f, d, tx, height, time, n)]
  BY AfterCommandsEquation
<1> HIDE DEF f
<1>2. \A m \in 0 .. Len(tx.commands) : f[m] = AfterCommandsStep(f, d, tx, height, time, m)
  BY <1>1
<1> QED
  BY <1>2 DEF f

LEMMA TransactionsOneByOne ==
  ASSUME NEW d, NEW block, NEW height, Len(block.transactions) \in Nat
  PROVE  \A m \in 0 .. Len(block.transactions) :
           AfterTransactions(d, block, height)[m]
             = AfterTransactionsStep(AfterTransactions(d, block, height), d, block, height, m)
<1> DEFINE f == AfterTransactions(d, block, height)
<1>1. f = [n \in 0 .. Len(block.transactions) |-> AfterTransactionsStep(f, d, block, height, n)]
  BY AfterTransactionsEquation
<1> HIDE DEF f
<1>2. \A m \in 0 .. Len(block.transactions) :
        f[m] = AfterTransactionsStep(f, d, block, height, m)
  BY <1>1
<1> QED
  BY <1>2 DEF f

(* A transaction of the ledger is applied.                                                 *)
LEMMA TransactionApplied ==
  ASSUME ListsAssumption, NEW h \in 1 .. Len(Ledger), NEW n \in Nat,
         n + 1 \in 1 .. Len(Ledger[h].transactions),
         NEW d, Data(d), Partly(d, h, n), NEW tx, tx = Ledger[h].transactions[n + 1], NEW time,
         ~Known(d.transaction, "hash", tx.hash),
         \A m \in 1 .. Len(tx.commands) :
           Accepted(AfterCommands(d, tx, h, time)[m - 1], tx.creator, tx.commands[m])
  PROVE  LET e == ApplyTransaction(d, tx, h, time)
         IN  Data(e) /\ Grows(d, e) /\ Partly(e, h, n + 1)
<1> DEFINE N == Len(tx.commands)
           f == AfterCommands(d, tx, h, time)
           P(m) == Data(f[m]) /\ Grows(d, f[m]) /\ Partly(f[m], h, n + 1)
           T == {m \in Nat : m <= N => P(m)}
<1>1. N \in Nat
  <2>1. LET transactions == Ledger[h].transactions
        IN  \A i \in 1 .. Len(transactions) : Len(transactions[i].commands) \in Nat
    BY DEF ListsAssumption
  <2> QED
    BY <2>1
<1>2. \A m \in 0 .. N : f[m] = AfterCommandsStep(f, d, tx, h, time, m)
  <2>1. Len(tx.commands) \in Nat
    BY <1>1
  <2> QED
    BY <2>1, CommandsOneByOne
<1>3. \A m \in 1 .. N : Accepted(f[m - 1], tx.creator, tx.commands[m])
  OBVIOUS
<1>4. ApplyTransaction(d, tx, h, time) = f[N]
  BY DEF ApplyTransaction
<1> HIDE DEF N, f
<1>5. P(0)
  <2>1. 0 \in 0 .. N
    BY <1>1
  <2>2. f[0] = [d EXCEPT !.transaction = InsertTransaction(d, tx, h, time)]
    BY <1>2, <2>1 DEF AfterCommandsStep
  <2> QED
    BY <2>2, TransactionInserted
<1>6. ASSUME NEW m \in Nat, m + 1 <= N, P(m) PROVE P(m + 1)
  <2>1. m + 1 \in 0 .. N /\ m + 1 # 0 /\ m + 1 - 1 = m /\ m + 1 \in 1 .. N
    BY <1>1, <1>6
  <2> DEFINE c == tx.commands[m + 1]
             a == f[m]
             b == f[m + 1]
  <2>2. b = ApplyCommand(a, tx.creator, c)
    BY <1>2, <2>1 DEF AfterCommandsStep
  <2>3. Accepted(a, tx.creator, c)
    BY <1>3, <2>1
  <2>4. Data(a) /\ Grows(d, a) /\ Partly(a, h, n + 1)
    BY <1>6
  <2> HIDE DEF a, b, c
  <2>5. Data(b) /\ b.transaction = a.transaction /\ b.block = a.block
    BY <2>2, <2>3, <2>4, CommandData
  <2>6. DbOK(a) /\ DbOK(b) /\ DbOK(d)
    BY <2>4, <2>5 DEF Data
  <2>7. Grows(a, b)
    BY <2>2, <2>6, CommandKeeps
  <2>8. Grows(d, b)
    BY <2>4, <2>6, <2>7, GrowsTransitive
  <2>9. Partly(b, h, n + 1)
    BY <2>4, <2>5, <2>6, <2>7, PartlyStays
  <2> QED
    BY <2>5, <2>8, <2>9 DEF b
<1> HIDE DEF P
<1>7. 0 \in T /\ \A m \in T : m + 1 \in T
  <2>1. ASSUME NEW m \in T PROVE m + 1 \in T
    <3>1. CASE m + 1 <= N
      <4>1. m <= N
        BY <1>1, <3>1
      <4> QED
        BY <1>6, <3>1, <4>1
    <3>2. CASE ~(m + 1 <= N)
      BY <3>2
    <3> QED
      BY <3>1, <3>2
  <2> QED
    BY <1>5, <2>1
<1>8. T = Nat
  <2>1. T \in SUBSET Nat
    OBVIOUS
  <2> HIDE DEF T
  <2> QED
    BY <1>7, <2>1, NatInduct
<1>9. P(N)
  BY <1>1, <1>8
<1> QED
  BY <1>4, <1>9 DEF P

(* A block row is inserted: no transaction refers to it yet.                               *)
LEMMA BlockInserted ==
  ASSUME ListsAssumption, NEW h \in 1 .. Len(Ledger), NEW d, Data(d), Whole(d, h - 1),
         NEW e, e = [d EXCEPT !.block = Append(@, [height |-> h, time |-> Ledger[h].time,
                                                   txcount |-> Len(Ledger[h].transactions)])]
  PROVE  Data(e) /\ Grows(d, e) /\ Partly(e, h, 0)
<1> DEFINE row == Summary(h)
           rows == d.block
           more == Append(rows, row)
<1>0. h \in Nat \ {0} /\ h - 1 \in Nat /\ h - 1 + 1 = h /\ Len(d.block) = h - 1
  BY DEF ListsAssumption, Whole
<1>1. d = [block |-> d.block, transaction |-> d.transaction, account |-> d.account,
           peer |-> d.peer, role |-> d.role, domain |-> d.domain] /\ DbOK(d)
  BY DEF Data, DbOK
<1>2. e = [d EXCEPT !["block"] = more]
  BY DEF Summary
<1>3. /\ e.block = more /\ e.transaction = d.transaction /\ e.account = d.account
      /\ e.role = d.role /\ e.domain = d.domain
  <2> HIDE DEF more
  <2> QED
    BY <1>1, <1>2
<1>4. RowOK("block", row, h)
  BY DEF RowOK, KeyOf, Summary
<1>5. rows \in Seq(Range(rows)) /\ Len(rows) \in Nat /\ Len(rows) = h - 1
  BY <1>0, <1>1, TransactionTable
<1> HIDE DEF row, rows
<1>6. DbOK(e) /\ Grows(d, e)
  <2>1. "block" \in TableNames /\ TableOK("block", d["block"]) /\ rows = d["block"]
    BY <1>1 DEF DbOK, TableNames, rows
  <2>2. RowOK("block", row, Len(rows) + 1)
    BY <1>0, <1>4, <1>5
  <2>3. TableOK("block", more) /\ Continues("block", d["block"], more)
    BY <2>1, <2>2, AppendRow
  <2> HIDE DEF more
  <2> QED
    BY <1>1, <1>2, <2>1, <2>3, ReplaceTable
<1>7. /\ Len(more) = h
      /\ \A i \in 1 .. h - 1 : more[i] = rows[i]
      /\ more[h] = row
  <2> DEFINE S == Range(rows) \cup {row}
             R == Range(rows)
  <2>1. rows \in Seq(R) /\ R \subseteq S /\ row \in S
    BY <1>5
  <2> HIDE DEF S, R
  <2>2. rows \in Seq(S)
    BY <2>1, SeqMonotonic
  <2>3. /\ Len(more) = Len(rows) + 1
        /\ \A i \in 1 .. Len(rows) : more[i] = rows[i]
        /\ more[Len(rows) + 1] = row
    BY <2>1, <2>2
  <2> QED
    BY <1>0, <1>5, <2>3
<1> HIDE DEF more
<1>8. Data(e)
  <2>1. Names(e) = Names(d) /\ \A g : HoldsOf(d, g) <=> HoldsOf(e, g)
    BY <1>3 DEF Names, HoldsOf
  <2>2. \A a : AccountData(d, a) => AccountData(e, a)
    BY <2>1 DEF AccountData
  <2> QED
    BY <1>3, <1>6, <2>1, <2>2 DEF Data
<1>9. \A i \in 1 .. h : i \in 1 .. h - 1 \/ i = h
  BY <1>0
<1>10. \A i \in 1 .. h : more[i] = Summary(i)
  <2>1. \A i \in 1 .. h - 1 : rows[i] = Summary(i)
    BY DEF Whole, rows
  <2> QED
    BY <1>7, <1>9, <2>1 DEF row
<1>11. ASSUME NEW i \in 1 .. Len(e.transaction)
       PROVE  /\ e.transaction[i].height \in 1 .. h
              /\ CreatorKnown(e, e.transaction[i].who)
  <2>1. /\ d.transaction[i].height \in 1 .. h - 1
        /\ CreatorKnown(d, d.transaction[i].who)
    BY <1>3 DEF Whole
  <2> QED
    BY <1>0, <1>3, <2>1 DEF CreatorKnown
<1>12. ASSUME NEW i \in 1 .. h
       PROVE  Follows(e, i, IF i = h THEN 0 ELSE Len(Ledger[i].transactions))
  <2>1. CASE i # h
    <3>1. Follows(d, i, Len(Ledger[i].transactions))
      BY <1>9, <2>1 DEF Whole
    <3> QED
      BY <1>3, <2>1, <3>1 DEF Follows
  <2>2. CASE i = h
    <3> DEFINE txs == OfKey(d.transaction, "height", h)
    <3>1. d.transaction \in Seq(Range(d.transaction))
          /\ DOMAIN d.transaction = 1 .. Len(d.transaction)
      BY <1>1, TransactionTable
    <3>2. ~Known(d.transaction, "height", h)
      <4>1. \A j \in 1 .. Len(d.transaction) : d.transaction[j]["height"] \in 1 .. h - 1
        BY DEF Whole
      <4>2. h \notin 1 .. h - 1
        BY <1>0
      <4> QED
        BY <3>1, <4>1, <4>2 DEF Known
    <3>3. txs = <<>>
      BY <3>1, <3>2, OfKeyRows
    <3> HIDE DEF txs
    <3>4. Len(txs) = 0 /\ 1 .. 0 = {}
      BY <3>3
    <3>5. OfKey(e.transaction, "height", i) = txs
      BY <1>3, <2>2 DEF txs
    <3> QED
      BY <2>2, <3>4, <3>5 DEF Follows
  <2> QED
    BY <2>1, <2>2
<1>13. Partly(e, h, 0)
  BY <1>3, <1>7, <1>10, <1>11, <1>12 DEF Partly
<1> QED
  BY <1>6, <1>8, <1>13

(* The next block of the ledger is applied.                                                *)
LEMMA BlockApplied ==
  ASSUME ListsAssumption, LedgerAssumption, NEW h \in 1 .. Len(Ledger),
         NEW d, d = TablesAfter[h - 1], Data(d), Whole(d, h - 1),
         NEW e, e = ApplyBlock(d, Ledger[h], h), e = TablesAfter[h]
  PROVE  Data(e) /\ Whole(e, h)
<1> DEFINE block == Ledger[h]
           N == Len(block.transactions)
           f == AfterTransactions(d, block, h)
           P(m) == Data(f[m]) /\ Grows(d, f[m]) /\ Partly(f[m], h, m)
           T == {m \in Nat : m <= N => P(m)}
<1>1. N \in Nat
  BY DEF ListsAssumption
<1>2. \A m \in 0 .. N : f[m] = AfterTransactionsStep(f, d, block, h, m)
  <2>1. Len(block.transactions) \in Nat
    BY <1>1
  <2> HIDE DEF block
  <2> QED
    BY <2>1, TransactionsOneByOne
<1>3. e = f[N]
  BY DEF ApplyBlock
<1>4. \A i \in 1 .. N :
        LET tx == block.transactions[i]
            at == AfterCommands(f[i - 1], tx, h, block.time)
        IN  /\ ~Known(f[i - 1].transaction, "hash", tx.hash)
            /\ tx.creator # None => Known(TablesAfter[h].account, "id", tx.creator)
            /\ \A n \in 1 .. Len(tx.commands) : Accepted(at[n - 1], tx.creator, tx.commands[n])
  BY DEF LedgerAssumption
<1>5. /\ block = Ledger[h] /\ N = Len(Ledger[h].transactions)
  OBVIOUS
<1> HIDE DEF block, N, f
<1>6. P(0)
  <2>1. 0 \in 0 .. N
    BY <1>1
  <2>2. f[0] = [d EXCEPT !.block = Append(@, [height |-> h, time |-> Ledger[h].time,
                                              txcount |-> Len(Ledger[h].transactions)])]
    BY <1>2, <1>5, <2>1 DEF AfterTransactionsStep
  <2> QED
    BY <2>2, BlockInserted
<1>7. ASSUME NEW m \in Nat, m + 1 <= N, P(m) PROVE P(m + 1)
  <2>1. m + 1 \in 0 .. N /\ m + 1 # 0 /\ m + 1 - 1 = m /\ m + 1 \in 1 .. N
    BY <1>1, <1>7
  <2> DEFINE tx == block.transactions[m + 1]
             time == block.time
             a == f[m]
             b == f[m + 1]
  <2>2. b = ApplyTransaction(a, tx, h, time)
    BY <1>2, <2>1 DEF AfterTransactionsStep
  <2>3. /\ ~Known(a.transaction, "hash", tx.hash)
        /\ \A n \in 1 .. Len(tx.commands) :
             Accepted(AfterCommands(a, tx, h, time)[n - 1], tx.creator, tx.commands[n])
    BY <1>4, <2>1, SMTT(20)
  <2>4. Data(a) /\ Grows(d, a) /\ Partly(a, h, m)
    BY <1>7
  <2>5. tx = Ledger[h].transactions[m + 1] /\ m + 1 \in 1 .. Len(Ledger[h].transactions)
    BY <1>5, <2>1
  <2> HIDE DEF a, b, tx, time
  <2>6. Data(b) /\ Grows(a, b) /\ Partly(b, h, m + 1)
    BY <2>2, <2>3, <2>4, <2>5, TransactionApplied
  <2>7. DbOK(a) /\ DbOK(b) /\ DbOK(d)
    BY <2>4, <2>6 DEF Data
  <2>8. Grows(d, b)
    BY <2>4, <2>6, <2>7, GrowsTransitive
  <2> QED
    BY <2>6, <2>8 DEF b
<1> HIDE DEF P
<1>8. 0 \in T /\ \A m \in T : m + 1 \in T
  <2>1. ASSUME NEW m \in T PROVE m + 1 \in T
    <3>1. CASE m + 1 <= N
      <4>1. m <= N
        BY <1>1, <3>1
      <4> QED
        BY <1>7, <3>1, <4>1
    <3>2. CASE ~(m + 1 <= N)
      BY <3>2
    <3> QED
      BY <3>1, <3>2
  <2> QED
    BY <1>6, <2>1
<1>9. T = Nat
  <2>1. T \in SUBSET Nat
    OBVIOUS
  <2> HIDE DEF T
  <2> QED
    BY <1>8, <2>1, NatInduct
<1>10. P(N)
  BY <1>1, <1>9
<1>11. Data(e) /\ Partly(e, h, N)
  BY <1>3, <1>10 DEF P
<1>12. \A who : CreatorOf(h, who) => CreatorKnown(e, who)
  BY <1>4, <1>5 DEF CreatorOf, CreatorKnown
<1>13. Whole(e, h)
  <2>1. \A i \in 1 .. h : Follows(e, i, Len(Ledger[i].transactions))
    BY <1>5, <1>11 DEF Partly
  <2> QED
    BY <1>11, <1>12, <2>1 DEF Partly, Whole
<1> QED
  BY <1>11, <1>13

LEMMA EmptyWhole ==
  Data(EmptyTables) /\ Whole(EmptyTables, 0)
<1> DEFINE d == EmptyTables
<1>1. \A l \in TableNames : d[l] = <<>>
  BY DEF TableNames, EmptyTables
<1>2. /\ d.block = <<>> /\ d.transaction = <<>> /\ d.account = <<>> /\ d.role = <<>>
      /\ d.domain = <<>>
  BY DEF EmptyTables
<1>3. Len(<<>>) = 0 /\ <<>> \in Seq(Range(<<>>)) /\ 1 .. 0 = {}
  OBVIOUS
<1>4. DbOK(d)
  <2>1. d = [block |-> d.block, transaction |-> d.transaction, account |-> d.account,
             peer |-> d.peer, role |-> d.role, domain |-> d.domain]
    BY DEF EmptyTables
  <2> QED
    BY <1>1, <1>3, <2>1 DEF DbOK, TableOK
<1> HIDE DEF d
<1>5. Data(d)
  BY <1>2, <1>3, <1>4 DEF Data, Unique
<1>6. Whole(d, 0)
  BY <1>2, <1>3 DEF Whole
<1> QED
  BY <1>5, <1>6 DEF d

(* After every block of the ledger the tables hold what it says.                           *)
LEMMA LedgerTables ==
  ASSUME ListsAssumption, LedgerAssumption
  PROVE  \A h \in 0 .. Len(Ledger) : Data(TablesAfter[h]) /\ Whole(TablesAfter[h], h)
<1> DEFINE N == Len(Ledger)
           f == TablesAfter
           T == {h \in 0 .. N : Data(f[h]) /\ Whole(f[h], h)}
<1>1. N \in Nat
  BY DEF ListsAssumption
<1>2. \A h \in 0 .. N : f[h] = TablesAfterStep(f, h)
  <2>1. f = [h \in 0 .. N |-> TablesAfterStep(f, h)]
    BY <1>1, TablesAfterEquation
  <2> HIDE DEF f
  <2> QED
    BY <2>1
<1>3. 0 \in T
  <2>1. 0 \in 0 .. N
    BY <1>1
  <2>2. f[0] = EmptyTables
    BY <1>2, <2>1 DEF TablesAfterStep
  <2> HIDE DEF f
  <2> QED
    BY <2>1, <2>2, EmptyWhole
<1>4. ASSUME NEW n \in Nat, n < N, n \in T PROVE n + 1 \in T
  <2> DEFINE h == n + 1
             d == f[h - 1]
             e == f[h]
  <2>1. h \in 1 .. Len(Ledger) /\ h - 1 = n /\ h \in 0 .. N /\ h # 0
    BY <1>1, <1>4
  <2>2. e = ApplyBlock(d, Ledger[h], h)
    BY <1>2, <2>1 DEF TablesAfterStep
  <2>3. Data(d) /\ Whole(d, h - 1)
    BY <1>4, <2>1
  <2>4. d = TablesAfter[h - 1] /\ e = TablesAfter[h]
    OBVIOUS
  <2> HIDE DEF d, e, h, f
  <2>5. Data(e) /\ Whole(e, h)
    BY <2>1, <2>2, <2>3, <2>4, BlockApplied
  <2> QED
    BY <2>1, <2>5 DEF e, h
<1> HIDE DEF T
<1>5. \A h \in 0 .. N : h \in T
  BY <1>1, <1>3, <1>4, UpTo
<1> QED
  BY <1>5 DEF T

(* Which tables those are.                                                                 *)
TablesInv == Len(tables.block) \in 0 .. Len(Ledger) /\ tables = TablesAfter[Len(tables.block)]

LEMMA TablesInit ==
  ASSUME ListsAssumption, tables = EmptyTables
  PROVE  TablesInv
<1>1. Len(tables.block) = 0 /\ Len(Ledger) \in Nat
  BY DEF EmptyTables, ListsAssumption
<1>2. 0 \in 0 .. Len(Ledger)
  BY <1>1
<1>3. TablesAfter[0] = EmptyTables
  <2> DEFINE f == TablesAfter
  <2>1. f = [h \in 0 .. Len(Ledger) |-> TablesAfterStep(f, h)]
    BY <1>1, TablesAfterEquation
  <2> HIDE DEF f
  <2>2. f[0] = TablesAfterStep(f, 0)
    BY <1>2, <2>1
  <2>3. f[0] = EmptyTables
    BY <2>2 DEF TablesAfterStep
  <2> QED
    BY <2>3 DEF f
<1> QED
  BY <1>1, <1>2, <1>3 DEF TablesInv

LEMMA TablesStep ==
  ASSUME ListsAssumption, LedgerAssumption, TablesInv, [Next]_vars
  PROVE  TablesInv'
<1>1. CASE UNCHANGED tables
  BY <1>1 DEF TablesInv
<1>2. CASE Apply
  <2> DEFINE h == Len(tables.block) + 1
             f == TablesAfter
  <2>1. tables' = ApplyBlock(tables, Ledger[h], h) /\ Len(tables.block) < Len(Ledger)
    BY <1>2 DEF Apply
  <2>2. Len(Ledger) \in Nat
    BY DEF ListsAssumption
  <2>3. h \in 0 .. Len(Ledger) /\ h # 0 /\ tables = f[h - 1]
    BY <2>1, <2>2 DEF TablesInv
  <2>4. f = [k \in 0 .. Len(Ledger) |-> TablesAfterStep(f, k)]
    BY <2>2, TablesAfterEquation
  <2> HIDE DEF f, h
  <2>5. f[h] = ApplyBlock(tables, Ledger[h], h)
    BY <2>3, <2>4 DEF TablesAfterStep
  <2>6. tables' = TablesAfter[h]
    BY <2>1, <2>5 DEF f
  <2>7. Len(tables'.block) = h
    BY <2>3, <2>6, LedgerTables DEF Whole
  <2> QED
    BY <2>3, <2>6, <2>7 DEF TablesInv
<1>3. Next => UNCHANGED tables \/ Apply
  BY DEF Next, AnswerList, AnswerTotal, Deliver, Rerender, OnPageChange, OnPageSizeChange,
         OnFilterChange
<1> QED
  BY <1>1, <1>2, <1>3 DEF vars

LEMMA TablesWhole ==
  ASSUME ListsAssumption, LedgerAssumption, TablesInv
  PROVE  Data(tables) /\ Whole(tables, Len(tables.block))
BY LedgerTables DEF TablesInv

-----------------------------------------------------------------------------
(* The summaries of the dashboard.                                                         *)

(* Tables that hold the first h blocks of the ledger, and what those blocks look like.      *)
BlockOK(i) ==
  /\ Ledger[i].time \in Nat \ {0}
  /\ Len(Ledger[i].transactions) \in Nat
  /\ DOMAIN Ledger[i].transactions = 1 .. Len(Ledger[i].transactions)

Mirrors(d, h) ==
  /\ h \in Nat
  /\ Data(d)
  /\ Whole(d, h)
  /\ \A i \in 1 .. h : BlockOK(i)

LEMMA TablesMirror ==
  ASSUME ListsAssumption, LedgerAssumption, TablesInv
  PROVE  Mirrors(tables, Len(tables.block))
<1> DEFINE h == Len(tables.block)
<1>1. h \in Nat /\ 1 .. h \subseteq 1 .. Len(Ledger)
  BY DEF TablesInv, ListsAssumption
<1>2. \A i \in 1 .. Len(Ledger) : BlockOK(i)
  BY DEF BlockOK, ListsAssumption, LedgerAssumption
<1>3. Data(tables) /\ Whole(tables, h)
  BY TablesWhole
<1> HIDE DEF h
<1> QED
  BY <1>1, <1>2, <1>3 DEF Mirrors, h

LEMMA BlocksMirrored ==
  ASSUME NEW d, NEW h, Mirrors(d, h)
  PROVE  /\ h \in Nat /\ d.block \in Seq(Range(d.block)) /\ Len(d.block) = h
         /\ DOMAIN d.block = 1 .. h
         /\ \A i \in 1 .. h : /\ d.block[i].height = i
                              /\ d.block[i].txcount = Len(Ledger[i].transactions)
                              /\ d.block[i].txcount \in Nat
                              /\ d.block[i].time \in Nat \ {0}
<1>1. DbOK(d)
  BY DEF Mirrors, Data
<1>2. h \in Nat /\ d.block \in Seq(Range(d.block)) /\ Len(d.block) = h /\ DOMAIN d.block = 1 .. h
  BY <1>1, TransactionTable DEF Mirrors, Whole
<1>3. ASSUME NEW i \in 1 .. h
      PROVE  /\ d.block[i].height = i
             /\ d.block[i].txcount = Len(Ledger[i].transactions)
             /\ d.block[i].txcount \in Nat
             /\ d.block[i].time \in Nat \ {0}
  <2>1. d.block[i] = Summary(i) /\ BlockOK(i)
    BY DEF Mirrors, Whole
  <2> QED
    BY <2>1 DEF Summary, BlockOK
<1> QED
  BY <1>2, <1>3

LEMMA TransactionsMirrored ==
  ASSUME NEW d, NEW h, Mirrors(d, h)
  PROVE  /\ d.transaction \in Seq(Range(d.transaction)) /\ Len(d.transaction) \in Nat
         /\ DOMAIN d.transaction = 1 .. Len(d.transaction)
         /\ \A i \in 1 .. Len(d.transaction) : d.transaction[i].height \in 1 .. h
         /\ \A i \in 1 .. h :
              /\ Len(OfKey(d.transaction, "height", i)) = Len(Ledger[i].transactions)
              /\ \A k \in 1 .. Len(Ledger[i].transactions) :
                   OfKey(d.transaction, "height", i)[k].hash = Ledger[i].transactions[k].hash
BY TransactionTable DEF Mirrors, Data, Whole, Follows

(* The transactions that the blocks say they have are those of the table.                  *)
LEMMA BlocksCount ==
  ASSUME NEW d, NEW h, Mirrors(d, h)
  PROVE  SumOf(Pluck(d.block, "txcount")) = Len(d.transaction)
<1> DEFINE rows == d.transaction
           which == [i \in 1 .. h |-> {r \in Range(rows) : r["height"] = i}]
           bucket == [b \in 1 .. Len(rows) |-> rows[b].height]
<1>1. rows \in Seq(Range(rows)) /\ Len(rows) \in Nat
  BY TransactionsMirrored
<1>7. h \in Nat
  BY BlocksMirrored
<1>2. \A b \in 1 .. Len(rows) : bucket[b] \in 1 .. h
  BY TransactionsMirrored
<1>3. ASSUME NEW b \in 1 .. Len(rows), NEW i \in 1 .. h
      PROVE  rows[b] \in which[i] <=> bucket[b] = i
  BY <1>1 DEF Range
<1>4. ASSUME NEW i \in 1 .. h PROVE Len(Select(rows, which[i])) = d.block[i].txcount
  <2>1. Select(rows, which[i]) = OfKey(rows, "height", i)
    BY DEF OfKey, Where
  <2>2. d.block[i].txcount = Len(Ledger[i].transactions)
    <3> HIDE DEF rows, which, bucket
    <3> QED
      BY BlocksMirrored
  <2>3. Len(OfKey(rows, "height", i)) = Len(Ledger[i].transactions)
    BY TransactionsMirrored
  <2> QED
    BY <2>1, <2>2, <2>3
<1>5. Pluck(d.block, "txcount") = GroupSizes(rows, which, h)
  <2>1. DOMAIN d.block = 1 .. h
    BY BlocksMirrored
  <2> QED
    BY <1>4, <2>1 DEF Pluck, GroupSizes
<1> HIDE DEF rows, which, bucket
<1>6. SumOf(GroupSizes(rows, which, h)) = Len(rows)
  <2> DEFINE R == Range(rows)
  <2>1. rows \in Seq(R)
    BY <1>1
  <2>2. /\ \A b \in 1 .. Len(rows) : bucket[b] \in 1 .. h
        /\ \A b \in 1 .. Len(rows) : \A i \in 1 .. h : rows[b] \in which[i] <=> bucket[b] = i
    BY <1>2, <1>3
  <2>3. h \in Nat
    BY <1>7
  <2> HIDE DEF R
  <2> QED
    BY <2>1, <2>2, <2>3, Grouped
<1> QED
  BY <1>5, <1>6 DEF rows

(* So are those of all domains.                                                            *)
LEMMA DomainsCount ==
  ASSUME NEW d, NEW h, Mirrors(d, h)
  PROVE  SumOf(Pluck(SetToSeq(OrgData(d)), "value")) = Len(d.transaction)
<1> DEFINE rows == d.transaction
           D == {rows[i].domain : i \in 1 .. Len(rows)}
           Slice(x) == [name |-> x, value |-> Len(OfKey(rows, "domain", x))]
           T == {Slice(x) : x \in D}
           n == Cardinality(T)
           s == SetToSeq(T)
           which == [i \in 1 .. n |-> {r \in Range(rows) : r["domain"] = s[i].name}]
           bucket == [b \in 1 .. Len(rows) |-> CHOOSE i \in 1 .. n : s[i].name = rows[b].domain]
<1>1. /\ rows \in Seq(Range(rows)) /\ Len(rows) \in Nat
      /\ DOMAIN rows = 1 .. Len(rows)
  BY TransactionsMirrored
<1>2. OrgData(d) = T
  <2> DEFINE Cell(x) == [domain |-> x, count |-> Len(OfKey(rows, "domain", x))]
             Value(c) == [name |-> c.domain, value |-> c.count]
             C == {Cell(x) : x \in D}
  <2>1. TransactionCountPerDomain(d) = C
    BY <1>1 DEF TransactionCountPerDomain, OfKey
  <2>2. \A x : Value(Cell(x)) = Slice(x)
    OBVIOUS
  <2>3. OrgData(d) = {Value(c) : c \in C}
    BY <2>1 DEF OrgData
  <2> HIDE DEF Value, Cell, Slice
  <2> QED
    BY <2>2, <2>3
<1>3. IsFiniteSet(T)
  <2> DEFINE t == [i \in 1 .. Len(rows) |-> Slice(rows[i].domain)]
  <2>1. T = Range(t)
    <3>1. DOMAIN t = 1 .. Len(rows) /\ \A i \in 1 .. Len(rows) : t[i] = Slice(rows[i].domain)
      OBVIOUS
    <3> HIDE DEF t
    <3> QED
      BY <3>1 DEF Range
  <2>2. t \in Seq(T)
    BY <1>1
  <2> HIDE DEF t, T
  <2>3. IsFiniteSet(Range(t))
    BY <2>2, RangeFinite
  <2> QED
    BY <2>1, <2>3
<1>4. \A x \in T : x = Slice(x.name) /\ x.name \in D
  OBVIOUS
<1>5. \A b \in 1 .. Len(rows) : Slice(rows[b].domain) \in T /\ Slice(rows[b].domain).name = rows[b].domain
  OBVIOUS
<1> HIDE DEF T
<1>6. /\ n \in Nat /\ s \in Seq(T) /\ Len(s) = n
      /\ \A i, j \in 1 .. n : s[i] = s[j] => i = j
      /\ \A x \in T : \E i \in 1 .. n : s[i] = x
  BY <1>3, SetSeq
<1> HIDE DEF n, s
<1>7. \A i \in 1 .. n : s[i] \in T /\ s[i] = Slice(s[i].name)
  BY <1>4, <1>6
<1>8. ASSUME NEW b \in 1 .. Len(rows)
      PROVE  /\ bucket[b] \in 1 .. n
             /\ \A i \in 1 .. n : rows[b] \in which[i] <=> bucket[b] = i
  <2>1. \E i \in 1 .. n : s[i].name = rows[b].domain
    <3> HIDE DEF Slice
    <3>1. PICK i \in 1 .. n : s[i] = Slice(rows[b].domain)
      BY <1>5, <1>6
    <3> QED
      BY <1>5, <3>1
  <2>2. bucket[b] \in 1 .. n /\ s[bucket[b]].name = rows[b].domain
    BY <2>1
  <2>3. \A i \in 1 .. n : rows[b] \in which[i] <=> s[i].name = rows[b].domain
    BY <1>1 DEF Range
  <2> HIDE DEF bucket, which, Slice
  <2>4. \A i, j \in 1 .. n : s[i].name = s[j].name => i = j
    BY <1>6, <1>7
  <2> QED
    BY <2>2, <2>3, <2>4
<1>9. Pluck(s, "value") = GroupSizes(rows, which, n)
  <2>1. DOMAIN s = 1 .. n
    BY <1>6
  <2>2. ASSUME NEW i \in 1 .. n PROVE s[i]["value"] = Len(Select(rows, which[i]))
    <3>1. Select(rows, which[i]) = OfKey(rows, "domain", s[i].name)
      BY DEF OfKey, Where
    <3> HIDE DEF which
    <3>2. s[i] = [name |-> s[i].name, value |-> Len(OfKey(rows, "domain", s[i].name))]
      BY <1>7
    <3> QED
      BY <3>1, <3>2
  <2> HIDE DEF which
  <2> QED
    BY <2>1, <2>2 DEF Pluck, GroupSizes
<1>10. SumOf(GroupSizes(rows, which, n)) = Len(rows)
  <2> DEFINE R == Range(rows)
  <2>1. rows \in Seq(R)
    BY <1>1
  <2>2. /\ \A b \in 1 .. Len(rows) : bucket[b] \in 1 .. n
        /\ \A b \in 1 .. Len(rows) : \A i \in 1 .. n : rows[b] \in which[i] <=> bucket[b] = i
    BY <1>8
  <2>3. n \in Nat
    BY <1>6
  <2> HIDE DEF R, which, bucket, rows, D, Slice
  <2> QED
    BY <2>1, <2>2, <2>3, Grouped
<1> HIDE DEF which, bucket
<1> QED
  BY <1>2, <1>9, <1>10 DEF s

-----------------------------------------------------------------------------
(* The charts: every block falls into one bucket.                                          *)

Weights(d, what) == [b \in DOMAIN d.block |-> IF what = "block" THEN 1 ELSE d.block[b].txcount]

InUnit(d, unit, now, i, b) ==
  LET after == Trunc(now, unit) - (now + 1 - 1) * unit
  IN  /\ Trunc(d.block[b].time, unit) = after + (i - 1) * unit
      /\ d.block[b].time > after

LEMMA WeightsAre ==
  ASSUME NEW d, NEW h, Mirrors(d, h), NEW what
  PROVE  /\ Weights(d, what) \in Seq(Int)
         /\ Len(Weights(d, what)) = h
         /\ \A b \in 1 .. h :
              Weights(d, what)[b] = IF what = "block" THEN 1 ELSE d.block[b].txcount
<1>1. h \in Nat /\ DOMAIN d.block = 1 .. h /\ \A b \in 1 .. h : d.block[b].txcount \in Nat
  BY BlocksMirrored
<1> QED
  BY <1>1 DEF Weights

LEMMA ChartSum ==
  ASSUME NEW d, NEW h, Mirrors(d, h), NEW what, NEW unit, NEW now \in Nat, NEW bucket,
         \A b \in 1 .. h :
           /\ bucket[b] \in 1 .. now + 1
           /\ \A i \in 1 .. now + 1 : InUnit(d, unit, now, i, b) <=> bucket[b] = i
  PROVE  SumOf(Pluck(ChartSeries(CountPerBucket(d, what, unit, now + 1, now), unit, now), "count"))
           = SumOf(Weights(d, what))
<1> DEFINE w == Weights(d, what)
           n == now + 1
           counts == CountPerBucket(d, what, unit, n, now)
<1>1. /\ w \in Seq(Int) /\ Len(w) = h
      /\ \A b \in 1 .. h : w[b] = IF what = "block" THEN 1 ELSE d.block[b].txcount
  BY WeightsAre
<1>2. h \in Nat /\ DOMAIN d.block = 1 .. h
  BY BlocksMirrored
<1>3. counts = [i \in 1 .. n |->
                 SumOf([b \in DOMAIN d.block |->
                          IF InUnit(d, unit, now, i, b)
                          THEN IF what = "block" THEN 1 ELSE d.block[b].txcount ELSE 0])]
  BY DEF CountPerBucket, InUnit
<1>4. DOMAIN counts = 1 .. n
  BY <1>3
<1> HIDE DEF w
<1>5. ASSUME NEW i \in 1 .. n PROVE counts[i] = SumOf(InBucket(w, bucket, i))
  <2> DEFINE v == [b \in DOMAIN d.block |->
                     IF InUnit(d, unit, now, i, b)
                     THEN IF what = "block" THEN 1 ELSE d.block[b].txcount ELSE 0]
  <2>1. counts[i] = SumOf(v)
    BY <1>3
  <2>2. v = [b \in 1 .. h |-> IF bucket[b] = i THEN w[b] ELSE 0]
    BY <1>1, <1>2
  <2>3. InBucket(w, bucket, i) = [b \in 1 .. h |-> IF bucket[b] = i THEN w[b] ELSE 0]
    BY <1>1 DEF InBucket
  <2> HIDE DEF v
  <2> QED
    BY <2>1, <2>2, <2>3
<1>6. Pluck(ChartSeries(counts, unit, now), "count") = [i \in 1 .. n |-> SumOf(InBucket(w, bucket, i))]
  <2> HIDE DEF counts
  <2>1. Pluck(ChartSeries(counts, unit, now), "count") = [i \in 1 .. n |-> counts[i]]
    BY <1>4 DEF Pluck, ChartSeries
  <2> QED
    BY <1>5, <2>1
<1>7. \A b \in 1 .. Len(w) : bucket[b] \in 1 .. n
  BY <1>1
<1>8. n \in Nat
  OBVIOUS
<1> HIDE DEF n, counts
<1>9. SumOf([i \in 1 .. n |-> SumOf(InBucket(w, bucket, i))]) = SumOf(w)
  BY <1>1, <1>7, <1>8, Partition
<1> QED
  BY <1>6, <1>9 DEF counts, n, w

(* The units are minutes and hours.                                                        *)
LEMMA MinutesSum ==
  ASSUME NEW d, NEW h, Mirrors(d, h), NEW what, NEW now \in Nat,
         \A b \in 1 .. h : d.block[b].time <= now
  PROVE  SumOf(Pluck(ChartSeries(CountPerBucket(d, what, 1, now + 1, now), 1, now), "count"))
           = SumOf(Weights(d, what))
<1> DEFINE bucket == [b \in 1 .. h |-> d.block[b].time + 1]
<1>1. ASSUME NEW b \in 1 .. h
      PROVE  /\ bucket[b] \in 1 .. now + 1
             /\ \A i \in 1 .. now + 1 : InUnit(d, 1, now, i, b) <=> bucket[b] = i
  <2> DEFINE t == d.block[b].time
  <2>1. t \in Nat /\ t # 0 /\ t <= now
    BY BlocksMirrored
  <2>2. bucket[b] = t + 1
    OBVIOUS
  <2>3. Trunc(t, 1) = t /\ Trunc(now, 1) = now
    BY <2>1, TruncOne
  <2>4. \A i : InUnit(d, 1, now, i, b) <=>
                 /\ Trunc(t, 1) = Trunc(now, 1) - (now + 1 - 1) * 1 + (i - 1) * 1
                 /\ t > Trunc(now, 1) - (now + 1 - 1) * 1
    BY DEF InUnit
  <2> HIDE DEF t, bucket
  <2> QED
    BY <2>1, <2>2, <2>3, <2>4
<1> HIDE DEF bucket
<1> QED
  BY <1>1, ChartSum

LEMMA HoursSum ==
  ASSUME NEW d, NEW h, Mirrors(d, h), NEW what, NEW now \in Nat,
         \A b \in 1 .. h : d.block[b].time <= now
  PROVE  SumOf(Pluck(ChartSeries(CountPerBucket(d, what, 2, now + 1, now), 2, now), "count"))
           = SumOf(Weights(d, what))
<1> DEFINE bucket == [b \in 1 .. h |-> now + 1 - (now \div 2 - d.block[b].time \div 2)]
<1>1. ASSUME NEW b \in 1 .. h
      PROVE  /\ bucket[b] \in 1 .. now + 1
             /\ \A i \in 1 .. now + 1 : InUnit(d, 2, now, i, b) <=> bucket[b] = i
  <2> DEFINE t == d.block[b].time
  <2>1. t \in Nat /\ t # 0 /\ t <= now
    BY BlocksMirrored
  <2>2. bucket[b] = now + 1 - (now \div 2 - t \div 2)
    OBVIOUS
  <2>3. /\ t \div 2 \in Nat /\ Trunc(t, 2) = 2 * (t \div 2)
        /\ 2 * (t \div 2) <= t /\ t <= 2 * (t \div 2) + 1
        /\ now \div 2 \in Nat /\ Trunc(now, 2) = 2 * (now \div 2)
        /\ 2 * (now \div 2) <= now /\ now <= 2 * (now \div 2) + 1
    BY <2>1, TruncTwo
  <2>4. \A i : InUnit(d, 2, now, i, b) <=>
                 /\ Trunc(t, 2) = Trunc(now, 2) - (now + 1 - 1) * 2 + (i - 1) * 2
                 /\ t > Trunc(now, 2) - (now + 1 - 1) * 2
    BY DEF InUnit
  <2> HIDE DEF t, bucket
  <2> QED
    BY <2>1, <2>2, <2>3, <2>4
<1> HIDE DEF bucket
<1> QED
  BY <1>1, ChartSum

(* The bar of a minute counts the blocks of the time it is labelled with.                  *)
LEMMA MinuteBar ==
  ASSUME NEW d, NEW h, Mirrors(d, h), NEW now \in Nat,
         NEW bars, bars = ChartSeries(CountPerBucket(d, "block", 1, now + 1, now), 1, now),
         NEW i \in DOMAIN bars
  PROVE  bars[i].count = Len(OfKey(d.block, "time", bars[i].datetime))
<1> DEFINE rows == d.block
           which == {r \in Range(rows) : r["time"] = i - 1}
           v == [b \in DOMAIN rows |-> IF InUnit(d, 1, now, i, b) THEN 1 ELSE 0]
           counts == CountPerBucket(d, "block", 1, now + 1, now)
<1>1. rows \in Seq(Range(rows)) /\ Len(rows) = h /\ DOMAIN rows = 1 .. h
  BY BlocksMirrored
<1>2. counts = [k \in 1 .. now + 1 |->
                 SumOf([b \in DOMAIN d.block |-> IF InUnit(d, 1, now, k, b) THEN 1 ELSE 0])]
  BY DEF CountPerBucket, InUnit
<1>3. DOMAIN counts = 1 .. now + 1 /\ Len(counts) = now + 1
  BY <1>2
<1>4. bars = [k \in 1 .. now + 1 |-> [datetime |-> now - 1 * (Len(counts) - k), count |-> counts[k]]]
  <2> HIDE DEF counts
  <2> QED
    BY <1>3 DEF ChartSeries, counts
<1>5. i \in 1 .. now + 1 /\ bars[i].count = counts[i] /\ bars[i].datetime = now - 1 * (now + 1 - i)
  <2> HIDE DEF counts
  <2> QED
    BY <1>3, <1>4
<1>6. bars[i].datetime = i - 1
  BY <1>5
<1>7. bars[i].count = SumOf(v)
  BY <1>2, <1>5
<1>8. v = Marks(rows, which)
  <2>1. ASSUME NEW b \in 1 .. h PROVE InUnit(d, 1, now, i, b) <=> rows[b] \in which
    <3> DEFINE t == d.block[b].time
    <3>1. t \in Nat /\ t # 0
      BY BlocksMirrored
    <3>2. Trunc(t, 1) = t /\ Trunc(now, 1) = now
      BY <3>1, TruncOne
    <3>3. InUnit(d, 1, now, i, b) <=>
            /\ Trunc(t, 1) = Trunc(now, 1) - (now + 1 - 1) * 1 + (i - 1) * 1
            /\ t > Trunc(now, 1) - (now + 1 - 1) * 1
      BY DEF InUnit
    <3>4. rows[b] \in which <=> t = i - 1
      BY <1>1 DEF Range
    <3> HIDE DEF t, which
    <3> QED
      BY <1>5, <3>1, <3>2, <3>3, <3>4
  <2> HIDE DEF which
  <2> QED
    BY <1>1, <2>1 DEF Marks
<1>9. Len(Select(rows, which)) = SumOf(Marks(rows, which))
  <2> DEFINE R == Range(rows)
  <2>1. rows \in Seq(R)
    BY <1>1
  <2> HIDE DEF R, which, rows
  <2> QED
    BY <2>1, SelectCount
<1>10. Select(rows, which) = OfKey(d.block, "time", i - 1)
  BY DEF OfKey, Where
<1> HIDE DEF which, v
<1> QED
  BY <1>6, <1>7, <1>8, <1>9, <1>10

(* The latest time.                                                                        *)
LEMMA LatestTime ==
  ASSUME NEW d, NEW h, Mirrors(d, h), NEW now, now = Max({1} \cup {b.time : b \in Range(d.block)})
  PROVE  now \in Nat /\ \A b \in 1 .. h : d.block[b].time <= now
<1> DEFINE times == [i \in 1 .. h |-> d.block[i].time]
           T == {1} \cup {b.time : b \in Range(d.block)}
           U == Range(times)
<1>1. h \in Nat /\ DOMAIN d.block = 1 .. h /\ \A i \in 1 .. h : d.block[i].time \in Nat
  BY BlocksMirrored
<1>2. times \in Seq(Nat) /\ DOMAIN times = 1 .. h /\ \A i \in 1 .. h : times[i] = d.block[i].time
  BY <1>1
<1>3. T = U \cup {1}
  <2> HIDE DEF times
  <2> QED
    BY <1>1, <1>2 DEF Range
<1>4. IsFiniteSet(U) /\ U \subseteq Nat
  <2> HIDE DEF times
  <2> QED
    BY <1>2, RangeFinite
<1>5. \A b \in 1 .. h : d.block[b].time \in T
  BY <1>1 DEF Range
<1> HIDE DEF U, times
<1>6. IsFiniteSet(T) /\ T \in SUBSET Nat /\ T # {}
  <2>1. IsFiniteSet(U \cup {1})
    BY <1>4, FS_AddElement
  <2> HIDE DEF T
  <2> QED
    BY <1>3, <1>4, <2>1
<1> HIDE DEF T
<1>7. \E x \in T : \A y \in T : x >= y
  BY <1>6, FiniteMax
<1>8. now \in T /\ \A y \in T : now >= y
  <2>1. now = Max(T)
    BY DEF T
  <2> QED
    BY <1>7, <2>1 DEF Max
<1>9. now \in Nat /\ \A y \in T : y <= now
  BY <1>6, <1>8
<1> QED
  BY <1>5, <1>9

(* The timeline.                                                                           *)
LEMMA LatestBlocks ==
  ASSUME NEW d, NEW h, Mirrors(d, h), NEW latest, latest = Notifications(d)
  PROVE  /\ Len(latest) = Min({3, h})
         /\ \A i \in DOMAIN latest : latest[i].title = h + 1 - i
<1> DEFINE rows == Reverse(d.block)
           blocks == Limit(rows, 3)
           S == Range(d.block)
<1>1. /\ h \in Nat /\ d.block \in Seq(S) /\ Len(d.block) = h
      /\ \A i \in 1 .. h : d.block[i].height = i
  BY BlocksMirrored
<1>2. rows \in Seq(S) /\ Len(rows) = h /\ \A i \in 1 .. h : rows[i] = d.block[(h - i) + 1]
  <2>1. \A i \in 1 .. h : (h - i) + 1 \in 1 .. h
    BY <1>1
  <2>2. rows = [i \in 1 .. h |-> d.block[(h - i) + 1]]
    BY <1>1 DEF Reverse
  <2>3. \A i \in 1 .. h : d.block[i] \in S
    BY <1>1
  <2> HIDE DEF S, rows
  <2>4. \A i \in 1 .. h : rows[i] = d.block[(h - i) + 1] /\ rows[i] \in S
    BY <2>1, <2>2, <2>3
  <2>5. rows = [i \in 1 .. h |-> rows[i]]
    BY <2>2
  <2>6. rows \in [1 .. h -> S]
    BY <2>4, <2>5
  <2>7. rows \in Seq(S) /\ Len(rows) = h
    BY <1>1, <2>6
  <2> QED
    BY <2>4, <2>7
<1> HIDE DEF S, rows
<1>3. /\ Len(blocks) = IF 3 < h THEN 3 ELSE h
      /\ blocks \in Seq(S)
      /\ \A i \in 1 .. Len(blocks) : blocks[i] = rows[i]
  <2>1. 3 \in Nat
    OBVIOUS
  <2>2. /\ Limit(rows, 3) \in Seq(S)
        /\ Len(Limit(rows, 3)) = IF 3 < Len(rows) THEN 3 ELSE Len(rows)
        /\ \A i \in 1 .. Len(Limit(rows, 3)) : Limit(rows, 3)[i] = rows[i]
    BY <1>2, <2>1, LimitIs
  <2> QED
    BY <1>2, <2>2
<1> HIDE DEF blocks
<1>4. latest = [i \in 1 .. Len(blocks) |-> [title |-> blocks[i].height, txcount |-> blocks[i].txcount]]
  <2>1. LastBlocks(d, 3) = blocks
    BY DEF LastBlocks, blocks, rows
  <2>2. DOMAIN blocks = 1 .. Len(blocks)
    BY <1>3, SMTT(20)
  <2> QED
    BY <2>1, <2>2 DEF Notifications
<1>5. Len(latest) = Len(blocks) /\ DOMAIN latest = 1 .. Len(blocks)
  BY <1>1, <1>3, <1>4
<1>6. Min({3, h}) = IF 3 < h THEN 3 ELSE h
  BY <1>1, LeastOfTwo
<1>7. ASSUME NEW i \in DOMAIN latest PROVE latest[i].title = h + 1 - i
  <2>1. i \in 1 .. Len(blocks) /\ i \in 1 .. h /\ (h - i) + 1 \in 1 .. h
    BY <1>1, <1>3, <1>5
  <2>2. latest[i].title = blocks[i].height
    BY <1>4, <2>1
  <2>3. blocks[i] = d.block[(h - i) + 1]
    BY <1>2, <1>3, <2>1
  <2>4. d.block[(h - i) + 1].height = (h - i) + 1
    BY <1>1, <2>1
  <2> QED
    BY <1>1, <2>1, <2>2, <2>3, <2>4
<1> QED
  BY <1>3, <1>5, <1>6, <1>7

(* A page of a hundred.                                                                    *)
LEMMA HundredRows ==
  ASSUME NEW d, DbOK(d), NEW l \in {"peer", "role", "domain"}
  PROVE  /\ d[l] \in Seq(Range(d[l]))
         /\ FirstHundred(d[l]) \in Seq(Range(d[l]))
         /\ Len(FirstHundred(d[l])) = IF 100 < Len(d[l]) THEN 100 ELSE Len(d[l])
         /\ DOMAIN FirstHundred(d[l]) = 1 .. Len(FirstHundred(d[l])) /\ Len(d[l]) \in Nat
         /\ \A i \in 1 .. Len(FirstHundred(d[l])) : FirstHundred(d[l])[i] = d[l][i]
<1> DEFINE rows == d[l]
           R == Range(rows)
           which == {r \in Range(rows) : r.index > 0}
<1>1. TableOK(l, d[l]) /\ l # "block"
  BY DEF DbOK, TableNames
<1>2. rows \in Seq(R) /\ Len(rows) \in Nat /\ DOMAIN rows = 1 .. Len(rows)
      /\ \A i \in 1 .. Len(rows) : rows[i].index = i
  BY <1>1, TableLength DEF TableOK, RowOK, KeyOf
<1>3. \A i \in 1 .. Len(rows) : rows[i] \in which
  BY <1>2 DEF Range
<1>4. FirstHundred(rows) = Limit(Select(rows, which), 100)
  <2>1. After([after |-> None, count |-> 100]) = 0
    BY DEF After
  <2> QED
    BY <2>1 DEF FirstHundred, PagedList
<1> HIDE DEF which, R, rows
<1>5. Select(rows, which) = rows
  BY <1>2, <1>3, SelectWhole
<1>6. /\ Limit(rows, 100) \in Seq(R)
      /\ Len(Limit(rows, 100)) = IF 100 < Len(rows) THEN 100 ELSE Len(rows)
      /\ \A i \in 1 .. Len(Limit(rows, 100)) : Limit(rows, 100)[i] = rows[i]
  <2>1. 100 \in Nat
    OBVIOUS
  <2> QED
    BY <1>2, <2>1, LimitRows
<1>7. DOMAIN Limit(rows, 100) = 1 .. Len(Limit(rows, 100))
  BY <1>6
<1> QED
  BY <1>2, <1>4, <1>5, <1>6, <1>7 DEF rows, R

(* The summaries agree.                                                                    *)
LEMMA SummariesMirror ==
  ASSUME NEW h, Mirrors(tables, h)
  PROVE  SummariesAgree
<1> DEFINE now == Max({1} \cup {b.time : b \in Range(tables.block)})
           charts == ChartStats(tables, now + 1, now + 1, now)
           latest == Notifications(tables)
           stats == DashStats(tables)
           Chart(what, unit) == ChartSeries(CountPerBucket(tables, what, unit, now + 1, now), unit, now)
<1>1. /\ h \in Nat /\ Len(tables.block) = h /\ DOMAIN tables.block = 1 .. h
      /\ \A i \in 1 .. h : tables.block[i].txcount \in Nat
  BY BlocksMirrored
<1>2. stats.latestBlock = h /\ stats.txCount = Len(tables.transaction)
      /\ stats.peerCount = Len(tables.peer)
  BY <1>1 DEF DashStats, ReadFromDb
<1>3. now \in Nat /\ \A b \in 1 .. h : tables.block[b].time <= now
  BY LatestTime
<1>4. /\ charts["blockPerMin"] = Chart("block", 1) /\ charts["blockPerHour"] = Chart("block", 2)
      /\ charts["transactionPerMin"] = Chart("transaction", 1)
      /\ charts["transactionPerHour"] = Chart("transaction", 2)
  BY DEF ChartStats
<1> HIDE DEF now
<1>5. ASSUME NEW what
      PROVE  /\ SumOf(Pluck(Chart(what, 1), "count")) = SumOf(Weights(tables, what))
             /\ SumOf(Pluck(Chart(what, 2), "count")) = SumOf(Weights(tables, what))
  BY <1>3, MinutesSum, HoursSum
<1>6. SumOf(Weights(tables, "block")) = h
  <2>1. Weights(tables, "block") = [b \in 1 .. h |-> 1]
    BY <1>1 DEF Weights
  <2> QED
    BY <1>1, <2>1, SumOnes
<1>7. SumOf(Weights(tables, "transaction")) = Len(tables.transaction)
  <2>1. Weights(tables, "transaction") = Pluck(tables.block, "txcount")
    BY DEF Weights, Pluck
  <2> QED
    BY <2>1, BlocksCount
<1>8. SumOf(Pluck(tables.block, "txcount")) = stats.txCount
  BY <1>2, BlocksCount
<1>9. SumOf(Pluck(SetToSeq(OrgData(tables)), "value")) = stats.txCount
  BY <1>2, DomainsCount
<1>10. \A i \in DOMAIN charts.blockPerMin :
         charts.blockPerMin[i].count
           = Len(OfKey(tables.block, "time", charts.blockPerMin[i].datetime))
  <2> DEFINE bars == charts.blockPerMin
  <2>1. bars = ChartSeries(CountPerBucket(tables, "block", 1, now + 1, now), 1, now)
    BY <1>4
  <2> HIDE DEF bars
  <2>2. \A i \in DOMAIN bars : bars[i].count = Len(OfKey(tables.block, "time", bars[i].datetime))
    BY <1>3, <2>1, MinuteBar
  <2> QED
    BY <2>2 DEF bars
<1>11. /\ Len(latest) = Min({3, stats.latestBlock})
       /\ \A i \in DOMAIN latest : latest[i].title = stats.latestBlock + 1 - i
  <2>1. latest = Notifications(tables)
    OBVIOUS
  <2> HIDE DEF latest, stats
  <2>2. Len(latest) = Min({3, h}) /\ \A i \in DOMAIN latest : latest[i].title = h + 1 - i
    BY <2>1, LatestBlocks, ZenonT(30)
  <2> QED
    BY <1>2, <2>2
<1>12. Len(PeerStatus(tables)) = Min({100, stats.peerCount})
  <2>1. DbOK(tables)
    BY DEF Mirrors, Data
  <2>2. /\ tables["peer"] \in Seq(Range(tables["peer"]))
        /\ Len(FirstHundred(tables["peer"]))
             = IF 100 < Len(tables["peer"]) THEN 100 ELSE Len(tables["peer"])
    BY <2>1, HundredRows
  <2>3. Len(tables.peer) \in Nat
    BY <2>2
  <2>4. Min({100, Len(tables.peer)}) = IF 100 < Len(tables.peer) THEN 100 ELSE Len(tables.peer)
    BY <2>3, LeastOfTwo
  <2> QED
    BY <1>2, <2>2, <2>4 DEF PeerStatus
<1>13. /\ \A c \in {"blockPerMin", "blockPerHour"} :
            SumOf(Pluck(charts[c], "count")) = stats.latestBlock
       /\ \A c \in {"transactionPerMin", "transactionPerHour"} :
            SumOf(Pluck(charts[c], "count")) = stats.txCount
  <2> HIDE DEF charts, Chart, stats
  <2> QED
    BY <1>2, <1>4, <1>5, <1>6, <1>7
<1>14. \A i \in DOMAIN charts.blockPerMin :
         charts.blockPerMin[i].count =
           Len(Where(tables.block, LAMBDA b : b.time = charts.blockPerMin[i].datetime))
  <2> HIDE DEF charts
  <2> QED
    BY <1>10 DEF OfKey, Where
<1> HIDE DEF charts, latest, stats
<1> QED
  BY <1>8, <1>9, <1>11, <1>12, <1>13, <1>14 DEF SummariesAgree, charts, latest, stats, now

-----------------------------------------------------------------------------
(* The dialogs.                                                                            *)

(* A block, found by its height.                                                           *)
LEMMA BlockShown ==
  ASSUME NEW d, NEW h, Mirrors(d, h), NEW i \in 1 .. h
  PROVE  LET txs == Ledger[i].transactions
         IN  /\ Known(d.block, "height", i)
             /\ BlockView(d, i) = [blocknum |-> i, txcount |-> Len(txs),
                                   transactions |-> [k \in 1 .. Len(txs) |-> txs[k].hash]]
<1> DEFINE rows == d.block
           S == Range(rows)
           txs == Ledger[i].transactions
<1>1. /\ rows \in Seq(S) /\ Len(rows) = h /\ i \in 1 .. Len(rows)
      /\ \A a \in 1 .. h : rows[a]["height"] = a
      /\ rows[i].txcount = Len(txs)
  BY BlocksMirrored
<1>2. DOMAIN txs = 1 .. Len(txs)
  BY DEF Mirrors, BlockOK
<1> HIDE DEF rows, S, txs
<1>3. \A a, b \in 1 .. Len(rows) : rows[a]["height"] = rows[b]["height"] => a = b
  BY <1>1
<1>4. Known(rows, "height", rows[i]["height"]) /\ ByKey(rows, "height", rows[i]["height"]) = rows[i]
  BY <1>1, <1>3, ByKeyIs
<1>5. Known(rows, "height", i) /\ ByKey(rows, "height", i) = rows[i]
  BY <1>1, <1>4
<1>6. Pluck(BlockTransactions(i), "hash") = [k \in 1 .. Len(txs) |-> txs[k].hash]
  BY <1>2 DEF Pluck, BlockTransactions, txs
<1> QED
  BY <1>1, <1>5, <1>6 DEF BlockView, rows, txs

(* The transactions of a block, found by their hashes.                                     *)
LEMMA TransactionShown ==
  ASSUME NEW d, NEW h, Mirrors(d, h), NEW i \in 1 .. h, NEW k \in 1 .. Len(Ledger[i].transactions)
  PROVE  TransactionView(d, Ledger[i].transactions[k].hash).blockHeight = i
<1> DEFINE rows == d.transaction
           S == Range(rows)
           txs == OfKey(rows, "height", i)
           hash == Ledger[i].transactions[k].hash
<1>1. rows \in Seq(S) /\ Len(txs) = Len(Ledger[i].transactions) /\ txs[k].hash = hash
  BY TransactionsMirrored
<1>2. Unique(rows, "hash")
  BY DEF Mirrors, Data
<1> HIDE DEF rows, S, hash
<1>3. PICK a \in 1 .. Len(rows) : rows[a]["height"] = i /\ txs[k] = rows[a]
  <2>1. \A m \in 1 .. Len(txs) : \E a \in 1 .. Len(rows) : rows[a]["height"] = i /\ txs[m] = rows[a]
    BY <1>1, OfKeyRows
  <2> HIDE DEF txs
  <2> QED
    BY <1>1, <2>1
<1>4. rows[a]["hash"] = hash
  BY <1>1, <1>3
<1>5. Known(rows, "hash", rows[a]["hash"]) /\ ByKey(rows, "hash", rows[a]["hash"]) = rows[a]
  BY <1>1, <1>2, ByKeyIs DEF Unique
<1>6. Known(rows, "hash", hash) /\ ByKey(rows, "hash", hash).height = i
  BY <1>3, <1>4, <1>5
<1> QED
  BY <1>6 DEF TransactionView, rows, hash

LEMMA HashesShown ==
  ASSUME NEW d, NEW h, Mirrors(d, h), NEW i \in 1 .. h
  PROVE  Pluck(OfKey(d.transaction, "height", i), "hash")
           = [k \in 1 .. Len(Ledger[i].transactions) |-> Ledger[i].transactions[k].hash]
<1> DEFINE rows == d.transaction
           S == Range(rows)
           txs == OfKey(rows, "height", i)
           n == Len(Ledger[i].transactions)
<1>1. rows \in Seq(S) /\ Len(txs) = n
      /\ \A k \in 1 .. n : txs[k].hash = Ledger[i].transactions[k].hash
  BY TransactionsMirrored
<1> HIDE DEF rows, S, n
<1>2. txs \in Seq(S)
  BY <1>1, OfKeyRows
<1> HIDE DEF txs
<1>3. DOMAIN txs = 1 .. n
  BY <1>1, <1>2
<1> QED
  BY <1>1, <1>3 DEF Pluck, txs, rows, n

(* The search is clamped to a block that there is.                                         *)
LEMMA SearchFinds ==
  ASSUME None \notin Int, NEW total \in Nat, total # 0, NEW value \in Int
  PROVE  /\ SearchBlockHeight(value, total) \in 1 .. total
         /\ value \in 1 .. total => SearchBlockHeight(value, total) = value
<1> DEFINE v == IF value > total THEN total ELSE value
<1>1. value # None /\ total # None
  OBVIOUS
<1>2. SearchBlockHeight(value, total) = Max({1, v})
  BY <1>1 DEF SearchBlockHeight
<1>3. v \in Int /\ v <= total /\ (value \in 1 .. total => v = value)
  OBVIOUS
<1> HIDE DEF v
<1>4. Max({1, v}) = IF 1 < v THEN v ELSE 1
  BY <1>3, GreatestOfTwo
<1> QED
  BY <1>2, <1>3, <1>4

LEMMA DialogsMirror ==
  ASSUME None \notin Int, Len(Ledger) \in Nat, NEW h, Mirrors(tables, h)
  PROVE  DialogsAgree
<1>1. /\ h \in Nat /\ Len(tables.block) = h /\ DOMAIN tables.block = 1 .. h
      /\ \A i \in 1 .. h : tables.block[i].height = i
  BY BlocksMirrored
<1>2. ASSUME NEW i \in 1 .. h, NEW view, view = BlockView(tables, i)
      PROVE  /\ Len(view.transactions) = view.txcount
             /\ \A hash \in Range(view.transactions) : TransactionView(tables, hash).blockHeight = i
             /\ view.transactions = Pluck(OfKey(tables.transaction, "height", i), "hash")
  <2> DEFINE txs == Ledger[i].transactions
             hashes == [k \in 1 .. Len(txs) |-> txs[k].hash]
  <2>1. view.txcount = Len(txs) /\ view.transactions = hashes
    <3>1. BlockView(tables, i) = [blocknum |-> i, txcount |-> Len(txs), transactions |-> hashes]
      BY BlockShown
    <3> HIDE DEF txs, hashes
    <3> QED
      BY <1>2, <3>1
  <2>2. Len(txs) \in Nat
    BY DEF Mirrors, BlockOK
  <2>3. ASSUME NEW hash \in Range(hashes) PROVE TransactionView(tables, hash).blockHeight = i
    <3>1. PICK k \in 1 .. Len(txs) : hash = txs[k].hash
      BY DEF Range
    <3> QED
      BY <3>1, TransactionShown
  <2>4. hashes = Pluck(OfKey(tables.transaction, "height", i), "hash")
    BY HashesShown
  <2>5. Len(hashes) = Len(txs)
    <3> HIDE DEF txs
    <3> QED
      BY <2>2
  <2> HIDE DEF hashes, txs
  <2> QED
    BY <2>1, <2>3, <2>4, <2>5
<1>3. ASSUME NEW b \in Range(tables.block)
      PROVE  LET view == BlockView(tables, b.height)
             IN  /\ Len(view.transactions) = view.txcount
                 /\ \A hash \in Range(view.transactions) :
                      TransactionView(tables, hash).blockHeight = b.height
                 /\ view.transactions
                      = Pluck(Where(tables.transaction, LAMBDA t : t.height = b.height), "hash")
  <2>1. PICK i \in 1 .. h : b.height = i
    BY <1>1 DEF Range
  <2> QED
    BY <1>2, <2>1 DEF OfKey
<1>4. ASSUME NEW t \in Range(tables.transaction), t.who # None
      PROVE  Known(tables.account, "id", t.who) /\ CreatedBy(tables, t).id = t.who
  <2> DEFINE rows == tables.account
             S == Range(rows)
  <2>1. PICK a \in 1 .. Len(tables.transaction) : t = tables.transaction[a]
    BY TransactionsMirrored DEF Range
  <2>2. Known(rows, "id", t.who)
    BY <1>4, <2>1 DEF Mirrors, Whole, CreatorKnown
  <2>3. rows \in Seq(S)
    <3>1. DbOK(tables) /\ "account" \in TableNames
      BY DEF Mirrors, Data, TableNames
    <3>2. tables["account"] \in Seq(Range(tables["account"]))
      BY <3>1, TableSeq
    <3> QED
      BY <3>2
  <2> HIDE DEF rows, S
  <2>4. ByKey(rows, "id", t.who)["id"] = t.who
    BY <2>2, <2>3, ByKeyFinds
  <2> QED
    BY <2>2, <2>4 DEF CreatedBy, rows
<1>5. ASSUME NEW total \in 1 .. Len(tables.block), NEW value \in -1 .. Len(Ledger) + 1
      PROVE  /\ Known(tables.block, "height", SearchBlockHeight(value, total))
             /\ value \in 1 .. total => SearchedBlock(tables, value, total).blocknum = value
  <2> DEFINE height == SearchBlockHeight(value, total)
  <2>1. total \in Nat /\ total # 0 /\ total <= h /\ value \in Int
    BY <1>1
  <2>2. height \in 1 .. total /\ (value \in 1 .. total => height = value)
    BY <2>1, SearchFinds
  <2> HIDE DEF height
  <2>3. height \in 1 .. h /\ height # None /\ total # None
    BY <1>1, <2>1, <2>2
  <2>4. Known(tables.block, "height", height) /\ BlockView(tables, height).blocknum = height
    BY <2>3, BlockShown
  <2>5. SearchedBlock(tables, value, total) = BlockView(tables, height)
    BY <2>3 DEF SearchedBlock, height
  <2> QED
    BY <2>2, <2>4, <2>5 DEF height
<1> QED
  BY <1>3, <1>4, <1>5 DEF DialogsAgree

-----------------------------------------------------------------------------
(* Roles and permissions.                                                                  *)

LEMMA AccountsKnown ==
  ASSUME NEW d, Data(d)
  PROVE  /\ d.account \in Seq(Range(d.account)) /\ DOMAIN d.account = 1 .. Len(d.account)
         /\ d.role \in Seq(Range(d.role)) /\ DOMAIN d.role = 1 .. Len(d.role)
         /\ Len(d.role) \in Nat
<1>1. DbOK(d) /\ "account" \in TableNames /\ "role" \in TableNames
  BY DEF Data, TableNames
<1>2. /\ d["account"] \in Seq(Range(d["account"])) /\ DOMAIN d["account"] = 1 .. Len(d["account"])
      /\ d["role"] \in Seq(Range(d["role"])) /\ DOMAIN d["role"] = 1 .. Len(d["role"])
      /\ Len(d["role"]) \in Nat
  BY <1>1, TableSeq
<1> QED
  BY <1>2

(* The role of a name is a row of the table, and of the first hundred if there are no more. *)
LEMMA RoleFound ==
  ASSUME NEW d, Data(d), NEW name \in Names(d)
  PROVE  /\ ByKey(d.role, "name", name) \in Range(d.role)
         /\ Len(d.role) <= 100 => ByKey(d.role, "name", name) \in Range(RolesView(d))
<1> DEFINE rows == d.role
           S == Range(rows)
           role == ByKey(rows, "name", name)
           first == FirstHundred(d["role"])
<1>1. rows \in Seq(S) /\ DOMAIN rows = 1 .. Len(rows) /\ Len(rows) \in Nat
  BY AccountsKnown
<1>2. Known(rows, "name", name)
  BY <1>1 DEF Names, Known
<1>3. DbOK(d)
  BY DEF Data
<1>4. /\ DOMAIN first = 1 .. Len(first)
      /\ Len(first) = IF 100 < Len(d["role"]) THEN 100 ELSE Len(d["role"])
      /\ \A i \in 1 .. Len(first) : first[i] = d["role"][i]
  <2> HIDE DEF rows, first
  <2> QED
    BY <1>3, HundredRows DEF first
<1>5. RolesView(d) = first /\ d["role"] = rows
  BY DEF RolesView
<1> HIDE DEF first, S, rows
<1>6. PICK a \in 1 .. Len(rows) : role = rows[a]
  <2> HIDE DEF role
  <2>1. \E a \in 1 .. Len(rows) : rows[a]["name"] = name /\ role = rows[a]
    BY <1>1, <1>2, ByKeyFinds DEF role
  <2> QED
    BY <2>1
<1> HIDE DEF role
<1>7. role \in Range(rows)
  BY <1>1, <1>6 DEF Range
<1>8. ASSUME Len(rows) <= 100 PROVE role \in Range(first)
  <2>1. Len(first) = Len(rows)
    BY <1>1, <1>4, <1>5, <1>8
  <2>2. a \in 1 .. Len(first) /\ DOMAIN first = 1 .. Len(first)
    BY <1>4, <1>6, <2>1
  <2>3. first[a] = role
    BY <1>4, <1>5, <1>6, <2>2
  <2> QED
    BY <2>2, <2>3 DEF Range
<1> QED
  BY <1>5, <1>7, <1>8 DEF role, rows

LEMMA RolesListed ==
  ASSUME NEW d, Data(d), Len(d.role) <= 100
  PROVE  /\ \A x \in Range(DomainsView(d)) : x.defaultRole \in Range(RolesView(d))
         /\ \A a \in Range(d.account) : Range(AccountRoles(d, a)) \subseteq Range(RolesView(d))
<1>1. ASSUME NEW x \in Range(DomainsView(d)) PROVE x.defaultRole \in Range(RolesView(d))
  <2> DEFINE rows == FirstHundred(d["domain"])
  <2>1. DbOK(d)
    BY DEF Data
  <2>2. /\ d["domain"] \in Seq(Range(d["domain"])) /\ rows \in Seq(Range(d["domain"]))
        /\ Len(rows) = IF 100 < Len(d["domain"]) THEN 100 ELSE Len(d["domain"])
        /\ DOMAIN rows = 1 .. Len(rows) /\ Len(d["domain"]) \in Nat
        /\ \A i \in 1 .. Len(rows) : rows[i] = d["domain"][i]
    <3> HIDE DEF rows
    <3> QED
      BY <2>1, HundredRows DEF rows
  <2>3. DomainsView(d) = [i \in DOMAIN rows |->
                            [id |-> rows[i].id, defaultRole |-> ByKey(d.role, "name", rows[i].role)]]
    BY DEF DomainsView
  <2> HIDE DEF rows
  <2>4. DOMAIN rows = 1 .. Len(rows) /\ 1 .. Len(rows) \subseteq 1 .. Len(d.domain)
    BY <2>2
  <2>5. PICK i \in 1 .. Len(rows) : x.defaultRole = ByKey(d.role, "name", rows[i].role)
    BY <2>3, <2>4 DEF Range
  <2>6. rows[i].role \in Names(d)
    BY <2>2, <2>4 DEF Data
  <2> QED
    BY <2>5, <2>6, RoleFound
<1>2. ASSUME NEW a \in Range(d.account) PROVE Range(AccountRoles(d, a)) \subseteq Range(RolesView(d))
  <2>1. a.roles \in Seq(Names(d))
    BY AccountsKnown DEF Range, Data, AccountData
  <2>2. \A i \in DOMAIN a.roles : a.roles[i] \in Names(d)
    BY <2>1
  <2>3. \A i \in DOMAIN a.roles : ByKey(d.role, "name", a.roles[i]) \in Range(RolesView(d))
    BY <2>2, RoleFound
  <2> QED
    BY <2>3 DEF AccountRoles, Range
<1> QED
  BY <1>1, <1>2

(* An account, found by its id.                                                            *)
LEMMA AccountShown ==
  ASSUME NEW d, Data(d), NEW a \in Range(d.account)
  PROVE  /\ ByKey(d.account, "id", a.id) = a
         /\ Known(d.account, "id", a.id)
<1> DEFINE rows == d.account
           S == Range(rows)
<1>1. rows \in Seq(S) /\ DOMAIN rows = 1 .. Len(rows)
  BY AccountsKnown
<1>2. Unique(rows, "id")
  BY DEF Data
<1>3. PICK j \in 1 .. Len(rows) : a = rows[j]
  BY <1>1 DEF Range
<1> HIDE DEF rows, S
<1>4. Known(rows, "id", rows[j]["id"]) /\ ByKey(rows, "id", rows[j]["id"]) = rows[j]
  BY <1>1, <1>2, ByKeyIs DEF Unique
<1> QED
  BY <1>3, <1>4 DEF rows

LEMMA GrantsShown ==
  ASSUME NEW d, Data(d), NEW a \in Range(d.account)
  PROVE  /\ Range(AccountView(d, a.id).permissionsGrantedTo) = {g \in Range(a.granted) : g.to = a.id}
         /\ Range(AccountView(d, a.id).permissionsGrantedBy) = {g \in Range(a.granted) : g.by = a.id}
<1> DEFINE given == a.granted
           S == Range(given)
           to == {g \in Range(given) : g.to = a.id}
           by == {g \in Range(given) : g.by = a.id}
<1>1. given \in Seq(S)
  BY AccountsKnown DEF Range, Data, AccountData
<1>2. /\ AccountView(d, a.id).permissionsGrantedTo = Select(given, to)
      /\ AccountView(d, a.id).permissionsGrantedBy = Select(given, by)
  BY AccountShown DEF AccountView, PermissionsGrantedTo, PermissionsGrantedBy, Where
<1> HIDE DEF given, S
<1>3. \A which : Range(Select(given, which)) = {g \in Range(given) : g \in which}
  BY <1>1, SelectRange
<1> QED
  BY <1>2, <1>3 DEF given

(* The permissions of a role, with its name.                                               *)
OfRole(r) == {[role |-> r.name, permission |-> p] : p \in r.permissions}

LEMMA OfRoleIs ==
  /\ \A r : \A rp \in OfRole(r) : rp.permission \in r.permissions
  /\ \A r : \A p \in r.permissions : \E rp \in OfRole(r) : rp.permission = p
<1>1. ASSUME NEW r, NEW rp \in OfRole(r) PROVE rp.permission \in r.permissions
  <2>1. PICK p \in r.permissions : rp = [role |-> r.name, permission |-> p]
    BY Zenon DEF OfRole
  <2> QED
    BY <2>1
<1>2. ASSUME NEW r, NEW p \in r.permissions PROVE \E rp \in OfRole(r) : rp.permission = p
  <2>1. [role |-> r.name, permission |-> p] \in OfRole(r)
    BY Zenon DEF OfRole
  <2>2. [role |-> r.name, permission |-> p].permission = p
    OBVIOUS
  <2> QED
    BY <2>1, <2>2
<1> QED
  BY <1>1, <1>2

LEMMA PermissionsMirror ==
  ASSUME Data(tables)
  PROVE  PermissionsAgree
<1>1. ASSUME NEW a \in Range(tables.account)
      PROVE  LET view == AccountView(tables, a.id)
             IN  /\ {rp.permission : rp \in view.rolePermissions} = AccountPermissions(tables, a)
                 /\ \A g \in Range(view.permissionsGrantedTo) :
                      g \in Range(AccountView(tables, g.by).permissionsGrantedBy)
  <2> DEFINE roles == AccountRoles(tables, a)
             all == UNION {OfRole(r) : r \in Range(roles)}
  <2>1. AccountView(tables, a.id).rolePermissions = all
    BY AccountShown DEF AccountView, OfRole
  <2>2. {rp.permission : rp \in all} = AccountPermissions(tables, a)
    <3>1. AccountPermissions(tables, a) = UNION {roles[i].permissions : i \in DOMAIN roles}
      BY DEF AccountPermissions, AccountRoles
    <3> HIDE DEF roles
    <3>4. ASSUME NEW p PROVE (\E rp \in all : p = rp.permission) <=> p \in AccountPermissions(tables, a)
      <4>1. (\E rp \in all : p = rp.permission) <=> \E r \in Range(roles) : \E rp \in OfRole(r) : p = rp.permission
        OBVIOUS
      <4>2. p \in AccountPermissions(tables, a) <=> \E i \in DOMAIN roles : p \in roles[i].permissions
        BY <3>1
      <4> QED
        BY OfRoleIs, <4>1, <4>2 DEF Range
    <3> HIDE DEF all
    <3> QED
      BY <3>4
  <2>3. ASSUME NEW g \in Range(AccountView(tables, a.id).permissionsGrantedTo)
        PROVE  g \in Range(AccountView(tables, g.by).permissionsGrantedBy)
    <3>1. g \in Range(a.granted) /\ g.to = a.id
      BY <2>3, GrantsShown
    <3>2. HoldsOf(tables, g)
      BY <3>1, AccountsKnown DEF Data, AccountData, Range
    <3>3. PICK j \in 1 .. Len(tables.account) :
            tables.account[j].id = g.by /\ g \in Range(tables.account[j].granted)
      BY <3>2 DEF HoldsOf
    <3> DEFINE b == tables.account[j]
    <3>4. b \in Range(tables.account) /\ b.id = g.by /\ g \in Range(b.granted)
      BY <3>3, AccountsKnown DEF Range
    <3> HIDE DEF b
    <3> QED
      BY <3>4, GrantsShown
  <2> QED
    BY <2>1, <2>2, <2>3
<1>2. Len(tables.role) <= 100 =>
        /\ \A x \in Range(DomainsView(tables)) : x.defaultRole \in Range(RolesView(tables))
        /\ \A a \in Range(tables.account) :
             Range(AccountRoles(tables, a)) \subseteq Range(RolesView(tables))
  BY RolesListed
<1> QED
  BY <1>1, <1>2 DEF PermissionsAgree

(* What the tables show is the same in every view.                                         *)
LEMMA TablesAgree ==
  ASSUME ListsAssumption, LedgerAssumption, TablesInv
  PROVE  IrohaViewsAgree
<1> DEFINE h == Len(tables.block)
<1>1. Mirrors(tables, h) /\ Data(tables)
  BY TablesMirror, TablesWhole
<1>2. None \notin Int /\ Len(Ledger) \in Nat
  BY DEF ListsAssumption
<1> HIDE DEF h
<1> QED
  BY <1>1, <1>2, SummariesMirror, DialogsMirror, PermissionsMirror DEF IrohaViewsAgree

(* The dashboard, the dialogs and the lists of the client say the same of the blocks that   *)
(* IrohaDb.applyBlock has put into the tables, whatever the reader does meanwhile.          *)
THEOREM ListsShowTheLedger == Spec => []IrohaViewsAgree
<1>1. Init => TablesInv
  BY ListsAssumption, TablesInit DEF Init
<1>2. TablesInv /\ [Next]_vars => TablesInv'
  BY ListsAssumption, LedgerAssumption, TablesStep
<1>3. TablesInv => IrohaViewsAgree
  BY ListsAssumption, LedgerAssumption, TablesAgree
<1> QED
  BY <1>1, <1>2, <1>3, PTL DEF Spec
=============================================================================
