----------------------------- MODULE IrohaLists -----------------------------
(***************************************************************************)
(* The Iroha database as readers see it: IrohaDb.applyBlock fills the      *)
(* tables, the GraphQL resolvers read them, and the lists of the client    *)
(* (Blocks, Transactions, AccountsView) page through them while blocks go  *)
(* on arriving.                                                            *)
(*                                                                         *)
(* A list keeps page, pages (the "after" of every page it knows of) and    *)
(* the variables of its query.  Without a filter it computes "after" from  *)
(* the page number (wholePaging); with one it remembers the nextAfter of   *)
(* every answer.  Apollo is external: it delivers the answer to the latest *)
(* variables only, and until then may hand the previous answer on again.   *)
(***************************************************************************)
EXTENDS Rows

CONSTANTS
  Ledger,      \* external: the blocks the Iroha node commits, in order
  PageSizes,   \* page sizes the reader may choose
  Filters,     \* filters the reader may set, by list
  MaxTurns,    \* bound on what the reader does
  None

Lists == {"block", "transaction", "account"}

ASSUME ListsAssumption ==
  /\ PageSizes \subseteq Nat \ {0}
  /\ PageSizes # {} /\ IsFiniteSet(PageSizes)
  /\ MaxTurns \in Nat
  /\ DOMAIN Filters = Lists
  /\ None \notin Int
  /\ Len(Ledger) \in Nat
  /\ \A h \in 1 .. Len(Ledger) :
       LET transactions == Ledger[h].transactions
       IN  /\ Len(transactions) \in Nat
           /\ \A i \in 1 .. Len(transactions) : Len(transactions[i].commands) \in Nat

VARIABLES
  tables,   \* the tables of the Iroha database
  list,     \* the list on the screen
  page, pages,
  query,    \* the variables of the latest request
  answer,   \* what the server has read for it: the list and the total, None until read
  loading,
  data,     \* the list as delivered last, and the variables it answers
  stale,    \* history: an answer to other variables has entered pages
  turns

clientVars == <<list, page, pages, query, loading, stale, turns>>
vars == <<tables, clientVars, answer, data>>

NoFilter == [timeAfter |-> None, timeBefore |-> None, who |-> None]

-----------------------------------------------------------------------------
(* IrohaDb.applyBlock: one database transaction per block.  The rows of a  *)
(* table are numbered from 1; commands that the node would not commit (an  *)
(* unknown domain, a name taken) do not occur.                             *)

NextIndex(rows) == Len(rows) + 1

InsertTransaction(db, tx, height, time) ==
  Append(db.transaction,
         [index |-> NextIndex(db.transaction), hash |-> tx.hash, who |-> tx.creator,
          domain |-> tx.domain, height |-> height, time |-> time])

\* The accounts of which Test holds, changed by Change.
UpdateAccounts(accounts, Test(_), Change(_)) ==
  [i \in DOMAIN accounts |-> IF Test(accounts[i]) THEN Change(accounts[i]) ELSE accounts[i]]

DefaultRole(db, domain) == Where(db.domain, LAMBDA d : d.id = domain)[1].role

CreateAccount(db, c) ==
  [db EXCEPT !.account =
     Append(@, [index |-> NextIndex(@), id |-> c.id, quorum |-> 1,
                roles |-> <<DefaultRole(db, c.domain)>>, granted |-> <<>>])]

SetAccountQuorum(db, c) ==
  [db EXCEPT !.account =
     UpdateAccounts(@, LAMBDA a : a.id = c.id, LAMBDA a : [a EXCEPT !.quorum = c.quorum])]

AddPeer(db, c) ==
  [db EXCEPT !.peer = Append(@, [index |-> NextIndex(@), key |-> c.key])]

CreateRole(db, c) ==
  [db EXCEPT !.role =
     Append(@, [index |-> NextIndex(@), name |-> c.name, permissions |-> c.permissions])]

CreateDomain(db, c) ==
  [db EXCEPT !.domain = Append(@, [index |-> NextIndex(@), id |-> c.id, role |-> c.role])]

\* ARRAY_APPEND, or ARRAY_REMOVE of every equal element.
Changed(array, x, append) ==
  IF append THEN Append(array, x) ELSE Where(array, LAMBDA y : y # x)

AppendOrDetachRole(db, c) ==
  [db EXCEPT !.account =
     UpdateAccounts(@, LAMBDA a : a.id = c.id,
                    LAMBDA a : [a EXCEPT !.roles = Changed(@, c.role, c.kind = "appendRole")])]

\* Both the account that grants and the one that is granted record it.
GrantOrRevoke(db, creator, c) ==
  LET g == [by |-> creator, to |-> c.to, permission |-> c.permission]
  IN  [db EXCEPT !.account =
         UpdateAccounts(@, LAMBDA a : a.id \in {g.by, g.to},
                        LAMBDA a : [a EXCEPT !.granted = Changed(@, g, c.kind = "grant")])]

ApplyCommand(db, creator, c) ==
  CASE c.kind = "createAccount" -> CreateAccount(db, c)
    [] c.kind = "setQuorum" -> SetAccountQuorum(db, c)
    [] c.kind = "addPeer" -> AddPeer(db, c)
    [] c.kind = "createRole" -> CreateRole(db, c)
    [] c.kind = "createDomain" -> CreateDomain(db, c)
    [] c.kind \in {"appendRole", "detachRole"} -> AppendOrDetachRole(db, c)
    [] c.kind \in {"grant", "revoke"} -> GrantOrRevoke(db, creator, c)
    [] OTHER -> db

\* The tables after n commands of a transaction, and after n transactions of a block.
AfterCommands(db, tx, height, time) ==
  LET after[n \in 0 .. Len(tx.commands)] ==
        IF n = 0 THEN [db EXCEPT !.transaction = InsertTransaction(db, tx, height, time)]
        ELSE ApplyCommand(after[n - 1], tx.creator, tx.commands[n])
  IN  after

ApplyTransaction(db, tx, height, time) ==
  AfterCommands(db, tx, height, time)[Len(tx.commands)]

AfterTransactions(db, block, height) ==
  LET after[n \in 0 .. Len(block.transactions)] ==
        IF n = 0 THEN [db EXCEPT !.block =
                         Append(@, [height |-> height, time |-> block.time,
                                    txcount |-> Len(block.transactions)])]
        ELSE ApplyTransaction(after[n - 1], block.transactions[n], height, block.time)
  IN  after

ApplyBlock(db, block, height) ==
  AfterTransactions(db, block, height)[Len(block.transactions)]

EmptyTables ==
  [block |-> <<>>, transaction |-> <<>>, account |-> <<>>, peer |-> <<>>, role |-> <<>>,
   domain |-> <<>>]

\* A row has k in its column key.
Known(rows, key, k) == \E i \in DOMAIN rows : rows[i][key] = k

\* The tables after the first h blocks of the ledger.
TablesAfter ==
  LET after[h \in 0 .. Len(Ledger)] ==
        IF h = 0 THEN EmptyTables ELSE ApplyBlock(after[h - 1], Ledger[h], h)
  IN  after

\* External: what the node checks of a command before it commits it.
Accepted(db, creator, c) ==
  /\ c.kind = "createAccount" => ~Known(db.account, "id", c.id) /\ Known(db.domain, "id", c.domain)
  /\ c.kind \in {"createDomain", "appendRole"} => Known(db.role, "name", c.role)
  /\ c.kind = "grant" => Known(db.account, "id", creator)

\* The blocks that the node commits: no transaction twice, each by nobody or by an account that
\* the block leaves behind (the genesis block creates its own), and accepted commands only.
ASSUME LedgerAssumption ==
  \A h \in 1 .. Len(Ledger) :
    LET block == Ledger[h]
        before == AfterTransactions(TablesAfter[h - 1], block, h)
    IN  /\ block.time \in Nat \ {0}
        /\ DOMAIN block.transactions = 1 .. Len(block.transactions)
        /\ \A i \in 1 .. Len(block.transactions) :
             LET tx == block.transactions[i]
                 at == AfterCommands(before[i - 1], tx, h, block.time)
             IN  /\ ~Known(before[i - 1].transaction, "hash", tx.hash)
                 /\ tx.creator # None => Known(TablesAfter[h].account, "id", tx.creator)
                 /\ \A n \in 1 .. Len(tx.commands) : Accepted(at[n - 1], tx.creator, tx.commands[n])

-----------------------------------------------------------------------------
(* The paged lists.  A query has after, count and a filter.                *)

After(q) == IF q.after = None THEN 0 ELSE q.after

InTime(row, f) ==
  /\ f.timeAfter # None => row.time >= f.timeAfter
  /\ f.timeBefore # None => row.time < f.timeBefore

\* nextAfter is after plus the number of items, whatever the filter leaves out.
BlockList(db, q) ==
  LET which == {b \in Range(db.block) : b.height > After(q) /\ InTime(b, q.filter)}
      items == Limit(Select(db.block, which), q.count)
  IN  [items |-> items, nextAfter |-> After(q) + Len(items)]

\* blockList with reverse and no after: the last blocks, the latest first.
LastBlocks(db, count) == Limit(Reverse(db.block), count)

\* nextAfter is the index of the last item.
IndexNextAfter(items, q) == IF items = <<>> THEN After(q) ELSE Last(items).index

TransactionList(db, q) ==
  LET which == {t \in Range(db.transaction) :
                  /\ t.index > After(q)
                  /\ InTime(t, q.filter)
                  /\ q.filter.who # None => t.who = q.filter.who}
      items == Limit(Select(db.transaction, which), q.count)
  IN  [items |-> items, nextAfter |-> IndexNextAfter(items, q)]

\* The search for a part of the id is a search for an id here.
AccountList(db, q) ==
  LET which == {a \in Range(db.account) :
                  a.index > After(q) /\ (q.filter.who # None => a.id = q.filter.who)}
      items == Limit(Select(db.account, which), q.count)
  IN  [items |-> items, nextAfter |-> IndexNextAfter(items, q)]

\* Peers, roles and domains have no filter; nextAfter trusts that no index is missing.
PagedList(rows, q) ==
  LET items == Limit(Select(rows, {r \in Range(rows) : r.index > After(q)}), q.count)
  IN  [items |-> items, nextAfter |-> After(q) + Len(items)]

ReadList(db, l, q) ==
  CASE l = "block" -> BlockList(db, q)
    [] l = "transaction" -> TransactionList(db, q)
    [] l = "account" -> AccountList(db, q)
    [] OTHER -> PagedList(db[l], q)

\* byKeys: one answer per key, null for a key without a row.
ByKey(rows, key, k) ==
  LET found == Where(rows, LAMBDA r : r[key] = k)
  IN  IF found = <<>> THEN None ELSE Last(found)

-----------------------------------------------------------------------------
(* Counts, histograms and the resolvers above them.                        *)

\* One number per bucket of the last count units.  A block created at the very start of
\* the first bucket is left out (created_time > after).
CountPerBucket(db, what, unit, count, now) ==
  LET after == Trunc(now, unit) - (count - 1) * unit
  IN  [i \in 1 .. count |->
        SumOf([b \in DOMAIN db.block |->
          IF /\ Trunc(db.block[b].time, unit) = after + (i - 1) * unit
             /\ db.block[b].time > after
          THEN IF what = "block" THEN 1 ELSE db.block[b].txcount
          ELSE 0])]

TransactionCountPerDomain(db) ==
  {[domain |-> d, count |-> Len(Where(db.transaction, LAMBDA t : t.domain = d))] :
     d \in {db.transaction[i].domain : i \in DOMAIN db.transaction}}

\* Block.transactions and Block.transactionCount are read from the block itself.
BlockTransactions(height) == Ledger[height].transactions

\* Transaction.createdBy and Account.roles go through the loaders.
CreatedBy(db, t) == ByKey(db.account, "id", t.who)

AccountRoles(db, a) == [i \in DOMAIN a.roles |-> ByKey(db.role, "name", a.roles[i])]

AccountPermissions(db, a) ==
  UNION {AccountRoles(db, a)[i].permissions : i \in DOMAIN a.roles}

PermissionsGrantedBy(a) == Where(a.granted, LAMBDA g : g.by = a.id)

PermissionsGrantedTo(a) == Where(a.granted, LAMBDA g : g.to = a.id)

\* Prometheus: the four counts of one answer of the database.
ReadFromDb(db) ==
  [blocks |-> Len(db.block), transactions |-> Len(db.transaction),
   accounts |-> Len(db.account), peers |-> Len(db.peer)]

-----------------------------------------------------------------------------
(* The other views of the client, each a query of its own.                 *)

Pluck(rows, f) == [i \in DOMAIN rows |-> rows[i][f]]

DashStats(db) ==
  LET counts == ReadFromDb(db)
  IN  [latestBlock |-> counts.blocks, txCount |-> counts.transactions,
       peerCount |-> counts.peers, accountCount |-> counts.accounts]

\* OrgPieChart: the domains take the place of the organisations.
OrgData(db) ==
  {[name |-> d.domain, value |-> d.count] : d \in TransactionCountPerDomain(db)}

\* ChartStats: the bar of a bucket is labelled with a time of its own.
ChartSeries(counts, unit, now) ==
  [i \in DOMAIN counts |-> [datetime |-> now - unit * (Len(counts) - i), count |-> counts[i]]]

\* ChartStats: minutes and hours, of blocks and of transactions.
ChartStats(db, minutes, hours, now) ==
  [blockPerMin |-> ChartSeries(CountPerBucket(db, "block", 1, minutes, now), 1, now),
   blockPerHour |-> ChartSeries(CountPerBucket(db, "block", 2, hours, now), 2, now),
   transactionPerMin |-> ChartSeries(CountPerBucket(db, "transaction", 1, minutes, now), 1, now),
   transactionPerHour |-> ChartSeries(CountPerBucket(db, "transaction", 2, hours, now), 2, now)]

\* TimelineStream: the last three blocks.
Notifications(db) ==
  LET blocks == LastBlocks(db, 3)
  IN  [i \in DOMAIN blocks |-> [title |-> blocks[i].height, txcount |-> blocks[i].txcount]]

\* PeersHealth, RolesView, DomainsView: one page of a hundred.
FirstHundred(rows) == PagedList(rows, [after |-> None, count |-> 100]).items

PeerStatus(db) == FirstHundred(db.peer)

RolesView(db) == FirstHundred(db.role)

DomainsView(db) ==
  LET rows == FirstHundred(db.domain)
  IN  [i \in DOMAIN rows |->
        [id |-> rows[i].id, defaultRole |-> ByKey(db.role, "name", rows[i].role)]]

\* The dialogs: a block by its height, a transaction by its hash, an account by its id.
BlockView(db, height) ==
  IF ~Known(db.block, "height", height) THEN None
  ELSE [blocknum |-> height, txcount |-> ByKey(db.block, "height", height).txcount,
        transactions |-> Pluck(BlockTransactions(height), "hash")]

\* A transaction without a creator (only the genesis block may hold one) makes the view fail.
TransactionView(db, hash) ==
  LET t == ByKey(db.transaction, "hash", hash)
  IN  IF ~Known(db.transaction, "hash", hash) THEN None
      ELSE [txhash |-> hash, blockHeight |-> t.height, creator |-> CreatedBy(db, t).id]

AccountView(db, id) ==
  LET a == ByKey(db.account, "id", id)
  IN  IF ~Known(db.account, "id", id) THEN None
      ELSE [quorum |-> a.quorum,
            rolePermissions |-> UNION {{[role |-> r.name, permission |-> p] : p \in r.permissions} :
                                         r \in Range(AccountRoles(db, a))},
            permissionsGrantedBy |-> PermissionsGrantedBy(a),
            permissionsGrantedTo |-> PermissionsGrantedTo(a)]

\* What is typed into the search for a block, clamped to the total known at that moment
\* (None for what is no number, or before the total is known).
SearchBlockHeight(value, total) ==
  IF value = None THEN None
  ELSE Max({1, IF total # None /\ value > total THEN total ELSE value})

\* The button beside it, which opens the dialog of that block.
SearchedBlock(db, value, total) ==
  LET height == SearchBlockHeight(value, total)
  IN  IF total = None \/ height = None THEN None ELSE BlockView(db, height)

-----------------------------------------------------------------------------
(* The list on the screen.                                                 *)

NoAnswer == [list |-> None, total |-> None]

WholePaging == query.filter = NoFilter

Total == IF data = None THEN None ELSE data.total

\* The number of pages the table offers.
Pages ==
  IF ~WholePaging THEN Len(pages)
  ELSE IF Total = None THEN 1
  ELSE (Total + query.count - 1) \div query.count

PageToAfter(p, count) == IF WholePaging THEN p * count ELSE pages[p + 1]

Num(after) == IF after = None THEN 0 ELSE after

\* componentWillReceiveProps with an answer d.
Received(known, d) ==
  IF d # None /\ Num(Last(known)) < d.nextAfter THEN Append(known, d.nextAfter) ELSE known

Init ==
  /\ tables = EmptyTables
  /\ list \in Lists
  /\ page = 0
  /\ pages = <<None>>
  /\ query = [after |-> None, count |-> Max(PageSizes), filter |-> NoFilter]
  /\ answer = NoAnswer
  /\ loading = TRUE
  /\ data = None
  /\ stale = FALSE
  /\ turns = 0

Refetch(q) ==
  /\ query' = q
  /\ answer' = NoAnswer
  /\ loading' = TRUE

\* The sync service applies the next block.
Apply ==
  /\ Len(tables.block) < Len(Ledger)
  /\ LET height == Len(tables.block) + 1
     IN  tables' = ApplyBlock(tables, Ledger[height], height)
  /\ UNCHANGED <<clientVars, answer, data>>

\* The server resolves the two fields of the latest request, each with a statement of its own.
AnswerList ==
  /\ loading /\ answer.list = None
  /\ answer' = [answer EXCEPT !.list = ReadList(tables, list, query)]
  /\ UNCHANGED <<tables, clientVars, data>>

AnswerTotal ==
  /\ loading /\ answer.total = None
  /\ answer' = [answer EXCEPT !.total = Len(tables[list])]
  /\ UNCHANGED <<tables, clientVars, data>>

Deliver ==
  /\ answer.list # None /\ answer.total # None
  /\ data' = [query |-> query, total |-> answer.total,
               items |-> answer.list.items, nextAfter |-> answer.list.nextAfter]
  /\ pages' = Received(pages, data')
  /\ answer' = NoAnswer
  /\ loading' = FALSE
  /\ UNCHANGED <<tables, list, page, query, stale, turns>>

\* External: while a request is under way Apollo hands the previous answer on again, with
\* the new variables.
Rerender ==
  /\ loading
  /\ pages' = Received(pages, data)
  /\ stale' = (stale \/ pages' # pages)
  /\ UNCHANGED <<tables, list, page, query, answer, loading, data, turns>>

Turn == turns < MaxTurns /\ turns' = turns + 1

OnPageChange ==
  /\ Turn
  /\ \E p \in 0 .. Pages - 1 :
       /\ page' = p
       /\ Refetch([query EXCEPT !.after = PageToAfter(p, query.count)])
  /\ UNCHANGED <<tables, list, pages, data, stale>>

\* The table proposes the page on which the first row of the present one will be.
OnPageSizeChange ==
  /\ Turn
  /\ \E count \in PageSizes \ {query.count} :
       LET p == (page * query.count) \div count
       IN  IF WholePaging
           THEN /\ page' = p
                /\ Refetch([query EXCEPT !.after = PageToAfter(p, count), !.count = count])
                /\ UNCHANGED <<pages, stale>>
           ELSE /\ page' = 0
                /\ pages' = <<None>>
                /\ stale' = FALSE
                /\ Refetch([query EXCEPT !.after = None, !.count = count])
  /\ UNCHANGED <<tables, list, data>>

OnFilterChangeKeepingPages ==
  /\ Turn
  /\ \E f \in (Filters[list] \cup {NoFilter}) \ {query.filter} :
       /\ page' = 0
       /\ stale' = FALSE
       /\ Refetch([query EXCEPT !.after = None, !.filter = f])
  /\ UNCHANGED <<tables, list, pages, data>>

\* timeRangeOnChange, creatorIdOnChange, idPartOnChange.
OnFilterChange ==
  /\ Turn
  /\ \E f \in (Filters[list] \cup {NoFilter}) \ {query.filter} :
       /\ page' = 0
       /\ pages' = <<None>>
       /\ stale' = FALSE
       /\ Refetch([query EXCEPT !.after = None, !.filter = f])
  /\ UNCHANGED <<tables, list, data>>

Next ==
  \/ Apply \/ AnswerList \/ AnswerTotal \/ Deliver \/ Rerender
  \/ OnPageChange \/ OnPageSizeChange \/ OnFilterChange

Spec == Init /\ [][Next]_vars

-----------------------------------------------------------------------------
(* Properties.                                                             *)

TypeOK ==
  /\ list \in Lists
  /\ page \in Nat
  /\ pages # <<>> /\ \A i \in DOMAIN pages : pages[i] = None <=> i = 1
  /\ query.count \in PageSizes
  /\ query.after \in Nat \cup {None}
  /\ loading \in BOOLEAN /\ stale \in BOOLEAN
  /\ answer # NoAnswer => loading
  /\ ~loading => data.query = query
  /\ turns \in 0 .. MaxTurns

\* The rows a list is about, with the key that "after" is compared with.
Key(row) == IF list = "block" THEN row.height ELSE row.index

Kept(l, f) == ReadList(tables, l, [after |-> None, count |-> Len(tables[l]), filter |-> f]).items

\* What the tests of graphql.test.ts say of two pages of one row, for every list, filter and
\* page: the page at nextAfter follows without a gap or a repetition.  Blocks with a time
\* range are left out, their nextAfter repeats rows.
PagesFollow ==
  \A l \in DOMAIN tables : \A f \in {NoFilter} \cup (IF l \in {"transaction", "account"} THEN Filters[l] ELSE {}) :
    \A n \in PageSizes : \A k \in 0 .. Len(Kept(l, f)) :
      LET Read(after, count) == ReadList(tables, l, [after |-> after, count |-> count, filter |-> f])
          first == Read(None, k)
          second == Read(first.nextAfter, n)
      IN  /\ first.items \o second.items = Limit(Kept(l, f), k + n)
          /\ f = NoFilter => Kept(l, f) = tables[l]

\* Without a filter the page on the screen holds the rows its number says, in order (an
\* account may have changed since).
WholePageExact ==
  WholePaging /\ ~loading =>
    \A i \in DOMAIN data.items :
      Key(data.items[i]) = Key(tables[list][page * query.count + i])

\* With a filter no row falls between two pages the table offers, unless an answer to other
\* variables has entered pages.
NoRowBetweenPages ==
  ~WholePaging /\ ~stale =>
    \A k \in 1 .. Len(pages) - 1 :
      Cardinality({r \in Range(Kept(list, query.filter)) :
                     Num(pages[k]) < Key(r) /\ Key(r) <= pages[k + 1]}) <= query.count

\* Whoever reads a list page by page while blocks arrive, page sizes and filters change and
\* answers come late, misses no row.
PagingLosesNothing == PagesFollow /\ WholePageExact /\ NoRowBetweenPages

\* The dashboard's numbers, chart and timeline are about the same blocks.
SummariesAgree ==
  LET stats == DashStats(tables)
      now == Max({1} \cup {b.time : b \in Range(tables.block)})
      charts == ChartStats(tables, now + 1, now + 1, now)
      latest == Notifications(tables)
  IN  /\ SumOf(Pluck(tables.block, "txcount")) = stats.txCount
      /\ SumOf(Pluck(SetToSeq(OrgData(tables)), "value")) = stats.txCount
      /\ \A c \in {"blockPerMin", "blockPerHour"} :
           SumOf(Pluck(charts[c], "count")) = stats.latestBlock
      /\ \A c \in {"transactionPerMin", "transactionPerHour"} :
           SumOf(Pluck(charts[c], "count")) = stats.txCount
      /\ \A i \in DOMAIN charts.blockPerMin :
           charts.blockPerMin[i].count =
             Len(Where(tables.block, LAMBDA b : b.time = charts.blockPerMin[i].datetime))
      /\ Len(latest) = Min({3, stats.latestBlock})
      /\ \A i \in DOMAIN latest : latest[i].title = stats.latestBlock + 1 - i
      /\ Len(PeerStatus(tables)) = Min({100, stats.peerCount})

\* A block's dialog and the dialogs of its transactions refer to each other, and a search
\* finds a block whatever is typed, also when the total it is clamped to is out of date.
DialogsAgree ==
  /\ \A b \in Range(tables.block) :
       LET view == BlockView(tables, b.height)
       IN  /\ Len(view.transactions) = view.txcount
           /\ \A h \in Range(view.transactions) : TransactionView(tables, h).blockHeight = b.height
           /\ view.transactions
                = Pluck(Where(tables.transaction, LAMBDA t : t.height = b.height), "hash")
  /\ \A t \in Range(tables.transaction) : t.who # None =>
       /\ Known(tables.account, "id", t.who)
       /\ CreatedBy(tables, t).id = t.who
  /\ \A total \in 1 .. Len(tables.block) : \A value \in -1 .. Len(Ledger) + 1 :
       /\ Known(tables.block, "height", SearchBlockHeight(value, total))
       /\ value \in 1 .. total => SearchedBlock(tables, value, total).blocknum = value

\* Roles and permissions: what an account has, the lists know (as far as they go); a permission
\* shows on both sides.
PermissionsAgree ==
  /\ Len(tables.role) <= 100 =>
       /\ \A d \in Range(DomainsView(tables)) : d.defaultRole \in Range(RolesView(tables))
       /\ \A a \in Range(tables.account) :
            Range(AccountRoles(tables, a)) \subseteq Range(RolesView(tables))
  /\ \A a \in Range(tables.account) :
       LET view == AccountView(tables, a.id)
       IN  /\ {rp.permission : rp \in view.rolePermissions} = AccountPermissions(tables, a)
           /\ \A g \in Range(view.permissionsGrantedTo) :
                g \in Range(AccountView(tables, g.by).permissionsGrantedBy)

\* What different views say of the same blocks agrees.
IrohaViewsAgree == SummariesAgree /\ DialogsAgree /\ PermissionsAgree
=============================================================================
