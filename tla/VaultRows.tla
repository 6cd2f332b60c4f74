------------------------------ MODULE VaultRows ------------------------------
(***************************************************************************)
(* The write path of Storage down to the rows: what a run of storeItems    *)
(* does to the accounts, balances, bookings and standing orders of a file, *)
(* record by record, and what a crash, a full disk or a refused statement  *)
(* leaves behind.                                                          *)
(*                                                                         *)
(* One run is out at a time (StorageRuns).  It works in a transaction of   *)
(* its own connection, so that the rest of the program sees `file' and not *)
(* `draft'.  A run that carries accounts is the exception: every account   *)
(* is a transaction of its own.                                            *)
(*                                                                         *)
(* The bank stands outside: it posts bookings, corrects them, and reports  *)
(* whatever standing orders it holds.                                      *)
(***************************************************************************)
EXTENDS Integers, Sequences, FiniteSets

CONSTANTS
  Accounts,      \* unique ids of the accounts of the bank
  Bookings,      \* bookings, told apart by their hash
  AccountOf,     \* the account a booking belongs to
  DayOf,         \* its date, or its valuta date where it has none
  Lead,          \* fetchLeadDays
  Identifiers,   \* identifiers an institution gives its standing orders
  NoId,          \* the empty identifier
  Fingerprints,  \* fingerprints of standing orders
  MaxOrders,     \* bound: standing orders of a run
  MaxRuns        \* bound: runs

ASSUME BankAssumption ==
  /\ IsFiniteSet(Accounts) /\ IsFiniteSet(Bookings)
  /\ AccountOf \in [Bookings -> Accounts]
  /\ DayOf \in [Bookings -> Nat]
  /\ Lead \in Nat
ASSUME IdentifierAssumption == NoId \notin Identifiers
ASSUME BoundAssumption == MaxOrders \in Nat /\ MaxRuns \in Nat

VARIABLES
  accounts,   \* unique ids in the order of their rows; the row id is the place
  active,     \* the accounts the user keeps
  balances,   \* by row id: whose figure it is, and whether a fetch brought it
  held,       \* the bookings of the transactions table
  orders,     \* the rows of standing_orders
  run,        \* the run of writeItems that is out
  at,         \* the record it handles next
  stored,     \* the rows it counted
  draftHeld, draftOrders,  \* held and orders as its transaction sees them
  touched,    \* touchedStandingOrders
  told        \* the count the last run reported

\* The bank, and what the properties remember: the newest day ever posted, by
\* account; the bookings the bank held at the fetches whose run was stored; the
\* accounts whose balance a fetch stored.
VARIABLES posted, horizon, due, figured, runs

tables == <<accounts, active, balances, held, orders>>
inner == <<draftHeld, draftOrders, touched, at, stored>>
bank == <<posted, horizon>>
truth == <<due, figured, runs>>
vars == <<tables, run, inner, told, bank, truth>>

-----------------------------------------------------------------------------
(* Rows.                                                                   *)

Order == [fi : Identifiers \cup {NoId}, fp : Fingerprints]
OrderRow == [of : Accounts, fi : Identifiers \cup {NoId}, fp : Fingerprints, ended : BOOLEAN]
Written(a, o) == [of |-> a, fi |-> o.fi, fp |-> o.fp, ended |-> FALSE]
Ended(r) == [of |-> r.of, fi |-> r.fi, fp |-> r.fp, ended |-> TRUE]

RowsOf(a, rows) == {r \in rows : r.of = a}
Live(rows) == {r \in rows : ~r.ended}
SamePrint(o, rows) == {r \in rows : r.fp = o.fp}
SameId(a, o, rows) == {r \in RowsOf(a, rows) : o.fi # NoId /\ r.fi = o.fi}

(* A run: of one kind and for one account, except where it carries accounts. *)
(* chosen belongs to the wizard, succeeded to a fetch of standing orders,   *)
(* holds is what the bank held when the bookings were fetched.              *)
Request(kind, of, items, chosen, succeeded, holds) ==
  [kind |-> kind, of |-> of, items |-> items, chosen |-> chosen,
   succeeded |-> succeeded, holds |-> holds]

NoRun == [kind |-> "none"]

-----------------------------------------------------------------------------
(* Standing orders.                                                        *)

(* Mutation: only the fingerprint is looked for.                           *)
ExistingByPrint(a, o, rows) == SamePrint(o, RowsOf(a, rows))

(* existingStandingOrderOn: no row or one row.                             *)
ExistingStandingOrder(a, o, rows) ==
  LET same == SameId(a, o, rows)
  IN  IF \E r \in same : same = {r} THEN same
      ELSE IF SamePrint(o, same) # {} THEN SamePrint(o, same)
      ELSE SamePrint(o, RowsOf(a, rows))

(* The unique index over account and fingerprint has the last word: an     *)
(* update must not give a row the fingerprint of another one.              *)
IndexRefuses(a, o, rows) ==
  \E r \in rows \ ExistingStandingOrder(a, o, rows) : r.of = a /\ r.fp = o.fp

(* storeStandingOrderOn: inserted or written over whole, the mark going    *)
(* with it.                                                                *)
StoreOrder(a, o, rows) ==
  (rows \ ExistingStandingOrder(a, o, rows)) \cup {Written(a, o)}

TouchOrder(a, o, rows, rowsTouched) ==
  (rowsTouched \ ExistingStandingOrder(a, o, rows)) \cup {Written(a, o)}

(* Mutation: what the driver says of a statement that is no insert.        *)
CountUnclamped(a, o, rows) == IF ExistingStandingOrder(a, o, rows) = {} THEN 1 ELSE 0 - 1

CountOfOrder(a, o, rows) == IF ExistingStandingOrder(a, o, rows) = {} THEN 1 ELSE 0

(* markEndedStandingOrdersOn                                               *)
MarkEnded(a, rows, rowsTouched) ==
  {IF r.of = a /\ r \notin rowsTouched THEN Ended(r) ELSE r : r \in rows}

(* Mutation: a run that was cut short marks as well.                       *)
MarksAlways(r) == r.kind = "orders"

MarksEnded(r) == r.kind = "orders" /\ r.succeeded

-----------------------------------------------------------------------------
(* Accounts and balances.                                                  *)

(* accountIdOfOn                                                           *)
AccountId(a, rows) == CHOOSE id \in DOMAIN rows : rows[id] = a

IsStored(a) == \E id \in DOMAIN accounts : accounts[id] = a

(* accountInsertQuery                                                      *)
UpsertAccount(a, rows) == IF \E id \in DOMAIN rows : rows[id] = a THEN rows ELSE Append(rows, a)

Figure(a, fetched) == [of |-> a, fetched |-> fetched]
WithBalance(id, figure) ==
  [i \in DOMAIN balances \cup {id} |-> IF i = id THEN figure ELSE balances[i]]

(* Mutation: the account path writes like a fetch.                         *)
PlaceholderAlways(id) == TRUE

(* placeholderBalanceInsertQuery: it only replaces its own kind.           *)
PlaceholderGoesIn(id) == id \in DOMAIN balances => ~balances[id].fetched

-----------------------------------------------------------------------------
(* The starting point of a fetch.                                          *)

DaysOf(a, bookings) == {DayOf[b] : b \in {c \in bookings : AccountOf[c] = a}}

(* latestTransactionDate, or -1 where the account has no booking.          *)
LatestTransactionDate(a) ==
  LET days == DaysOf(a, held)
  IN  IF days = {} THEN -1 ELSE CHOOSE d \in days : \A e \in days : e <= d

(* appendFetchCommands, and a bank that delivers from that day on.         *)
Delivered(a) ==
  LET latest == LatestTransactionDate(a)
  IN  {b \in posted : AccountOf[b] = a /\ (latest = -1 \/ DayOf[b] >= latest - Lead)}

(* The elements of a finite set, one after the other.                      *)
Orderings(S) == {s \in [1..Cardinality(S) -> S] : \A x \in S : \E i \in DOMAIN s : s[i] = x}

-----------------------------------------------------------------------------
Init ==
  /\ accounts = <<>> /\ active = {} /\ balances = <<>> /\ held = {} /\ orders = {}
  /\ run = NoRun /\ at = 1 /\ stored = 0 /\ draftHeld = {} /\ draftOrders = {} /\ touched = {}
  /\ told = 0
  /\ posted = {} /\ horizon = [a \in Accounts |-> 0]
  /\ due = {} /\ figured = {} /\ runs = 0

(* The bank posts a booking, at most Lead days behind the newest one it    *)
(* has posted on that account.                                             *)
Posts(b) ==
  /\ b \notin posted /\ DayOf[b] >= horizon[AccountOf[b]] - Lead
  /\ horizon' = [horizon EXCEPT ![AccountOf[b]] = IF DayOf[b] > @ THEN DayOf[b] ELSE @]
  /\ UNCHANGED <<tables, run, inner, told, truth>>

Post(b) == Posts(b) /\ posted' = posted \cup {b}

(* A correction: what was posted is replaced by a booking of another hash. *)
Correct(b, c) ==
  /\ b \in posted /\ AccountOf[b] = AccountOf[c]
  /\ Posts(c) /\ posted' = (posted \ {b}) \cup {c}

(* storeItems: the run goes out, and the bracket of a run without accounts *)
(* opens over the rows as they are.                                        *)
Begins(r) ==
  /\ run = NoRun /\ runs < MaxRuns
  /\ run' = r /\ runs' = runs + 1
  /\ at' = 1 /\ stored' = 0
  /\ draftHeld' = held /\ draftOrders' = orders /\ touched' = {} /\ told' = 0
  /\ UNCHANGED <<tables, bank, due, figured>>

(* The result of the setup wizard: what it offered, and what was chosen.   *)
BeginAccounts ==
  \E offered \in SUBSET Accounts \ {{}} : \E items \in Orderings(offered), chosen \in SUBSET offered :
    Begins(Request("accounts", "all", items, chosen, FALSE, {}))

BeginBookings(a) ==
  /\ IsStored(a) /\ Delivered(a) # {}
  /\ \E items \in Orderings(Delivered(a)) :
       Begins(Request("bookings", a, items, {}, FALSE, {b \in posted : AccountOf[b] = a}))

BeginBalance(a) == IsStored(a) /\ Begins(Request("balance", a, <<a>>, {}, FALSE, {}))

(* A fetch of standing orders, which may have been cut short.  Without an  *)
(* order only a fetch that went through reaches the storage.               *)
BeginOrders(a) ==
  /\ IsStored(a)
  /\ \E n \in 0..MaxOrders : \E items \in [1..n -> Order], succeeded \in BOOLEAN :
       /\ n = 0 => succeeded
       /\ Begins(Request("orders", a, items, {}, succeeded, {}))

-----------------------------------------------------------------------------
(* One record after the other.                                             *)

Handles(kind) == run.kind = kind /\ at <= Len(run.items)
Item == run.items[at]
Counted(n) == at' = at + 1 /\ stored' = stored + n

(* storeAccountOn: the account, whether it is kept, and a placeholder for  *)
(* its balance, in a transaction of their own.                             *)
StoreAccount ==
  /\ Handles("accounts")
  /\ accounts' = UpsertAccount(Item, accounts)
  /\ active' = IF Item \in run.chosen THEN active \cup {Item} ELSE active \ {Item}
  /\ LET id == AccountId(Item, accounts')
     IN  balances' = IF PlaceholderGoesIn(id) THEN WithBalance(id, Figure(Item, FALSE))
                     ELSE balances
  /\ Counted(1)
  /\ UNCHANGED <<held, orders, run, draftHeld, draftOrders, touched, told, bank, truth>>

(* transactionInsertQuery passes over a hash that is there.                *)
StoreBooking ==
  /\ Handles("bookings")
  /\ draftHeld' = draftHeld \cup {Item}
  /\ Counted(IF Item \in draftHeld THEN 0 ELSE 1)
  /\ UNCHANGED <<tables, run, draftOrders, touched, told, bank, truth>>

StoreStandingOrder ==
  /\ Handles("orders")
  /\ ~IndexRefuses(run.of, Item, draftOrders)
  /\ draftOrders' = StoreOrder(run.of, Item, draftOrders)
  /\ touched' = TouchOrder(run.of, Item, draftOrders, touched)
  /\ Counted(CountOfOrder(run.of, Item, draftOrders))
  /\ UNCHANGED <<tables, run, draftHeld, told, bank, truth>>

-----------------------------------------------------------------------------
(* The end of a run.                                                       *)

Ends(count) ==
  /\ run' = NoRun /\ told' = count
  /\ at' = 1 /\ stored' = 0 /\ draftHeld' = {} /\ draftOrders' = {} /\ touched' = {}
  /\ UNCHANGED <<bank, runs>>

(* storeFetchedBalanceOn and the commit of a run of this one record.       *)
StoreBalance ==
  /\ Handles("balance")
  /\ balances' = WithBalance(AccountId(Item, accounts), Figure(Item, TRUE))
  /\ figured' = figured \cup {Item}
  /\ Ends(1)
  /\ UNCHANGED <<accounts, active, held, orders, due>>

(* A run of accounts has nothing left to commit.                           *)
CommitAccounts ==
  /\ run.kind = "accounts" /\ at > Len(run.items)
  /\ Ends(stored)
  /\ UNCHANGED <<tables, due, figured>>

CommitBookings ==
  /\ run.kind = "bookings" /\ at > Len(run.items)
  /\ held' = draftHeld /\ due' = due \cup run.holds
  /\ Ends(stored)
  /\ UNCHANGED <<accounts, active, balances, orders, figured>>

(* Only a fetch that went through marks what it did not carry.             *)
CommitOrders ==
  /\ run.kind = "orders" /\ at > Len(run.items)
  /\ orders' = IF MarksEnded(run) THEN MarkEnded(run.of, draftOrders, touched) ELSE draftOrders
  /\ Ends(stored)
  /\ UNCHANGED <<accounts, active, balances, held, due, figured>>

(* Mutation: the way out of a failure commits.                             *)
RollbackCommits == held' = draftHeld /\ orders' = draftOrders

(* rollbackOn, or the journal at the next open.  What accounts were        *)
(* written before stays.                                                   *)
Rollback == UNCHANGED <<held, orders>>

(* Mutation: the count of a run that was rolled back stays.                *)
CountKept == stored

CountAfterFailure == IF run.kind = "accounts" THEN stored ELSE 0

Fails(count) ==
  /\ Rollback /\ Ends(count)
  /\ UNCHANGED <<accounts, active, balances, due, figured>>

(* A statement or the commit fails on the disk.                            *)
DiskFails == run # NoRun /\ Fails(CountAfterFailure)

(* A statement fails on the unique index.                                  *)
OrderRefused ==
  /\ Handles("orders") /\ IndexRefuses(run.of, Item, draftOrders)
  /\ Fails(CountAfterFailure)

(* The process dies, and nobody is told.                                   *)
Crash == run # NoRun /\ Fails(0)

Next ==
  \/ \E b \in Bookings : Post(b) \/ \E c \in Bookings : Correct(b, c)
  \/ BeginAccounts
  \/ \E a \in Accounts : BeginBookings(a) \/ BeginBalance(a) \/ BeginOrders(a)
  \/ StoreAccount \/ StoreBooking \/ StoreBalance \/ StoreStandingOrder
  \/ CommitAccounts \/ CommitBookings \/ CommitOrders
  \/ DiskFails \/ OrderRefused \/ Crash

Spec == Init /\ [][Next]_vars

-----------------------------------------------------------------------------
(* The rows at any moment are what the schema allows.                      *)
TypeOK ==
  /\ accounts \in Seq(Accounts) /\ active \subseteq {accounts[i] : i \in DOMAIN accounts}
  /\ DOMAIN balances \subseteq DOMAIN accounts
  /\ held \subseteq Bookings /\ draftHeld \subseteq Bookings
  /\ orders \subseteq OrderRow /\ draftOrders \subseteq OrderRow /\ touched \subseteq OrderRow
  /\ run.kind \in {"none", "accounts", "bookings", "balance", "orders"}
  /\ at \in Nat /\ stored \in Nat /\ told \in Nat
  /\ posted \subseteq Bookings /\ horizon \in [Accounts -> Nat]
  /\ due \subseteq Bookings /\ figured \subseteq Accounts /\ runs \in 0..MaxRuns

(* No path of the application brings two rows of an account under one      *)
(* identifier of the institution, whatever the bank reports and however a  *)
(* run ends (the comment above the test                                    *)
(* twoRowsUnderOneIdentifierAreToldApartByTheirFingerprint).               *)
OneRowPerIdentifier ==
  \A r, s \in orders : r.of = s.of /\ r.fi = s.fi /\ r.fi # NoId => r = s

(* Whatever the bank held when a fetch asked it, and whose run was stored, *)
(* is in the file: no failure, crash or correction moves the starting      *)
(* point of a fetch past bookings nobody holds.                            *)
NoGap == due \subseteq held

(* The figure beside an account was reported for that account, and one a   *)
(* fetch brought is never pushed aside by the account list.                *)
FiguresAreOwn ==
  /\ \A i \in DOMAIN balances : balances[i].of = accounts[i]
  /\ \A a \in figured : \E i \in DOMAIN balances : balances[i] = Figure(a, TRUE)

(* A later order of the run that took the row of order i.                  *)
Displaced(i) ==
  \E j \in DOMAIN run.items : j > i /\
    \/ run.items[j].fp = run.items[i].fp
    \/ run.items[j].fi = run.items[i].fi /\ run.items[j].fi # NoId

(* When a run of orders is stored, the orders of its account that carry no *)
(* mark are the reported ones if the fetch went through, and no order      *)
(* gains a mark if it was cut short.  Other accounts are left alone.       *)
AnswerIsTheHolding ==
  [][run.kind = "orders" /\ orders' # orders =>
       /\ run.succeeded => Live(RowsOf(run.of, orders')) =
            {Written(run.of, run.items[i]) : i \in {j \in DOMAIN run.items : ~Displaced(j)}}
       /\ ~run.succeeded => \A r \in orders' : r.ended => r \in orders
       /\ \A r \in orders \cup orders' : r.of # run.of => r \in orders /\ r \in orders'
    ]_vars

(* The number a run reports is the number of rows that came into the file  *)
(* by it, however it ended.                                                *)
CountIsTrue ==
  [][run.kind \in {"bookings", "orders"} /\ run' = NoRun =>
       told' = (Cardinality(held') - Cardinality(held))
               + (Cardinality(orders') - Cardinality(orders))]_vars

(* Storage.h on storeItems: every order of the run itself loses the mark.  *)
(* So a run whose orders can all be told apart, by the identifier and by   *)
(* the fingerprint, is not refused for what the file already holds.        *)
ToldApart(items) ==
  \A i, j \in DOMAIN items : i # j =>
    items[i].fp # items[j].fp /\ (items[i].fi = NoId \/ items[i].fi # items[j].fi)

NoOrderIsRefused ==
  Handles("orders") /\ ToldApart(run.items) => ~IndexRefuses(run.of, Item, draftOrders)
=============================================================================
