--------------------------- MODULE VaultRowsProofs ---------------------------
(***************************************************************************)
(* What the write path guarantees for every bank, however many accounts,   *)
(* bookings and orders it has, and for any number of runs: no fetch skips  *)
(* a booking, no figure hangs on a foreign account, an identifier stands   *)
(* for one order, the holding of an account is what the bank answered, and *)
(* a run counts the rows it brought.                                       *)
(***************************************************************************)
EXTENDS VaultRows, TLAPS, FiniteSetTheorems, SequenceTheorems, WellFoundedInduction

(* What a run carries, by its kind.                                        *)
RunOK ==
  /\ at >= 1
  /\ run.kind = "accounts" => run.items \in Seq(Accounts)
  /\ run.kind = "bookings" =>
       run.of \in Accounts /\ run.items \in Seq(Bookings) /\ run.holds \subseteq Bookings
  /\ run.kind = "balance" =>
       run.of \in Accounts /\ run.items = <<run.of>> /\ IsStored(run.of)
  /\ run.kind = "orders" => run.of \in Accounts /\ run.items \in Seq(Order)

Types == TypeOK /\ RunOK

(* One row of an account under an identifier, in the file and in the       *)
(* bracket of a run.                                                       *)
OneRow(rows) == \A r, s \in rows : r.of = s.of /\ r.fi = s.fi /\ r.fi # NoId => r = s

OrdersOK == OneRow(orders) /\ OneRow(draftOrders)

(* The bookings a run brings, and what the file will hold by it.           *)
Coming == IF run.kind = "bookings" THEN {run.items[i] : i \in DOMAIN run.items} ELSE {}
Handled == {run.items[i] : i \in {j \in DOMAIN run.items : j < at}}
Final == held \cup Coming

(* A booking the next fetch would not reach is one that is there: behind   *)
(* the lead of the newest one.                                             *)
Reached(rows) ==
  \A b \in posted, l \in rows :
    AccountOf[b] = AccountOf[l] /\ DayOf[b] < DayOf[l] - Lead => b \in rows

NotAhead(rows) == \A b \in rows : DayOf[b] <= horizon[AccountOf[b]]

BookingsOK ==
  /\ NotAhead(posted) /\ NotAhead(Final)
  /\ Reached(held) /\ Reached(Final)
  /\ run.kind = "bookings" => draftHeld = held \cup Handled /\ run.holds \subseteq Final
  /\ NoGap

IInv == Types /\ OrdersOK /\ BookingsOK /\ FiguresAreOwn

-----------------------------------------------------------------------------
(* Standing orders.                                                        *)

(* Where identifiers stand for one row each, an order is matched to every  *)
(* row that carries its identifier (existingStandingOrderOn).              *)
LEMMA MatchesItsIdentifier ==
  ASSUME NEW rows, OneRow(rows), NEW a, NEW o, NEW r \in rows,
         r.of = a, r.fi = o.fi, o.fi # NoId
  PROVE  r \in ExistingStandingOrder(a, o, rows)
<1>1. SameId(a, o, rows) = {r}
  BY DEF SameId, RowsOf, OneRow
<1> QED
  BY <1>1 DEF ExistingStandingOrder

(* So writing it leaves one row under that identifier.                     *)
LEMMA StoreOrderKeepsOneRow ==
  ASSUME NEW rows, OneRow(rows), NEW a, NEW o
  PROVE  OneRow(StoreOrder(a, o, rows))
<1> DEFINE new == Written(a, o)
<1>1. new.of = a /\ new.fi = o.fi
  BY DEF Written
<1>2. ASSUME NEW r \in rows \ ExistingStandingOrder(a, o, rows),
             r.of = new.of, r.fi = new.fi, r.fi # NoId
      PROVE  FALSE
  BY <1>1, <1>2, MatchesItsIdentifier
<1> QED
  BY <1>2 DEF StoreOrder, OneRow

(* Marking changes neither the account of a row nor its identifier.        *)
LEMMA MarkEndedKeepsOneRow ==
  ASSUME NEW rows, OneRow(rows), NEW a, NEW t
  PROVE  OneRow(MarkEnded(a, rows, t))
<1> DEFINE mark(r) == IF r.of = a /\ r \notin t THEN Ended(r) ELSE r
<1>1. \A r \in rows : mark(r).of = r.of /\ mark(r).fi = r.fi
  BY DEF Ended
<1>2. MarkEnded(a, rows, t) = {mark(r) : r \in rows}
  BY DEF MarkEnded
<1> HIDE DEF mark
<1> QED
  BY <1>1, <1>2 DEF OneRow

(* Every step keeps one row under an identifier.                           *)
LEMMA OrdersStep == IInv /\ [Next]_vars => OrdersOK'
<1> SUFFICES ASSUME OrdersOK, [Next]_vars PROVE OrdersOK'
  BY DEF IInv
<1> USE DEF OrdersOK
<1>0. OneRow({})
  BY DEF OneRow
<1>1. ASSUME UNCHANGED <<orders, draftOrders>> PROVE OrdersOK'
  BY <1>1 DEF OneRow
<1>2. ASSUME NEW r, Begins(r) PROVE OrdersOK'
  BY <1>2 DEF Begins, tables
<1>3. ASSUME NEW n, Fails(n) PROVE OrdersOK'
  BY <1>3, <1>0 DEF Fails, Rollback, Ends, OneRow
<1>4. ASSUME NEW b, Posts(b) PROVE OrdersOK'
  BY <1>1, <1>4 DEF Posts, tables, inner
<1>5. CASE StoreAccount
  BY <1>1, <1>5 DEF StoreAccount
<1>6. CASE StoreBooking
  BY <1>1, <1>6 DEF StoreBooking, tables
<1>7. CASE StoreBalance
  BY <1>7, <1>0 DEF StoreBalance, Ends
<1>8. CASE StoreStandingOrder
  BY <1>8, StoreOrderKeepsOneRow DEF StoreStandingOrder, tables
<1>9. CASE CommitAccounts
  BY <1>9, <1>0 DEF CommitAccounts, Ends, tables
<1>10. CASE CommitBookings
  BY <1>10, <1>0 DEF CommitBookings, Ends
<1>11. CASE CommitOrders
  <2>1. OneRow(orders')
    BY <1>11, MarkEndedKeepsOneRow DEF CommitOrders
  <2> QED
    BY <1>11, <1>0, <2>1 DEF CommitOrders, Ends
<1>12. CASE UNCHANGED vars
  BY <1>1, <1>12 DEF vars, tables, inner
<1> QED
  BY <1>2, <1>3, <1>4, <1>5, <1>6, <1>7, <1>8, <1>9, <1>10, <1>11, <1>12
     DEF Next, Post, Correct, BeginAccounts, BeginBookings, BeginBalance, BeginOrders,
         DiskFails, OrderRefused, Crash
-----------------------------------------------------------------------------
(* Types.                                                                  *)

(* A set of finitely many elements can be put in an order.                 *)
LEMMA OrderingsType ==
  ASSUME NEW S, NEW T, IsFiniteSet(T), S \subseteq T, NEW items \in Orderings(S)
  PROVE  items \in Seq(T) /\ {items[i] : i \in DOMAIN items} = S
<1>1. Cardinality(S) \in Nat
  BY FS_Subset, FS_CardinalityType
<1>2. items \in [1..Cardinality(S) -> S] /\ \A x \in S : \E i \in DOMAIN items : items[i] = x
  BY DEF Orderings
<1>3. items \in Seq(T)
  BY <1>1, <1>2, SeqDef
<1> QED
  BY <1>2, <1>3

(* The row of an account, once it is there.                                *)
LEMMA AccountIdIsItsRow ==
  ASSUME NEW rows, NEW a, \E id \in DOMAIN rows : rows[id] = a
  PROVE  AccountId(a, rows) \in DOMAIN rows /\ rows[AccountId(a, rows)] = a
BY DEF AccountId

(* An account that is written stands, and those before it keep their row.  *)
LEMMA UpsertKeepsRows ==
  ASSUME NEW rows \in Seq(Accounts), NEW a \in Accounts
  PROVE  /\ UpsertAccount(a, rows) \in Seq(Accounts)
         /\ \E id \in DOMAIN UpsertAccount(a, rows) : UpsertAccount(a, rows)[id] = a
         /\ DOMAIN rows \subseteq DOMAIN UpsertAccount(a, rows)
         /\ \A id \in DOMAIN rows : UpsertAccount(a, rows)[id] = rows[id]
<1>1. CASE \E id \in DOMAIN rows : rows[id] = a
  BY <1>1 DEF UpsertAccount
<1>2. CASE ~(\E id \in DOMAIN rows : rows[id] = a)
  <2>1. UpsertAccount(a, rows) = Append(rows, a)
    BY <1>2 DEF UpsertAccount
  <2>2. /\ Append(rows, a) \in Seq(Accounts)
        /\ DOMAIN Append(rows, a) = 1..(Len(rows) + 1)
        /\ DOMAIN rows = 1..Len(rows) /\ Len(rows) \in Nat
        /\ \A i \in 1..Len(rows) : Append(rows, a)[i] = rows[i]
        /\ Append(rows, a)[Len(rows) + 1] = a
    BY AppendProperties, LenProperties
  <2> QED
    BY <2>1, <2>2
<1> QED
  BY <1>1, <1>2

LEMMA StoreOrderType ==
  ASSUME NEW rows \in SUBSET OrderRow, NEW t \in SUBSET OrderRow, NEW a \in Accounts,
         NEW o \in Order
  PROVE  /\ StoreOrder(a, o, rows) \subseteq OrderRow
         /\ TouchOrder(a, o, rows, t) \subseteq OrderRow
<1>1. Written(a, o) \in OrderRow
  BY DEF Written, OrderRow, Order
<1> QED
  BY <1>1 DEF StoreOrder, TouchOrder

LEMMA MarkEndedType ==
  ASSUME NEW rows \in SUBSET OrderRow, NEW t, NEW a
  PROVE  MarkEnded(a, rows, t) \subseteq OrderRow
<1>1. \A r \in OrderRow : Ended(r) \in OrderRow
  BY DEF Ended, OrderRow
<1> QED
  BY <1>1 DEF MarkEnded

(* A run goes out.                                                         *)
LEMMA BeginsTypes ==
  ASSUME Types, NEW r, Begins(r),
         r.kind \in {"accounts", "bookings", "balance", "orders"},
         r.kind = "accounts" => r.items \in Seq(Accounts),
         r.kind = "bookings" =>
           r.of \in Accounts /\ r.items \in Seq(Bookings) /\ r.holds \subseteq Bookings,
         r.kind = "balance" => r.of \in Accounts /\ r.items = <<r.of>> /\ IsStored(r.of),
         r.kind = "orders" => r.of \in Accounts /\ r.items \in Seq(Order)
  PROVE  Types'
<1> USE DEF Begins, Types
<1>1. runs' \in 0..MaxRuns
  BY BoundAssumption DEF TypeOK
<1>2. TypeOK'
  BY <1>1 DEF TypeOK, tables, bank
<1>3. RunOK'
  BY DEF RunOK, tables, IsStored
<1> QED
  BY <1>2, <1>3

(* A run ends, and leaves rows of the right kind behind.                   *)
LEMMA EndsTypes ==
  ASSUME Types, NEW n \in Nat, Ends(n), UNCHANGED <<accounts, active>>,
         DOMAIN balances' \subseteq DOMAIN accounts,
         held' \subseteq Bookings, orders' \subseteq OrderRow,
         due' \subseteq Bookings, figured' \subseteq Accounts
  PROVE  Types'
<1>1. TypeOK'
  BY DEF Types, TypeOK, Ends, bank, NoRun
<1>2. RunOK'
  BY DEF RunOK, Ends, NoRun
<1> QED
  BY <1>1, <1>2 DEF Types

(* The record a run handles is of its kind.                                *)
LEMMA ItemType ==
  ASSUME Types, NEW kind, Handles(kind)
  PROVE  /\ kind = "accounts" => Item \in Accounts
         /\ kind = "bookings" => Item \in Bookings /\ at \in DOMAIN run.items
         /\ kind = "balance" => Item = run.of
         /\ kind = "orders" => Item \in Order
<1>1. at \in Nat /\ at >= 1
  BY DEF Types, TypeOK, RunOK
<1>2. ASSUME NEW S, run.items \in Seq(S)
      PROVE  at \in DOMAIN run.items /\ Item \in S
  <2>1. DOMAIN run.items = 1..Len(run.items) /\ Len(run.items) \in Nat
    BY <1>2, LenProperties
  <2>2. at \in 1..Len(run.items)
    BY <1>1, <2>1 DEF Handles
  <2> QED
    BY <1>2, <2>1, <2>2, ElementOfSeq DEF Item
<1>3. ASSUME kind = "balance" PROVE Len(run.items) = 1 /\ run.items[1] = run.of
  <2>1. run.items = <<run.of>>
    BY <1>3 DEF Types, RunOK, Handles
  <2> QED
    BY <2>1
<1>4. ASSUME kind = "balance" PROVE at = 1
  <2>1. Len(run.items) = 1
    BY <1>3, <1>4
  <2>2. at <= Len(run.items)
    BY DEF Handles
  <2> QED
    BY <1>1, <2>1, <2>2
<1>5. run.kind = kind
  BY DEF Handles
<1>6. kind = "accounts" => Item \in Accounts
  BY <1>2, <1>5 DEF Types, RunOK
<1>7. kind = "bookings" => Item \in Bookings /\ at \in DOMAIN run.items
  BY <1>2, <1>5 DEF Types, RunOK
<1>8. kind = "balance" => Item = run.of
  BY <1>3, <1>4 DEF Item
<1>9. kind = "orders" => Item \in Order
  BY <1>2, <1>5 DEF Types, RunOK
<1> QED
  BY <1>6, <1>7, <1>8, <1>9

(* Every step keeps the types.                                             *)
LEMMA TypesStep == IInv /\ [Next]_vars => Types'
<1> SUFFICES ASSUME Types, [Next]_vars PROVE Types'
  BY DEF IInv
<1>1. ASSUME NEW b \in Bookings, Posts(b), posted' \subseteq Bookings PROVE Types'
  <2>1. horizon' \in [Accounts -> Nat]
    BY <1>1, BankAssumption DEF Posts, Types, TypeOK
  <2>2. TypeOK'
    BY <1>1, <2>1 DEF Posts, Types, TypeOK, tables, inner, truth
  <2>3. RunOK'
    BY <1>1 DEF Posts, Types, RunOK, tables, inner, IsStored
  <2> QED
    BY <2>2, <2>3 DEF Types
<1>2. ASSUME NEW b \in Bookings, Post(b) PROVE Types'
  BY <1>1, <1>2 DEF Post, Types, TypeOK
<1>3. ASSUME NEW b \in Bookings, NEW c \in Bookings, Correct(b, c) PROVE Types'
  BY <1>1, <1>3 DEF Correct, Types, TypeOK
<1>4. CASE BeginAccounts
  <2>0. PICK offered \in SUBSET Accounts :
          \E items \in Orderings(offered), chosen \in SUBSET offered :
            Begins(Request("accounts", "all", items, chosen, FALSE, {}))
    BY <1>4 DEF BeginAccounts
  <2>1. PICK items \in Orderings(offered), chosen \in SUBSET offered :
          Begins(Request("accounts", "all", items, chosen, FALSE, {}))
    BY <2>0
  <2>2. items \in Seq(Accounts)
    BY OrderingsType, BankAssumption
  <2> QED
    BY <2>1, <2>2, BeginsTypes DEF Request
<1>5. ASSUME NEW a \in Accounts, BeginBookings(a) PROVE Types'
  <2>1. PICK items \in Orderings(Delivered(a)) :
          Begins(Request("bookings", a, items, {}, FALSE, {b \in posted : AccountOf[b] = a}))
    BY <1>5 DEF BeginBookings
  <2>2. Delivered(a) \subseteq Bookings /\ posted \subseteq Bookings
    BY DEF Delivered, Types, TypeOK
  <2>3. items \in Seq(Bookings)
    BY <2>2, OrderingsType, BankAssumption
  <2> QED
    BY <2>1, <2>2, <2>3, BeginsTypes DEF Request
<1>6. ASSUME NEW a \in Accounts, BeginBalance(a) PROVE Types'
  BY <1>6, BeginsTypes DEF BeginBalance, Request
<1>7. ASSUME NEW a \in Accounts, BeginOrders(a) PROVE Types'
  <2>0. PICK n \in 0..MaxOrders :
          \E items \in [1..n -> Order], succeeded \in BOOLEAN :
            Begins(Request("orders", a, items, {}, succeeded, {}))
    BY <1>7 DEF BeginOrders
  <2>1. PICK items \in [1..n -> Order], succeeded \in BOOLEAN :
          Begins(Request("orders", a, items, {}, succeeded, {}))
    BY <2>0
  <2>2. items \in Seq(Order)
    BY BoundAssumption, SeqDef
  <2> QED
    BY <2>1, <2>2, BeginsTypes DEF Request
<1>8. CASE StoreAccount
  <2>1. Item \in Accounts
    BY <1>8, ItemType DEF StoreAccount
  <2>2. /\ accounts' \in Seq(Accounts)
        /\ \E id \in DOMAIN accounts' : accounts'[id] = Item
        /\ DOMAIN accounts \subseteq DOMAIN accounts'
        /\ \A id \in DOMAIN accounts : accounts'[id] = accounts[id]
    BY <1>8, <2>1, UpsertKeepsRows DEF StoreAccount, Types, TypeOK
  <2>3. DOMAIN balances' \subseteq DOMAIN accounts'
    BY <1>8, <2>2, AccountIdIsItsRow DEF StoreAccount, WithBalance, Types, TypeOK
  <2>4. active' \subseteq {accounts'[i] : i \in DOMAIN accounts'}
    BY <1>8, <2>2 DEF StoreAccount, Types, TypeOK
  <2>5. at' \in Nat /\ stored' \in Nat /\ at' >= 1
    BY <1>8 DEF StoreAccount, Counted, Types, TypeOK
  <2>6. TypeOK'
    BY <1>8, <2>2, <2>3, <2>4, <2>5 DEF StoreAccount, Types, TypeOK, bank, truth
  <2>7. RunOK'
    BY <1>8, <2>2, <2>5 DEF StoreAccount, Types, RunOK, Handles
  <2> QED
    BY <2>6, <2>7 DEF Types
<1>9. CASE StoreBooking
  <2>1. draftHeld' \subseteq Bookings
    BY <1>9, ItemType DEF StoreBooking, Types, TypeOK
  <2>2. at' \in Nat /\ stored' \in Nat /\ at' >= 1
    BY <1>9 DEF StoreBooking, Counted, Types, TypeOK
  <2>3. TypeOK'
    BY <1>9, <2>1, <2>2 DEF StoreBooking, Types, TypeOK, tables, bank, truth
  <2>4. RunOK'
    BY <1>9, <2>2 DEF StoreBooking, Types, RunOK, Handles, tables
  <2> QED
    BY <2>3, <2>4 DEF Types
<1>10. CASE StoreStandingOrder
  <2>1. draftOrders' \subseteq OrderRow /\ touched' \subseteq OrderRow
    BY <1>10, ItemType, StoreOrderType DEF StoreStandingOrder, Types, TypeOK, RunOK, Handles
  <2>2. at' \in Nat /\ stored' \in Nat /\ at' >= 1
    BY <1>10 DEF StoreStandingOrder, Counted, CountOfOrder, Types, TypeOK
  <2>3. TypeOK'
    BY <1>10, <2>1, <2>2 DEF StoreStandingOrder, Types, TypeOK, tables, bank, truth
  <2>4. RunOK'
    BY <1>10, <2>2 DEF StoreStandingOrder, Types, RunOK, Handles, tables
  <2> QED
    BY <2>3, <2>4 DEF Types
<1>11. CASE StoreBalance
  <2>1. Item \in Accounts /\ \E id \in DOMAIN accounts : accounts[id] = Item
    BY <1>11, ItemType DEF StoreBalance, Handles, Types, RunOK, IsStored
  <2>2. DOMAIN balances' \subseteq DOMAIN accounts
    BY <1>11, <2>1, AccountIdIsItsRow DEF StoreBalance, WithBalance, Types, TypeOK
  <2> QED
    BY <1>11, <2>1, <2>2, EndsTypes DEF StoreBalance, Types, TypeOK
<1>12. CASE CommitAccounts
  BY <1>12, EndsTypes DEF CommitAccounts, tables, Types, TypeOK
<1>13. CASE CommitBookings
  BY <1>13, EndsTypes DEF CommitBookings, Types, TypeOK, RunOK
<1>14. CASE CommitOrders
  <2>1. orders' \subseteq OrderRow
    BY <1>14, MarkEndedType DEF CommitOrders, Types, TypeOK
  <2> QED
    BY <1>14, <2>1, EndsTypes DEF CommitOrders, Types, TypeOK
<1>15. ASSUME NEW n \in Nat, Fails(n) PROVE Types'
  BY <1>15, EndsTypes DEF Fails, Rollback, Types, TypeOK
<1>16. CASE DiskFails \/ OrderRefused \/ Crash
  <2>1. CountAfterFailure \in Nat
    BY DEF CountAfterFailure, Types, TypeOK
  <2> QED
    BY <1>15, <1>16, <2>1 DEF DiskFails, OrderRefused, Crash
<1>17. CASE UNCHANGED vars
  <2>1. TypeOK'
    BY <1>17 DEF Types, TypeOK, vars, tables, inner, bank, truth
  <2>2. RunOK'
    BY <1>17 DEF Types, RunOK, vars, tables, inner, IsStored
  <2> QED
    BY <2>1, <2>2 DEF Types
<1> QED
  BY <1>2, <1>3, <1>4, <1>5, <1>6, <1>7, <1>8, <1>9, <1>10, <1>11, <1>12, <1>13,
     <1>14, <1>16, <1>17 DEF Next
-----------------------------------------------------------------------------
(* Balances.                                                               *)

(* Every step leaves the figures with their accounts.                      *)
LEMMA FiguresStep == IInv /\ [Next]_vars => FiguresAreOwn'
<1> SUFFICES ASSUME Types, FiguresAreOwn, [Next]_vars PROVE FiguresAreOwn'
  BY DEF IInv
<1>1. ASSUME UNCHANGED <<accounts, balances, figured>> PROVE FiguresAreOwn'
  BY <1>1 DEF FiguresAreOwn
<1>2. ASSUME NEW r, Begins(r) PROVE FiguresAreOwn'
  BY <1>1, <1>2 DEF Begins, tables
<1>3. ASSUME NEW n, Fails(n) PROVE FiguresAreOwn'
  BY <1>1, <1>3 DEF Fails
<1>4. ASSUME NEW b, Posts(b) PROVE FiguresAreOwn'
  BY <1>1, <1>4 DEF Posts, tables, truth
<1>5. CASE StoreAccount
  <2> DEFINE id == AccountId(Item, accounts')
  <2>1. Item \in Accounts
    BY <1>5, ItemType DEF StoreAccount
  <2>2. /\ \E i \in DOMAIN accounts' : accounts'[i] = Item
        /\ \A i \in DOMAIN accounts : accounts'[i] = accounts[i]
    BY <1>5, <2>1, UpsertKeepsRows DEF StoreAccount, Types, TypeOK
  <2>3. accounts'[id] = Item
    BY <2>2, AccountIdIsItsRow
  <2>4. \A i \in DOMAIN balances : balances[i].of = accounts'[i]
    BY <2>2 DEF FiguresAreOwn, Types, TypeOK
  <2>5. CASE PlaceholderGoesIn(id)
    <3>1. balances' = WithBalance(id, Figure(Item, FALSE))
      BY <1>5, <2>5 DEF StoreAccount
    <3>2. /\ DOMAIN balances' = DOMAIN balances \cup {id}
          /\ balances'[id] = Figure(Item, FALSE)
          /\ \A i \in DOMAIN balances : i # id => balances'[i] = balances[i]
      BY <3>1 DEF WithBalance
    <3>3. \A i \in DOMAIN balances' : balances'[i].of = accounts'[i]
      BY <2>3, <2>4, <3>2 DEF Figure
    <3>4. \A i \in DOMAIN balances : \A a : balances[i] = Figure(a, TRUE) => i # id
      BY <2>5 DEF PlaceholderGoesIn, Figure
    <3>5. \A a \in figured : \E i \in DOMAIN balances' : balances'[i] = Figure(a, TRUE)
      BY <3>2, <3>4 DEF FiguresAreOwn
    <3> QED
      BY <1>5, <3>3, <3>5 DEF FiguresAreOwn, StoreAccount, truth
  <2>6. CASE ~PlaceholderGoesIn(id)
    BY <1>5, <2>4, <2>6 DEF FiguresAreOwn, StoreAccount, truth
  <2> QED
    BY <2>5, <2>6
<1>6. CASE StoreBooking \/ StoreStandingOrder
  BY <1>1, <1>6 DEF StoreBooking, StoreStandingOrder, tables, truth
<1>7. CASE StoreBalance
  <2> DEFINE id == AccountId(Item, accounts)
  <2>1. \E i \in DOMAIN accounts : accounts[i] = Item
    BY <1>7, ItemType DEF StoreBalance, Handles, Types, RunOK, IsStored
  <2>2. id \in DOMAIN accounts /\ accounts[id] = Item
    BY <2>1, AccountIdIsItsRow
  <2>3. /\ DOMAIN balances' = DOMAIN balances \cup {id}
        /\ balances'[id] = Figure(Item, TRUE)
        /\ \A i \in DOMAIN balances : i # id => balances'[i] = balances[i]
    BY <1>7 DEF StoreBalance, WithBalance
  <2>4. \A i \in DOMAIN balances' : balances'[i].of = accounts[i]
    BY <2>2, <2>3 DEF FiguresAreOwn, Figure
  <2>5. \A a \in figured : \E i \in DOMAIN balances' : balances'[i] = Figure(a, TRUE)
    <3> SUFFICES ASSUME NEW a \in figured
                 PROVE  \E i \in DOMAIN balances' : balances'[i] = Figure(a, TRUE)
      OBVIOUS
    <3>1. PICK i \in DOMAIN balances : balances[i] = Figure(a, TRUE)
      BY DEF FiguresAreOwn
    <3>2. i = id => a = Item
      BY <2>2, <3>1 DEF FiguresAreOwn, Figure
    <3> QED
      BY <2>3, <3>1, <3>2
  <2> QED
    BY <1>7, <2>3, <2>4, <2>5 DEF StoreBalance, FiguresAreOwn
<1>8. CASE CommitAccounts \/ CommitBookings \/ CommitOrders
  BY <1>1, <1>8 DEF CommitAccounts, CommitBookings, CommitOrders, tables
<1>9. CASE UNCHANGED vars
  BY <1>1, <1>9 DEF vars, tables, truth
<1> QED
  BY <1>2, <1>3, <1>4, <1>5, <1>6, <1>7, <1>8, <1>9
     DEF Next, Post, Correct, BeginAccounts, BeginBookings, BeginBalance, BeginOrders,
         DiskFails, OrderRefused, Crash

-----------------------------------------------------------------------------
(* Bookings.                                                               *)

(* A set of days that does not go on for ever has a last one.              *)
LEMMA LastDay ==
  ASSUME NEW days \in SUBSET Nat, days # {}, NEW bound \in Nat,
         \A d \in days : d <= bound
  PROVE  \E d \in days : \A e \in days : e <= d
<1> DEFINE left == {bound - d : d \in days}
<1>1. left \subseteq Nat /\ left # {}
  <2>1. \A d \in days : d \in Nat /\ bound - d \in Nat
    OBVIOUS
  <2>2. PICK d \in days : TRUE
    OBVIOUS
  <2> QED
    BY <2>1, <2>2
<1> DEFINE R == OpToRel(<, Nat)
<1>2. IsWellFoundedOn(R, Nat)
  BY NatLessThanWellFounded, Zenon
<1>3. \A y, x \in Nat : y < x => <<y, x>> \in R
  BY DEF OpToRel
<1> HIDE DEF R, left
<1>4. PICK x \in left : \A y \in left : ~(<<y, x>> \in R)
  BY <1>1, <1>2, WFMin
<1>5. \A y \in left : ~(y < x)
  BY <1>1, <1>3, <1>4
<1> USE DEF left
<1>6. PICK d \in days : x = bound - d
  BY <1>4
<1> QED
  BY <1>5, <1>6

(* What a fetch does not ask for lies behind the lead of a booking that is *)
(* held (latestTransactionDate, appendFetchCommands).                      *)
LEMMA NotDelivered ==
  ASSUME Types, NotAhead(held), NEW a \in Accounts, NEW b \in posted,
         AccountOf[b] = a, b \notin Delivered(a)
  PROVE  \E l \in held : AccountOf[l] = a /\ DayOf[b] < DayOf[l] - Lead
<1> DEFINE days == DaysOf(a, held)
<1>1. \A l \in held : DayOf[l] \in Nat /\ horizon[AccountOf[l]] \in Nat
  BY BankAssumption DEF Types, TypeOK
<1>2. days \subseteq Nat /\ \A d \in days : d <= horizon[a]
  BY <1>1 DEF DaysOf, NotAhead
<1>3. horizon[a] \in Nat
  BY DEF Types, TypeOK
<1>4. days # {}
  BY DEF Delivered, LatestTransactionDate
<1>5. \E d \in days : \A e \in days : e <= d
  BY <1>2, <1>3, <1>4, LastDay
<1>6. LatestTransactionDate(a) \in days
  BY <1>4, <1>5 DEF LatestTransactionDate
<1>7. DayOf[b] < LatestTransactionDate(a) - Lead
  <2>1. DayOf[b] \in Nat /\ LatestTransactionDate(a) \in Nat
    BY <1>2, <1>6, BankAssumption DEF Types, TypeOK
  <2> QED
    BY <2>1, BankAssumption DEF Delivered
<1> QED
  BY <1>6, <1>7 DEF DaysOf
(* The run of a fetch begins: what it brings and what is there reach as    *)
(* far back as the bank does.                                              *)
LEMMA BeginBookingsStep ==
  ASSUME Types, BookingsOK, NEW a \in Accounts, BeginBookings(a)
  PROVE  BookingsOK'
<1> DEFINE theirs == {b \in posted : AccountOf[b] = a}
<1>1. PICK items \in Orderings(Delivered(a)) :
        Begins(Request("bookings", a, items, {}, FALSE, theirs))
  BY DEF BeginBookings
<1>2. Delivered(a) \subseteq posted /\ posted \subseteq Bookings /\ held \subseteq Bookings
  BY DEF Delivered, Types, TypeOK
<1>3. {items[i] : i \in DOMAIN items} = Delivered(a)
  BY <1>2, OrderingsType, BankAssumption
<1>4. /\ UNCHANGED <<posted, horizon, held, due>>
      /\ run'.kind = "bookings" /\ run'.items = items /\ run'.holds = theirs
      /\ at' = 1 /\ draftHeld' = held
  BY <1>1 DEF Begins, Request, bank, tables
<1>5. Coming' = Delivered(a) /\ Final' = held \cup Delivered(a)
  BY <1>3, <1>4 DEF Coming, Final
<1>6. Handled' = {}
  <2>1. \A j \in DOMAIN items : ~(j < 1)
    BY <1>2, OrderingsType, BankAssumption, LenProperties
  <2> QED
    BY <1>4, <2>1 DEF Handled
<1>7. NotAhead(held) /\ NotAhead(held \cup Delivered(a))
  BY <1>2 DEF BookingsOK, NotAhead, Final
<1>8. ASSUME NEW b \in posted, AccountOf[b] = a PROVE b \in held \cup Delivered(a)
  BY <1>7, <1>8, NotDelivered DEF BookingsOK, Reached
<1>9. Reached(held \cup Delivered(a))
  <2> SUFFICES ASSUME NEW b \in posted, NEW l \in held \cup Delivered(a),
                      AccountOf[b] = AccountOf[l], DayOf[b] < DayOf[l] - Lead
               PROVE  b \in held \cup Delivered(a)
    BY DEF Reached
  <2>1. CASE AccountOf[b] = a
    BY <1>8, <2>1
  <2>2. CASE AccountOf[b] # a
    BY <2>2 DEF Delivered, BookingsOK, Reached
  <2> QED
    BY <2>1, <2>2
<1>10. theirs \subseteq held \cup Delivered(a)
  BY <1>8
<1> QED
  BY <1>4, <1>5, <1>6, <1>7, <1>9, <1>10 DEF BookingsOK, NotAhead, Reached, NoGap

(* A step that leaves the bookings alone, and no fetch of them under way.  *)
LEMMA BookingsRest ==
  ASSUME BookingsOK, UNCHANGED <<posted, horizon, held, due>>, run'.kind # "bookings"
  PROVE  BookingsOK'
<1>1. Final' = held
  BY DEF Final, Coming
<1>2. NotAhead(held)
  BY DEF BookingsOK, NotAhead, Final
<1> QED
  BY <1>1, <1>2 DEF BookingsOK, NotAhead, Reached, NoGap

(* The bank posts, and what it posts late is not later than the lead.      *)
LEMMA PostsStep ==
  ASSUME Types, BookingsOK, NEW b \in Bookings, Posts(b), posted' \subseteq posted \cup {b}
  PROVE  BookingsOK'
<1> DEFINE a == AccountOf[b]
<1>1. /\ a \in Accounts /\ DayOf[b] \in Nat /\ Lead \in Nat
      /\ \A c \in Bookings : AccountOf[c] \in Accounts /\ DayOf[c] \in Nat
      /\ horizon \in [Accounts -> Nat]
  BY BankAssumption DEF Types, TypeOK
<1>2. UNCHANGED <<held, run, at, draftHeld, due>>
  BY DEF Posts, tables, inner, truth
<1>3. Final' = Final /\ Handled' = Handled
  BY <1>2 DEF Final, Coming, Handled
<1>4. posted \subseteq Bookings /\ held \subseteq Bookings /\ Final \subseteq Bookings
  <2>1. Coming \subseteq Bookings
    BY ElementOfSeq, LenProperties DEF Coming, Types, RunOK
  <2> QED
    BY <2>1 DEF Final, Types, TypeOK
<1>5. /\ horizon' = [horizon EXCEPT ![a] = IF DayOf[b] > @ THEN DayOf[b] ELSE @]
      /\ DayOf[b] >= horizon[a] - Lead
  BY DEF Posts
<1>6. DayOf[b] <= horizon'[a] /\ \A x \in Accounts : horizon[x] <= horizon'[x]
  BY <1>1, <1>5
<1>7. ASSUME NEW rows \in SUBSET Bookings, NotAhead(rows)
      PROVE  \A c \in rows : DayOf[c] <= horizon'[AccountOf[c]]
  <2> SUFFICES ASSUME NEW c \in rows PROVE DayOf[c] <= horizon'[AccountOf[c]]
    OBVIOUS
  <2>1. /\ DayOf[c] \in Nat /\ AccountOf[c] \in Accounts
        /\ horizon[AccountOf[c]] \in Nat /\ horizon'[AccountOf[c]] \in Nat
    BY <1>1, <1>5
  <2>2. DayOf[c] <= horizon[AccountOf[c]] /\ horizon[AccountOf[c]] <= horizon'[AccountOf[c]]
    BY <1>6, <1>7, <2>1 DEF NotAhead
  <2> QED
    BY <2>1, <2>2
<1>8. ASSUME NEW rows \in SUBSET Bookings, NotAhead(rows), Reached(rows)
      PROVE  \A c \in posted', l \in rows :
               AccountOf[c] = AccountOf[l] /\ DayOf[c] < DayOf[l] - Lead => c \in rows
  <2> SUFFICES ASSUME NEW c \in posted', NEW l \in rows,
                      AccountOf[c] = AccountOf[l], DayOf[c] < DayOf[l] - Lead
               PROVE  c \in rows
    OBVIOUS
  <2>1. CASE c \in posted
    BY <1>8, <2>1 DEF Reached
  <2>2. CASE c = b
    <3>1. DayOf[l] \in Nat /\ horizon[a] \in Nat /\ DayOf[l] <= horizon[a]
      BY <1>1, <1>8, <2>2 DEF NotAhead
    <3> QED
      BY <1>1, <1>5, <2>2, <3>1
  <2> QED
    BY <2>1, <2>2
<1>9. NotAhead(posted)'
  BY <1>4, <1>6, <1>7 DEF BookingsOK, NotAhead
<1>10. NotAhead(Final)' /\ Reached(held)' /\ Reached(Final)'
  <2>1. NotAhead(held)
    BY DEF BookingsOK, NotAhead, Final
  <2>2. NotAhead(Final)'
    BY <1>3, <1>4, <1>7 DEF BookingsOK, NotAhead
  <2>3. Reached(held)'
    BY <1>2, <1>4, <1>8, <2>1 DEF BookingsOK, Reached
  <2>4. Reached(Final)'
    BY <1>3, <1>4, <1>8 DEF BookingsOK, Reached
  <2> QED
    BY <2>2, <2>3, <2>4
<1> QED
  BY <1>2, <1>3, <1>9, <1>10 DEF BookingsOK, NoGap

(* The transaction of a fetch holds what was there and what it handled.    *)
LEMMA StoreBookingStep ==
  ASSUME Types, BookingsOK, StoreBooking
  PROVE  BookingsOK'
<1>1. /\ UNCHANGED <<held, run, posted, horizon, due>>
      /\ draftHeld' = draftHeld \cup {Item} /\ at' = at + 1
      /\ run.kind = "bookings"
  BY DEF StoreBooking, Counted, Handles, tables, bank, truth
<1>2. Final' = Final
  BY <1>1 DEF Final, Coming
<1>3. Handled' = Handled \cup {Item}
  <2>1. at \in DOMAIN run.items /\ at \in Nat /\ DOMAIN run.items \subseteq Nat
    BY ItemType, LenProperties DEF StoreBooking, Handles, Types, TypeOK, RunOK
  <2>2. \A j \in DOMAIN run.items : j < at + 1 <=> j < at \/ j = at
    BY <2>1
  <2> QED
    BY <1>1, <2>1, <2>2 DEF Handled, Item
<1> QED
  BY <1>1, <1>2, <1>3 DEF BookingsOK, NotAhead, Reached, NoGap

(* The commit moves the file to what the run was to bring.                 *)
LEMMA CommitBookingsStep ==
  ASSUME Types, BookingsOK, CommitBookings
  PROVE  BookingsOK'
<1>1. /\ UNCHANGED <<posted, horizon>> /\ held' = draftHeld /\ due' = due \cup run.holds
      /\ run.kind = "bookings" /\ at > Len(run.items) /\ run' = NoRun
  BY DEF CommitBookings, Ends, bank
<1>2. Handled = Coming
  <2>1. /\ DOMAIN run.items = 1..Len(run.items) /\ Len(run.items) \in Nat /\ at \in Nat
    BY <1>1, LenProperties DEF Types, TypeOK, RunOK
  <2>2. \A j \in DOMAIN run.items : j < at
    BY <1>1, <2>1
  <2> QED
    BY <1>1, <2>2 DEF Handled, Coming
<1>3. held' = Final /\ Final' = Final
  BY <1>1, <1>2 DEF BookingsOK, Final, Coming, NoRun
<1>4. held \subseteq Final
  BY DEF Final
<1> QED
  BY <1>1, <1>3, <1>4 DEF BookingsOK, NotAhead, Reached, NoGap, NoRun

(* Every step keeps the bookings complete.                                 *)
LEMMA BookingsStep == IInv /\ [Next]_vars => BookingsOK'
<1> SUFFICES ASSUME Types, BookingsOK, [Next]_vars PROVE BookingsOK'
  BY DEF IInv
<1>1. ASSUME NEW b \in Bookings, Post(b) PROVE BookingsOK'
  BY <1>1, PostsStep DEF Post
<1>2. ASSUME NEW b \in Bookings, NEW c \in Bookings, Correct(b, c) PROVE BookingsOK'
  BY <1>2, PostsStep DEF Correct
<1>3. ASSUME NEW r, Begins(r), r.kind # "bookings" PROVE BookingsOK'
  BY <1>3, BookingsRest DEF Begins, tables, bank
<1>4. CASE BeginAccounts
  BY <1>3, <1>4 DEF BeginAccounts, Request
<1>5. ASSUME NEW a \in Accounts, BeginBookings(a) PROVE BookingsOK'
  BY <1>5, BeginBookingsStep
<1>6. ASSUME NEW a \in Accounts, BeginBalance(a) \/ BeginOrders(a) PROVE BookingsOK'
  BY <1>3, <1>6 DEF BeginBalance, BeginOrders, Request
<1>7. CASE StoreAccount
  BY <1>7, BookingsRest DEF StoreAccount, Handles, bank, truth
<1>8. CASE StoreBooking
  BY <1>8, StoreBookingStep
<1>9. CASE StoreStandingOrder
  BY <1>9, BookingsRest DEF StoreStandingOrder, Handles, tables, bank, truth
<1>10. CASE StoreBalance
  BY <1>10, BookingsRest DEF StoreBalance, Ends, NoRun, bank
<1>11. CASE CommitAccounts
  BY <1>11, BookingsRest DEF CommitAccounts, Ends, NoRun, tables, bank
<1>12. CASE CommitBookings
  BY <1>12, CommitBookingsStep
<1>13. CASE CommitOrders
  BY <1>13, BookingsRest DEF CommitOrders, Ends, NoRun, bank
<1>14. CASE DiskFails \/ OrderRefused \/ Crash
  BY <1>14, BookingsRest DEF DiskFails, OrderRefused, Crash, Fails, Rollback, Ends, NoRun, bank
<1>15. CASE UNCHANGED vars
  BY <1>15 DEF vars, tables, inner, bank, truth, BookingsOK, NotAhead, Reached, Final,
              Coming, Handled, NoGap
<1> QED
  BY <1>1, <1>2, <1>4, <1>5, <1>6, <1>7, <1>8, <1>9, <1>10, <1>11, <1>12, <1>13,
     <1>14, <1>15 DEF Next

-----------------------------------------------------------------------------
(* An empty file is consistent.                                            *)
LEMMA InitIInv == Init => IInv
<1> SUFFICES ASSUME Init PROVE IInv
  OBVIOUS
<1>1. TypeOK
  <2>1. 0 \in 0..MaxRuns
    BY BoundAssumption
  <2>2. accounts \in Seq(Accounts) /\ DOMAIN balances \subseteq DOMAIN accounts
    BY EmptySeq DEF Init
  <2> QED
    BY <2>1, <2>2 DEF Init, TypeOK, NoRun
<1>2. RunOK
  BY DEF Init, RunOK, NoRun
<1>3. OrdersOK
  BY DEF Init, OrdersOK, OneRow
<1>4. BookingsOK
  BY DEF Init, BookingsOK, NotAhead, Reached, Final, Coming, NoRun, NoGap
<1>5. FiguresAreOwn
  BY EmptySeq, LenProperties DEF Init, FiguresAreOwn
<1> QED
  BY <1>1, <1>2, <1>3, <1>4, <1>5 DEF IInv, Types

(* The inductive invariant holds in every reachable state.                 *)
THEOREM RowsHold == Spec => []IInv
<1>1. IInv /\ [Next]_vars => IInv'
  BY TypesStep, OrdersStep, BookingsStep, FiguresStep DEF IInv
<1> QED
  BY <1>1, InitIInv, PTL DEF Spec

(* Every variable keeps its type.                                          *)
THEOREM RowTypes == Spec => []TypeOK
<1>1. IInv => TypeOK
  BY DEF IInv, Types
<1> QED
  BY <1>1, RowsHold, PTL

(* Whatever is cut off, refused or corrected, every booking the bank held  *)
(* when a fetch asked it, and whose run was stored, is in the file: the    *)
(* starting point (latestTransactionDate less fetchLeadDays) never moves   *)
(* past a booking nobody holds.                                            *)
THEOREM NothingIsSkipped == Spec => []NoGap
<1>1. IInv => NoGap
  BY DEF IInv, BookingsOK
<1> QED
  BY <1>1, RowsHold, PTL

(* No two rows of an account stand under one identifier of the institution *)
(* (existingStandingOrderOn, storeStandingOrderOn).                        *)
THEOREM IdentifiersStandForOneOrder == Spec => []OneRowPerIdentifier
<1>1. IInv => OneRowPerIdentifier
  BY DEF IInv, OrdersOK, OneRow, OneRowPerIdentifier
<1> QED
  BY <1>1, RowsHold, PTL

(* The figure beside an account is its own, and a fetched one stays        *)
(* fetched (storeBalanceOn, placeholderBalanceInsertQuery).                *)
THEOREM FiguresHold == Spec => []FiguresAreOwn
<1>1. IInv => FiguresAreOwn
  BY DEF IInv
<1> QED
  BY <1>1, RowsHold, PTL

-----------------------------------------------------------------------------
(* The holding of standing orders, and the count.                          *)

(* One row of an account under a fingerprint, as the unique index has it.  *)
OnePrint(rows) == \A r, s \in rows : r.of = s.of /\ r.fp = s.fp => r = s

Indexed(rows) == IsFiniteSet(rows) /\ OnePrint(rows)

(* A record before the n-th took the row of order i.                       *)
DisplacedBefore(n, i) ==
  \E j \in DOMAIN run.items : j < n /\ j > i /\
    \/ run.items[j].fp = run.items[i].fp
    \/ run.items[j].fi = run.items[i].fi /\ run.items[j].fi # NoId

(* What a run of orders has done when its n-th record is due.              *)
StoredBefore(n) ==
  {Written(run.of, run.items[i]) :
     i \in {j \in DOMAIN run.items : j < n /\ ~DisplacedBefore(n, j)}}

OrdersDone ==
  run.kind = "orders" =>
    /\ Cardinality(draftOrders) = Cardinality(orders) + stored
    /\ touched = StoredBefore(at) /\ touched \subseteq draftOrders
    /\ \A r \in draftOrders : r.ended => r \in orders
    /\ \A r \in orders \cup draftOrders : r.of # run.of => r \in orders /\ r \in draftOrders

BookingsDone ==
  run.kind = "bookings" => Cardinality(draftHeld) = Cardinality(held) + stored

DoneOK == Indexed(orders) /\ Indexed(draftOrders) /\ OrdersDone /\ BookingsDone

(* A row that stands belongs to the order that is written exactly where    *)
(* they share the fingerprint or the identifier.                           *)
LEMMA MatchedRows ==
  ASSUME NEW rows, OneRow(rows), NEW a, NEW o, ~IndexRefuses(a, o, rows),
         NEW t \in rows, t.of = a
  PROVE  t \in ExistingStandingOrder(a, o, rows) <=>
           t.fp = o.fp \/ (t.fi = o.fi /\ o.fi # NoId)
<1>1. ASSUME t.fp = o.fp PROVE t \in ExistingStandingOrder(a, o, rows)
  BY <1>1 DEF IndexRefuses
<1>2. ASSUME t.fi = o.fi, o.fi # NoId PROVE t \in ExistingStandingOrder(a, o, rows)
  BY <1>2, MatchesItsIdentifier
<1>3. ASSUME t \in ExistingStandingOrder(a, o, rows)
      PROVE  t.fp = o.fp \/ (t.fi = o.fi /\ o.fi # NoId)
  <2>1. t \in SameId(a, o, rows) \/ t \in SamePrint(o, SameId(a, o, rows))
          \/ t \in SamePrint(o, RowsOf(a, rows))
    BY <1>3 DEF ExistingStandingOrder
  <2> QED
    BY <2>1 DEF SameId, SamePrint
<1> QED
  BY <1>1, <1>2, <1>3

(* There is one such row at most.                                          *)
LEMMA OneIsMatched ==
  ASSUME NEW rows, OnePrint(rows), NEW a, NEW o
  PROVE  /\ ExistingStandingOrder(a, o, rows) \subseteq RowsOf(a, rows)
         /\ \A r, s \in ExistingStandingOrder(a, o, rows) : r = s
<1> DEFINE same == SameId(a, o, rows)
<1>1. \A r, s \in SamePrint(o, RowsOf(a, rows)) : r = s
  BY DEF SamePrint, RowsOf, OnePrint
<1>2. same \subseteq RowsOf(a, rows)
  BY DEF SameId
<1>3. SamePrint(o, same) \subseteq SamePrint(o, RowsOf(a, rows))
  BY <1>2 DEF SamePrint
<1>4. SamePrint(o, RowsOf(a, rows)) \subseteq RowsOf(a, rows)
  BY DEF SamePrint
<1>5. CASE \E r \in same : same = {r}
  <2>1. ExistingStandingOrder(a, o, rows) = same
    BY <1>5 DEF ExistingStandingOrder
  <2> QED
    BY <1>2, <1>5, <2>1
<1>6. CASE ~(\E r \in same : same = {r})
  <2>1. ExistingStandingOrder(a, o, rows) \subseteq SamePrint(o, RowsOf(a, rows))
    BY <1>3, <1>6 DEF ExistingStandingOrder
  <2> QED
    BY <1>1, <1>4, <2>1
<1> QED
  BY <1>5, <1>6

(* An order the index lets in is one row more, or stands in the place of   *)
(* the one it belongs to.                                                  *)
LEMMA StoreOrderCounts ==
  ASSUME NEW rows, Indexed(rows), NEW a, NEW o, ~IndexRefuses(a, o, rows)
  PROVE  /\ Indexed(StoreOrder(a, o, rows))
         /\ Cardinality(StoreOrder(a, o, rows)) = Cardinality(rows) + CountOfOrder(a, o, rows)
<1> DEFINE old == ExistingStandingOrder(a, o, rows)
           new == Written(a, o)
<1>1. old \subseteq rows /\ \A r, s \in old : r = s
  BY OneIsMatched DEF Indexed, RowsOf
<1>2. new.of = a /\ new.fp = o.fp
  BY DEF Written
<1>3. \A r \in rows \ old : ~(r.of = a /\ r.fp = o.fp)
  BY DEF IndexRefuses
<1>4. StoreOrder(a, o, rows) = (rows \ old) \cup {new}
  BY DEF StoreOrder
<1>5. CountOfOrder(a, o, rows) = IF old = {} THEN 1 ELSE 0
  BY DEF CountOfOrder
<1> HIDE DEF old, new
<1>6. new \notin rows \ old
  BY <1>2, <1>3
<1>7. OnePrint(StoreOrder(a, o, rows))
  <2>1. OnePrint(rows \ old)
    BY DEF Indexed, OnePrint
  <2> QED
    BY <1>2, <1>3, <1>4, <2>1 DEF OnePrint
<1>8. /\ IsFiniteSet(rows \ old)
      /\ Cardinality(rows \ old) = Cardinality(rows) - (IF old = {} THEN 0 ELSE 1)
  <2>1. Cardinality(rows) \in Nat /\ IsFiniteSet(rows)
    BY FS_CardinalityType DEF Indexed
  <2>2. CASE old = {}
    <3>1. rows \ old = rows
      BY <2>2
    <3> QED
      BY <2>1, <2>2, <3>1
  <2>3. CASE old # {}
    <3>1. PICK r : r \in old
      BY <2>3
    <3>2. rows \ old = rows \ {r} /\ r \in rows
      BY <1>1, <3>1
    <3> QED
      BY <2>1, <2>3, <3>2, FS_RemoveElement
  <2> QED
    BY <2>2, <2>3
<1>9. /\ IsFiniteSet(StoreOrder(a, o, rows))
      /\ Cardinality(StoreOrder(a, o, rows)) = Cardinality(rows \ old) + 1
  BY <1>4, <1>6, <1>8, FS_AddElement
<1>10. Cardinality(rows) \in Nat
  BY FS_CardinalityType DEF Indexed
<1> QED
  BY <1>5, <1>7, <1>8, <1>9, <1>10 DEF Indexed

(* Marking merges no two rows.                                             *)
LEMMA MarkEndedCounts ==
  ASSUME NEW rows, Indexed(rows), NEW a, NEW t
  PROVE  /\ Indexed(MarkEnded(a, rows, t))
         /\ Cardinality(MarkEnded(a, rows, t)) = Cardinality(rows)
<1> DEFINE mark == [r \in rows |-> IF r.of = a /\ r \notin t THEN Ended(r) ELSE r]
           marked == MarkEnded(a, rows, t)
<1>1. marked = {mark[r] : r \in rows}
  BY DEF MarkEnded
<1>2. \A r \in rows : mark[r].of = r.of /\ mark[r].fp = r.fp
  BY DEF Ended
<1>3. mark \in [rows -> marked]
  BY <1>1
<1> HIDE DEF mark, marked
<1>4. \A r, s \in rows : mark[r].of = mark[s].of /\ mark[r].fp = mark[s].fp => r = s
  BY <1>2 DEF Indexed, OnePrint
<1>5. OnePrint(marked)
  BY <1>1, <1>4 DEF OnePrint
<1>6. mark \in Injection(rows, marked) /\ mark \in Surjection(rows, marked)
  BY <1>1, <1>3, <1>4 DEF Injection, IsInjective, Surjection
<1>7. ExistsBijection(rows, marked)
  BY <1>6 DEF ExistsBijection, Bijection
<1> QED
  BY <1>5, <1>7, FS_Bijection DEF Indexed, marked

(* A run of orders goes out over the holding as it is.                     *)
LEMMA BeginOrdersDone ==
  ASSUME Types', DoneOK, NEW r, Begins(r)
  PROVE  DoneOK'
<1>1. /\ run' = r /\ at' = 1 /\ stored' = 0 /\ touched' = {}
      /\ draftHeld' = held /\ draftOrders' = orders /\ UNCHANGED <<held, orders>>
  BY DEF Begins, tables
<1>2. Indexed(orders)' /\ Indexed(draftOrders)'
  BY <1>1 DEF DoneOK, Indexed, OnePrint
<1>3. IsFiniteSet(held) /\ Cardinality(held) \in Nat
  <2>1. held \subseteq Bookings
    BY <1>1 DEF Types, TypeOK
  <2> QED
    BY <2>1, BankAssumption, FS_Subset, FS_CardinalityType
<1>4. BookingsDone'
  BY <1>1, <1>3 DEF BookingsDone
<1>5. OrdersDone'
  <2> SUFFICES ASSUME r.kind = "orders"
               PROVE  /\ Cardinality(orders) = Cardinality(orders) + 0
                      /\ StoredBefore(1)' = {}
    BY <1>1 DEF OrdersDone
  <2>1. Cardinality(orders) \in Nat
    BY FS_CardinalityType DEF DoneOK, Indexed
  <2>2. r.items \in Seq(Order)
    BY <1>1 DEF Types, RunOK
  <2>3. DOMAIN r.items = 1..Len(r.items) /\ Len(r.items) \in Nat
    BY <2>2, LenProperties
  <2>4. \A j \in DOMAIN r.items : ~(j < 1)
    BY <2>3
  <2> QED
    BY <1>1, <2>1, <2>4 DEF StoredBefore
<1> QED
  BY <1>2, <1>4, <1>5 DEF DoneOK

(* One order more is stored.                                               *)
LEMMA StoreStandingOrderDone ==
  ASSUME Types, OrdersOK, DoneOK, StoreStandingOrder
  PROVE  DoneOK'
<1> DEFINE a == run.of
           o == Item
           old == ExistingStandingOrder(a, o, draftOrders)
<1>1. /\ run.kind = "orders" /\ UNCHANGED <<orders, held, run, draftHeld>>
      /\ ~IndexRefuses(a, o, draftOrders)
      /\ draftOrders' = StoreOrder(a, o, draftOrders)
      /\ touched' = TouchOrder(a, o, draftOrders, touched)
      /\ at' = at + 1 /\ stored' = stored + CountOfOrder(a, o, draftOrders)
  BY DEF StoreStandingOrder, Handles, Counted, tables
<1>2. /\ Indexed(draftOrders)'
      /\ Cardinality(draftOrders') =
           Cardinality(draftOrders) + CountOfOrder(a, o, draftOrders)
  BY <1>1, StoreOrderCounts DEF DoneOK
<1>3. draftOrders' = (draftOrders \ old) \cup {Written(a, o)}
  BY <1>1 DEF StoreOrder
<1>4. touched' = (touched \ old) \cup {Written(a, o)}
  BY <1>1 DEF TouchOrder
<1>5. old \subseteq RowsOf(a, draftOrders)
  BY OneIsMatched DEF DoneOK, Indexed
<1>6. Written(a, o).of = a /\ Written(a, o).ended = FALSE
  BY DEF Written
<1>7. /\ touched = StoredBefore(at) /\ touched \subseteq draftOrders
      /\ \A r \in draftOrders : r.ended => r \in orders
      /\ \A r \in orders \cup draftOrders : r.of # a => r \in orders /\ r \in draftOrders
      /\ Cardinality(draftOrders) = Cardinality(orders) + stored
  BY <1>1 DEF DoneOK, OrdersDone
<1>8. Cardinality(draftOrders') = Cardinality(orders) + stored'
  <2>1. /\ Cardinality(orders) \in Nat /\ stored \in Nat
        /\ CountOfOrder(a, o, draftOrders) \in Nat
    BY FS_CardinalityType DEF DoneOK, Indexed, Types, TypeOK, CountOfOrder
  <2> QED
    BY <1>1, <1>2, <1>7, <2>1
<1>9. touched' = StoredBefore(at + 1)
  <2>1. at \in DOMAIN run.items /\ at \in Nat /\ DOMAIN run.items \subseteq Nat
    <3>1. run.items \in Seq(Order) /\ at \in Nat /\ at >= 1 /\ at <= Len(run.items)
      BY <1>1 DEF Types, TypeOK, RunOK, StoreStandingOrder, Handles
    <3> QED
      BY <3>1, LenProperties
  <2> DEFINE hits(i) == \/ run.items[at].fp = run.items[i].fp
                        \/ run.items[at].fi = run.items[i].fi /\ run.items[at].fi # NoId
             row(i) == Written(a, run.items[i])
             kept == {j \in DOMAIN run.items : j < at /\ ~DisplacedBefore(at, j)}
             next == {j \in DOMAIN run.items : j < at + 1 /\ ~DisplacedBefore(at + 1, j)}
  <2>2. \A i \in kept : row(i) \in old <=> hits(i)
    <3> SUFFICES ASSUME NEW i \in kept PROVE row(i) \in old <=> hits(i)
      OBVIOUS
    <3>1. row(i) \in draftOrders
      BY <1>7 DEF StoredBefore
    <3>2. /\ row(i).of = a /\ row(i).fp = run.items[i].fp /\ row(i).fi = run.items[i].fi
      BY DEF Written
    <3>3. row(i) \in old <=> row(i).fp = o.fp \/ (row(i).fi = o.fi /\ o.fi # NoId)
      <4> HIDE DEF row
      <4> QED
        BY <1>1, <3>1, <3>2, MatchedRows DEF OrdersOK
    <3> QED
      BY <3>2, <3>3 DEF Item
  <2>3. \A i \in DOMAIN run.items : i < at =>
          (DisplacedBefore(at + 1, i) <=> DisplacedBefore(at, i) \/ hits(i))
    <3>1. \A j \in DOMAIN run.items : j < at + 1 <=> j < at \/ j = at
      BY <2>1
    <3>2. \A i \in DOMAIN run.items : i < at <=> at > i
      BY <2>1
    <3> QED
      BY <2>1, <3>1, <3>2 DEF DisplacedBefore
  <2>4. ~DisplacedBefore(at + 1, at)
    BY <2>1 DEF DisplacedBefore
  <2>5. next = {i \in kept : ~hits(i)} \cup {at}
    <3>1. \A j \in DOMAIN run.items : j < at + 1 <=> j < at \/ j = at
      BY <2>1
    <3> HIDE DEF hits
    <3> QED
      BY <2>1, <2>3, <2>4, <3>1
  <2>6. StoredBefore(at) = {row(i) : i \in kept}
    BY DEF StoredBefore
  <2>7. StoredBefore(at + 1) = {row(i) : i \in next}
    BY DEF StoredBefore
  <2>8. row(at) = Written(a, o)
    BY DEF Item
  <2> HIDE DEF hits, row, kept, next, old
  <2> QED
    BY <1>4, <1>7, <2>2, <2>5, <2>6, <2>7, <2>8
<1>10. OrdersDone'
  <2>1. touched' \subseteq draftOrders'
    BY <1>3, <1>4, <1>7
  <2>2. \A r \in draftOrders' : r.ended => r \in orders
    BY <1>3, <1>6, <1>7
  <2>3. \A r \in orders \cup draftOrders' : r.of # a => r \in orders /\ r \in draftOrders'
    BY <1>3, <1>5, <1>6, <1>7 DEF RowsOf
  <2>4. touched' = StoredBefore(at)'
    BY <1>1, <1>9 DEF StoredBefore, DisplacedBefore
  <2> HIDE DEF old, o
  <2> QED
    BY <1>1, <1>8, <2>1, <2>2, <2>3, <2>4 DEF OrdersDone
<1> QED
  BY <1>1, <1>2, <1>10 DEF DoneOK, BookingsDone, Indexed, OnePrint

(* A booking more: it counts where the hash was not there.                 *)
LEMMA StoreBookingDone ==
  ASSUME Types, DoneOK, StoreBooking
  PROVE  DoneOK'
<1>1. /\ run.kind = "bookings" /\ UNCHANGED <<held, orders, run, draftOrders>>
      /\ draftHeld' = draftHeld \cup {Item}
      /\ stored' = stored + (IF Item \in draftHeld THEN 0 ELSE 1)
  BY DEF StoreBooking, Handles, Counted, tables
<1>2. IsFiniteSet(draftHeld) /\ IsFiniteSet(held)
  BY BankAssumption, FS_Subset DEF Types, TypeOK
<1>3. Cardinality(draftHeld') = Cardinality(draftHeld) + (IF Item \in draftHeld THEN 0 ELSE 1)
  BY <1>1, <1>2, FS_AddElement, FS_CardinalityType
<1>4. /\ Cardinality(held) \in Nat /\ stored \in Nat
      /\ Cardinality(draftHeld) = Cardinality(held) + stored
  BY <1>1, <1>2, FS_CardinalityType DEF Types, TypeOK, DoneOK, BookingsDone
<1>5. BookingsDone'
  BY <1>1, <1>3, <1>4 DEF BookingsDone
<1> QED
  BY <1>1, <1>5 DEF DoneOK, OrdersDone, Indexed, OnePrint

(* Nothing is out any more.                                                *)
LEMMA EndsDone ==
  ASSUME NEW n, Ends(n), Indexed(orders')
  PROVE  DoneOK'
<1>1. run'.kind = "none" /\ draftOrders' = {}
  BY DEF Ends, NoRun
<1>2. Indexed(draftOrders)' /\ Indexed(orders)'
  BY <1>1, FS_EmptySet DEF Indexed, OnePrint
<1> QED
  BY <1>1, <1>2 DEF DoneOK, OrdersDone, BookingsDone

(* Every step keeps what a run has done in step with what it counted.      *)
LEMMA DoneStep == IInv /\ DoneOK /\ [Next]_vars => DoneOK'
<1> SUFFICES ASSUME IInv, DoneOK, [Next]_vars PROVE DoneOK'
  OBVIOUS
<1>0. Types /\ OrdersOK /\ Types' /\ Indexed(orders)
  BY TypesStep DEF IInv, DoneOK
<1>1. ASSUME NEW r, Begins(r) PROVE DoneOK'
  BY <1>0, <1>1, BeginOrdersDone
<1>2. ASSUME NEW n, Ends(n), orders' = orders PROVE DoneOK'
  BY <1>0, <1>2, EndsDone
<1>3. ASSUME UNCHANGED <<held, orders, run, draftHeld, draftOrders, touched, at, stored>>
      PROVE  DoneOK'
  BY <1>3 DEF DoneOK, Indexed, OnePrint, OrdersDone, BookingsDone, StoredBefore,
              DisplacedBefore
<1>4. ASSUME NEW b, Posts(b) PROVE DoneOK'
  BY <1>3, <1>4 DEF Posts, tables, inner
<1>5. CASE StoreAccount
  <2>1. /\ run.kind = "accounts"
        /\ UNCHANGED <<held, orders, run, draftHeld, draftOrders, touched>>
    BY <1>5 DEF StoreAccount, Handles
  <2> QED
    BY <2>1 DEF DoneOK, Indexed, OnePrint, OrdersDone, BookingsDone
<1>6. CASE StoreBooking
  BY <1>0, <1>6, StoreBookingDone
<1>7. CASE StoreStandingOrder
  BY <1>0, <1>7, StoreStandingOrderDone
<1>8. CASE StoreBalance
  BY <1>2, <1>8 DEF StoreBalance
<1>9. CASE CommitAccounts \/ CommitBookings
  BY <1>2, <1>9 DEF CommitAccounts, CommitBookings, tables
<1>10. CASE CommitOrders
  <2>1. /\ Ends(stored)
        /\ orders' = IF MarksEnded(run) THEN MarkEnded(run.of, draftOrders, touched)
                     ELSE draftOrders
    BY <1>10 DEF CommitOrders
  <2>2. Indexed(draftOrders)
    BY DEF DoneOK
  <2>3. Indexed(orders')
    BY <2>1, <2>2, MarkEndedCounts
  <2> QED
    BY <2>1, <2>3, EndsDone
<1>11. ASSUME NEW n, Fails(n) PROVE DoneOK'
  BY <1>2, <1>11 DEF Fails, Rollback
<1>12. CASE UNCHANGED vars
  BY <1>3, <1>12 DEF vars, tables, inner
<1> QED
  BY <1>1, <1>4, <1>5, <1>6, <1>7, <1>8, <1>9, <1>10, <1>11, <1>12
     DEF Next, Post, Correct, BeginAccounts, BeginBookings, BeginBalance, BeginOrders,
         DiskFails, OrderRefused, Crash

(* The rows and the count of a run go together in every reachable state.   *)
THEOREM CountsHold == Spec => [](IInv /\ DoneOK)
<1>1. Init => DoneOK
  BY FS_EmptySet DEF Init, DoneOK, Indexed, OnePrint, OrdersDone, BookingsDone, NoRun
<1>2. IInv /\ DoneOK /\ [Next]_vars => DoneOK'
  BY DoneStep
<1> QED
  BY <1>1, <1>2, RowsHold, PTL DEF Spec

(* How a step meets a run of bookings or orders: it stores it, drops it,   *)
(* or leaves it out and the tables alone.                                  *)
LEMMA RunEnds ==
  ASSUME [Next]_vars, run.kind \in {"bookings", "orders"}
  PROVE  \/ CommitBookings \/ CommitOrders
         \/ run' = NoRun /\ told' = 0 /\ UNCHANGED <<held, orders>>
         \/ UNCHANGED <<run, held, orders>>
<1>1. run # NoRun
  BY DEF NoRun
<1>2. ASSUME NEW r, Begins(r) PROVE FALSE
  BY <1>1, <1>2 DEF Begins
<1>3. ASSUME NEW n, Fails(n), n \in {0, CountAfterFailure}
      PROVE  run' = NoRun /\ told' = 0 /\ UNCHANGED <<held, orders>>
  BY <1>3 DEF Fails, Rollback, Ends, CountAfterFailure
<1>4. ASSUME NEW b, Posts(b) PROVE UNCHANGED <<run, held, orders>>
  BY <1>4 DEF Posts, tables
<1>5. CASE StoreAccount \/ StoreBooking \/ StoreStandingOrder \/ UNCHANGED vars
  BY <1>5 DEF StoreAccount, StoreBooking, StoreStandingOrder, tables, vars
<1>6. CASE StoreBalance \/ CommitAccounts
  BY <1>6 DEF StoreBalance, CommitAccounts, Handles
<1> QED
  BY <1>2, <1>3, <1>4, <1>5, <1>6
     DEF Next, Post, Correct, BeginAccounts, BeginBookings, BeginBalance, BeginOrders,
         DiskFails, OrderRefused, Crash

(* What was written in a run that came to its end are the reported orders  *)
(* no later one displaced.                                                 *)
LEMMA StoredAtTheEnd ==
  ASSUME Types, run.kind = "orders", at > Len(run.items)
  PROVE  StoredBefore(at) =
           {Written(run.of, run.items[i]) : i \in {j \in DOMAIN run.items : ~Displaced(j)}}
<1>1. /\ DOMAIN run.items = 1..Len(run.items) /\ Len(run.items) \in Nat /\ at \in Nat
  BY LenProperties DEF Types, TypeOK, RunOK
<1>2. \A j \in DOMAIN run.items : j < at
  BY <1>1
<1>3. \A i : DisplacedBefore(at, i) <=> Displaced(i)
  BY <1>2 DEF DisplacedBefore, Displaced
<1> QED
  BY <1>2, <1>3 DEF StoredBefore

(* When a run of orders is stored, its account holds what was reported and *)
(* nothing else without a mark, a fetch that was cut short sets no mark,   *)
(* and other accounts are left alone (storeStandingOrderOn,                *)
(* markEndedStandingOrdersOn).                                             *)
THEOREM HoldingsAreTheAnswer == Spec => AnswerIsTheHolding
<1> DEFINE Reported ==
      {Written(run.of, run.items[i]) : i \in {j \in DOMAIN run.items : ~Displaced(j)}}
<1>1. ASSUME IInv, DoneOK, CommitOrders
      PROVE  /\ run.succeeded => Live(RowsOf(run.of, orders')) = Reported
             /\ ~run.succeeded => \A r \in orders' : r.ended => r \in orders
             /\ \A r \in orders \cup orders' : r.of # run.of => r \in orders /\ r \in orders'
  <2> DEFINE a == run.of
             mark(r) == IF r.of = a /\ r \notin touched THEN Ended(r) ELSE r
  <2>1. /\ run.kind = "orders" /\ at > Len(run.items)
        /\ orders' = IF run.succeeded THEN {mark(r) : r \in draftOrders} ELSE draftOrders
    BY <1>1 DEF CommitOrders, MarksEnded, MarkEnded
  <2>2. /\ touched \subseteq draftOrders
        /\ \A r \in draftOrders : r.ended => r \in orders
        /\ \A r \in orders \cup draftOrders : r.of # a => r \in orders /\ r \in draftOrders
    BY <1>1, <2>1 DEF DoneOK, OrdersDone
  <2>3. touched = Reported
    BY <1>1, <2>1, StoredAtTheEnd DEF DoneOK, OrdersDone, IInv
  <2>4. \A r \in touched : r.of = a /\ ~r.ended
    BY <2>3 DEF Written
  <2>5. \A r : /\ mark(r).of = r.of
               /\ r.of # a => mark(r) = r
               /\ r.of = a /\ r \notin touched => mark(r).ended
               /\ r \in touched => mark(r) = r
    BY DEF Ended
  <2> HIDE DEF mark, Reported
  <2>6. ASSUME run.succeeded PROVE Live(RowsOf(a, orders')) = touched
    <3>1. orders' = {mark(r) : r \in draftOrders}
      BY <2>1, <2>6
    <3>2. ASSUME NEW s \in touched PROVE s \in Live(RowsOf(a, orders'))
      <4>1. s \in orders' /\ s.of = a /\ ~s.ended
        BY <2>2, <2>4, <2>5, <3>1, <3>2
      <4> QED
        BY <4>1 DEF Live, RowsOf
    <3>3. ASSUME NEW s \in Live(RowsOf(a, orders')) PROVE s \in touched
      <4>1. s \in orders' /\ s.of = a /\ ~s.ended
        BY <3>3 DEF Live, RowsOf
      <4>2. PICK r \in draftOrders : s = mark(r)
        BY <3>1, <4>1
      <4> QED
        BY <2>5, <4>1, <4>2
    <3> QED
      BY <3>2, <3>3
  <2>7. ASSUME NEW r \in orders \cup orders', r.of # a PROVE r \in orders /\ r \in orders'
    <3>1. CASE run.succeeded
      <4>1. r \in orders \cup draftOrders
        BY <2>1, <2>5, <2>7, <3>1
      <4>2. r \in orders /\ r \in draftOrders /\ mark(r) = r
        BY <2>2, <2>5, <2>7, <4>1
      <4> QED
        BY <2>1, <3>1, <4>2
    <3>2. CASE ~run.succeeded
      BY <2>1, <2>2, <2>7, <3>2
    <3> QED
      BY <3>1, <3>2
  <2> QED
    BY <2>1, <2>2, <2>3, <2>6, <2>7
<1>2. ASSUME IInv, DoneOK, [Next]_vars, run.kind = "orders", orders' # orders
      PROVE  CommitOrders
  BY <1>2, RunEnds DEF CommitBookings
<1>3. IInv /\ DoneOK /\ [Next]_vars =>
        [run.kind = "orders" /\ orders' # orders =>
           /\ run.succeeded => Live(RowsOf(run.of, orders')) = Reported
           /\ ~run.succeeded => \A r \in orders' : r.ended => r \in orders
           /\ \A r \in orders \cup orders' : r.of # run.of => r \in orders /\ r \in orders'
        ]_vars
  BY <1>1, <1>2
<1> QED
  BY <1>3, CountsHold, PTL DEF Spec, AnswerIsTheHolding

(* However a run of bookings or orders ends, the number it reports is the  *)
(* number of rows that came into the file by it (writeItems,               *)
(* insertedRowsOf).                                                        *)
THEOREM CountsAreTrue == Spec => CountIsTrue
<1> DEFINE Came == (Cardinality(held') - Cardinality(held))
                   + (Cardinality(orders') - Cardinality(orders))
<1>1. ASSUME IInv, DoneOK
      PROVE  /\ Cardinality(held) \in Nat /\ Cardinality(orders) \in Nat /\ stored \in Nat
  <2>1. IsFiniteSet(held) /\ IsFiniteSet(orders) /\ stored \in Nat
    BY <1>1, BankAssumption, FS_Subset DEF IInv, Types, TypeOK, DoneOK, Indexed
  <2> QED
    BY <2>1, FS_CardinalityType
<1>2. ASSUME IInv, DoneOK, CommitBookings PROVE told' = Came
  <2>1. /\ told' = stored /\ held' = draftHeld /\ orders' = orders /\ run.kind = "bookings"
    BY <1>2 DEF CommitBookings, Ends
  <2>2. Cardinality(draftHeld) = Cardinality(held) + stored
    BY <1>2, <2>1 DEF DoneOK, BookingsDone
  <2> QED
    BY <1>1, <1>2, <2>1, <2>2
<1>3. ASSUME IInv, DoneOK, CommitOrders PROVE told' = Came
  <2>1. /\ told' = stored /\ held' = held /\ run.kind = "orders"
        /\ orders' = IF MarksEnded(run) THEN MarkEnded(run.of, draftOrders, touched)
                     ELSE draftOrders
    BY <1>3 DEF CommitOrders, Ends
  <2>2. Cardinality(draftOrders) = Cardinality(orders) + stored /\ Indexed(draftOrders)
    BY <1>3, <2>1 DEF DoneOK, OrdersDone
  <2>3. Cardinality(orders') = Cardinality(draftOrders)
    BY <2>1, <2>2, MarkEndedCounts
  <2> QED
    BY <1>1, <1>3, <2>1, <2>2, <2>3
<1>4. ASSUME IInv, DoneOK, told' = 0, UNCHANGED <<held, orders>> PROVE told' = Came
  BY <1>1, <1>4
<1>5. ASSUME IInv, DoneOK, [Next]_vars, run.kind \in {"bookings", "orders"}, run' = NoRun
      PROVE  told' = Came
  <2>1. run' # run
    BY <1>5 DEF NoRun
  <2> HIDE DEF Came
  <2> QED
    BY <1>2, <1>3, <1>4, <1>5, <2>1, RunEnds
<1>6. IInv /\ DoneOK /\ [Next]_vars =>
        [run.kind \in {"bookings", "orders"} /\ run' = NoRun => told' = Came]_vars
  BY <1>5
<1> QED
  BY <1>6, CountsHold, PTL DEF Spec, CountIsTrue
=============================================================================
