---------------------------- MODULE TableReaders ----------------------------
(***************************************************************************)
(* The readers of a storage and what the user sees of it: the table of the *)
(* bookings (TransactionTableModel), the table of the standing orders      *)
(* (StandingOrderTableModel) and the account tree, which the overview      *)
(* (StorageDialog) fills when a storage is opened and the window           *)
(* (App::refreshFromStorage) fills again after a fetch.                    *)
(*                                                                         *)
(* All four share the one read way of Storage.  Its signals are broadcast: *)
(* first the result goes to everybody, then the end.  The tables are       *)
(* connected for good and hear an end before the single shot slots of the  *)
(* window and of the overview do.                                          *)
(*                                                                         *)
(* A booking is its number within its account: a later one carries a later *)
(* date.  The table shows them newest first (the default order) or oldest  *)
(* first and reads them in pages.                                          *)
(***************************************************************************)
EXTENDS Naturals, Sequences, FiniteSets

CONSTANTS
  Files,          \* storage files
  NoFile,         \* no storage is open
  Accounts,       \* the accounts of all files together
  NoAccount,      \* m_accountId == 0
  HomeOf,         \* the file an account is kept in
  PageSize,       \* TransactionTableModel::PageSize
  Held,           \* how many bookings the files hold of an account at first
  MaxBookings,    \* bound: bookings of one account
  MaxGeneration,  \* bound: connections that fall
  MaxActs,        \* bound: choices of an account or an order by the user
  MaxSetups       \* bound: runs of the setup wizard

ASSUME ReadersAssumption ==
  /\ NoFile \notin Files /\ NoAccount \notin Accounts
  /\ HomeOf \in [Accounts -> Files]
  /\ PageSize \in Nat \ {0}
  /\ Held \in [Accounts -> 0..MaxBookings]
  /\ {MaxBookings, MaxGeneration, MaxActs, MaxSetups} \subseteq Nat

VARIABLES
  file,        \* the open storage
  generation,  \* m_connectionGeneration
  holding,     \* how many bookings the file holds of an account
  written,     \* whether a fetch wrote what no refresh has shown yet
  read,        \* the read run that is out
  telling,     \* the end that is being told
  toHear,      \* who is still to be told
  slot,        \* a slot that is halfway through: it asks before it returns
  takers,      \* single shot connections that put the next result into the tree
  banking,     \* the window shows its second page
  active,      \* the accounts marked as kept in the files
  tree,        \* the accounts the tree shows
  account,     \* m_accountId of both tables
  order,       \* m_sortOrder of the bookings, over the column of the date
  tx,          \* the table of the bookings
  so,          \* the table of the standing orders
  app,         \* refreshFromStorage: whether it reads, and the choice it keeps
  dialog,      \* whether the overview reads the accounts
  due,         \* a call of refreshFromStorage is in the event loop
  acts, setups

\* For the properties: a read of the accounts failed since the tree was filled.
VARIABLE unread

storageVars == <<file, generation, holding, active, written, unread>>
wayVars == <<read, telling, toHear, slot, takers>>
vars == <<storageVars, wayVars, banking, tree, account, order, tx, so, app,
          dialog, due, acts, setups>>

(* Mutation: the slots of the window and the overview are told first.      *)
WindowFirst == <<"app", "dialog", "tx", "so">>

(* Who is told, in the order they connected.                               *)
Listeners == <<"tx", "so", "app", "dialog">>
Readers == {"tx", "so", "app", "dialog"}

-----------------------------------------------------------------------------
(* The holding of an account in one of the two orders, and the window of a *)
(* read over it.                                                           *)

Booking(a, n) == [of |-> a, number |-> n]

InOrder(a, o, n) ==
  [i \in 1..n |-> Booking(a, IF o = "newest" THEN n + 1 - i ELSE i)]

WindowOf(a, o, n, offset) ==
  SubSeq(InOrder(a, o, n), offset + 1,
         IF offset + PageSize < n THEN offset + PageSize ELSE n)

-----------------------------------------------------------------------------
(* The table of the bookings.                                              *)

TxEmpty ==
  [pending |-> FALSE, queued |-> FALSE, deferred |-> FALSE, stale |-> FALSE,
   failed |-> FALSE, previous |-> FALSE, rows |-> <<>>, loaded |-> 0,
   total |-> 0, atEnd |-> FALSE]

(* dropPreviousRows *)
TxDropPrevious(m) ==
  IF m.previous THEN [m EXCEPT !.previous = FALSE, !.rows = <<>>, !.total = 0] ELSE m

(* Mutation: the pages are counted on from where they were.                *)
TxStartOverCounting(m, keep) ==
  LET kept == keep /\ m.rows # <<>>
  IN  [m EXCEPT !.stale = m.pending, !.previous = kept,
                !.rows = IF kept THEN @ ELSE <<>>, !.total = IF kept THEN @ ELSE 0,
                !.atEnd = FALSE, !.failed = FALSE]

(* startOver, up to the request: a run that is out becomes stale.          *)
TxStartOver(m, keep) ==
  LET kept == keep /\ m.rows # <<>>
  IN  [m EXCEPT !.stale = m.pending, !.previous = kept,
                !.rows = IF kept THEN @ ELSE <<>>, !.total = IF kept THEN @ ELSE 0,
                !.loaded = 0, !.atEnd = FALSE, !.failed = FALSE]

(* requestItems comes as far as to call receiveItems. *)
Calls(m, a) == a # NoAccount /\ ~m.pending

(* requestItems; v is what receiveItems answers if it is called.           *)
TxRequest(m, a, v) ==
  IF a = NoAccount THEN m
  ELSE IF m.pending THEN [m EXCEPT !.queued = TRUE]
  ELSE LET asked == [m EXCEPT !.queued = FALSE, !.deferred = FALSE, !.stale = FALSE]
       IN  CASE v = "started" -> [asked EXCEPT !.pending = TRUE]
             [] v = "busy" -> [asked EXCEPT !.deferred = TRUE]
             [] v = "refused" -> TxDropPrevious([asked EXCEPT !.failed = TRUE])

(* Mutation: the generation of the request is not looked at.               *)
TxTakeAnything(m, r) ==
  LET counted == IF r.counted THEN [m EXCEPT !.total = r.count] ELSE m
      loaded == m.loaded + Len(r.items)
  IN  CASE r.kind = "result" ->
             [counted EXCEPT !.rows = IF m.previous THEN r.items ELSE @ \o r.items,
                             !.previous = FALSE, !.loaded = loaded,
                             !.atEnd = \/ @
                                       \/ counted.total > 0 /\ loaded >= counted.total
                                       \/ Len(r.items) < PageSize]
        [] r.kind = "notfound" -> TxDropPrevious([counted EXCEPT !.atEnd = TRUE])
        [] r.kind = "failed" -> TxDropPrevious([counted EXCEPT !.failed = TRUE])

(* takeCount, then takeResult or takeError.                                *)
TxTake(m, r) ==
  LET counted == IF r.counted THEN [m EXCEPT !.total = r.count] ELSE m
      loaded == m.loaded + Len(r.items)
  IN  IF m.stale THEN m
      ELSE CASE r.kind = "result" ->
                  [counted EXCEPT !.rows = IF m.previous THEN r.items ELSE @ \o r.items,
                                  !.previous = FALSE, !.loaded = loaded,
                                  !.atEnd = \/ @
                                            \/ counted.total > 0 /\ loaded >= counted.total
                                            \/ Len(r.items) < PageSize]
             [] r.kind = "notfound" -> TxDropPrevious([counted EXCEPT !.atEnd = TRUE])
             [] r.kind = "failed" -> TxDropPrevious([counted EXCEPT !.failed = TRUE])

(* Mutation: only the way out without a queued request frees the model.    *)
TxEndedHalf(m) ==
  IF ~m.pending THEN [m EXCEPT !.deferred = FALSE]
  ELSE IF m.queued THEN [m EXCEPT !.queued = FALSE]
  ELSE TxDropPrevious([m EXCEPT !.pending = FALSE])

(* runEnded, up to the request it may go on to.                            *)
TxEnded(m) ==
  IF ~m.pending THEN [m EXCEPT !.deferred = FALSE]
  ELSE IF m.queued THEN [m EXCEPT !.pending = FALSE, !.queued = FALSE]
  ELSE TxDropPrevious([m EXCEPT !.pending = FALSE])

(* Mutation: a request that overtook a run of its own is forgotten.        *)
GoesOnIfDeferred(m) == ~m.pending /\ m.deferred

(* Whether the end leads on to requestItems.                               *)
GoesOn(m) == IF m.pending THEN m.queued ELSE m.deferred

-----------------------------------------------------------------------------
(* The table of the standing orders: the whole holding in one window, so   *)
(* its rows are known by their account.                                    *)

SoEmpty ==
  [pending |-> FALSE, queued |-> FALSE, deferred |-> FALSE, stale |-> FALSE,
   previous |-> FALSE, rows |-> NoAccount]

SoDropPrevious(m) ==
  IF m.previous THEN [m EXCEPT !.previous = FALSE, !.rows = NoAccount] ELSE m

SoStartOver(m, keep) ==
  LET kept == keep /\ m.rows # NoAccount
  IN  [m EXCEPT !.stale = m.pending, !.previous = kept,
                !.rows = IF kept THEN @ ELSE NoAccount]

SoRequest(m, a, v) ==
  IF a = NoAccount THEN m
  ELSE IF m.pending THEN [m EXCEPT !.queued = TRUE]
  ELSE LET asked == [m EXCEPT !.queued = FALSE, !.deferred = FALSE, !.stale = FALSE]
       IN  CASE v = "started" -> [asked EXCEPT !.pending = TRUE]
             [] v = "busy" -> [asked EXCEPT !.deferred = TRUE]
             [] v = "refused" -> asked

SoTake(m, r) ==
  IF m.stale THEN m
  ELSE CASE r.kind = "result" -> [m EXCEPT !.previous = FALSE, !.rows = r.account]
         [] r.kind = "notfound" -> SoDropPrevious(m)
         [] r.kind = "failed" -> [m EXCEPT !.previous = FALSE]

SoEnded(m) ==
  IF ~m.pending THEN [m EXCEPT !.deferred = FALSE]
  ELSE [m EXCEPT !.pending = FALSE, !.queued = FALSE]

-----------------------------------------------------------------------------
(* The read way.                                                           *)

(* The accounts of f the tree may show, once they are read.                *)
Kept(f) == {a \in active : HomeOf[a] = f}

NoRead == [stage |-> "none"]

(* receiveItems of c: what it may answer.  The columns of the table are    *)
(* asked from the file, which may fail on an open storage.                 *)
Answers(r) == IF file = NoFile THEN {"refused"}
              ELSE IF r # NoRead THEN {"busy"} ELSE {"started", "refused"}

Started(c, a, o, offset) ==
  [stage |-> "started", by |-> c, account |-> a, order |-> o, offset |-> offset,
   on |-> file, since |-> generation, kind |-> "failed", items |-> <<>>, shown |-> {},
   count |-> 0, counted |-> FALSE]

(* The read way after c called, or did not call, and was answered v.       *)
After(r, c, calls, v, a, o, offset) ==
  IF calls /\ v = "started" THEN Started(c, a, o, offset) ELSE r

Quiet == [kind |-> "quiet"]
InEventLoop == toHear = {} /\ slot = "none"

(* The listener whose turn it is.                                          *)
NextToHear(c) ==
  /\ slot = "none"
  /\ \E i \in DOMAIN Listeners :
       /\ Listeners[i] = c /\ c \in toHear
       /\ \A j \in 1..(i - 1) : Listeners[j] \notin toHear

(* Mutation: a connection only goes once it has fired.                     *)
StaysConnected(c) == takers

(* What is left of the connections once the end of the run of c drops its. *)
Parted(c) == takers \ {c}

Heard(c) == /\ toHear' = toHear \ {c}
            /\ telling' = IF toHear = {c} THEN Quiet ELSE telling

-----------------------------------------------------------------------------
Bookings == [of : Accounts, number : 1..MaxBookings]

TxTable == [pending : BOOLEAN, queued : BOOLEAN, deferred : BOOLEAN,
            stale : BOOLEAN, failed : BOOLEAN, previous : BOOLEAN,
            rows : Seq(Bookings),
            loaded : Nat, total : Nat, atEnd : BOOLEAN]

SoTable == [pending : BOOLEAN, queued : BOOLEAN, deferred : BOOLEAN,
            stale : BOOLEAN, previous : BOOLEAN, rows : Accounts \cup {NoAccount}]

TypeOK ==
  /\ file \in Files \cup {NoFile} /\ {active, tree} \subseteq SUBSET Accounts
  /\ generation \in 0..MaxGeneration
  /\ holding \in [Accounts -> 0..MaxBookings]
  /\ written \in {"shown", "storing", "untold"}
  /\ \/ read = NoRead
     \/ /\ read.stage \in {"started", "working", "ended"}
        /\ read.by \in Readers /\ read.on \in Files
  /\ telling = Quiet \/ telling.kind \in {"result", "failed", "silent"}
  /\ toHear \subseteq Readers
  /\ slot \in {"none", "restore", "opening"}
  /\ {banking, dialog, due, app.reading} \subseteq BOOLEAN
  /\ {account, app.chosen} \subseteq Accounts \cup {NoAccount}
  /\ order \in {"newest", "oldest"}
  /\ tx \in TxTable /\ so \in SoTable /\ tx.loaded <= Len(tx.rows)
  /\ takers \subseteq {"app", "dialog"} /\ unread \in BOOLEAN
  /\ acts \in 0..MaxActs /\ setups \in 0..MaxSetups

Init ==
  /\ file = NoFile /\ generation = 0
  /\ holding = Held
  /\ written = "shown"
  /\ read = NoRead /\ telling = Quiet /\ toHear = {} /\ slot = "none" /\ takers = {}
  /\ unread = FALSE
  /\ banking = FALSE /\ active = Accounts /\ tree = {}
  /\ account = NoAccount /\ order = "newest"
  /\ tx = TxEmpty /\ so = SoEmpty
  /\ app = [reading |-> FALSE, chosen |-> NoAccount]
  /\ dialog = FALSE /\ due = FALSE
  /\ acts = 0 /\ setups = 0

-----------------------------------------------------------------------------
(* setAccountId(0) of both tables: the order falls back to its default, a  *)
(* run that is out becomes stale, and nothing is asked for.  Does nothing  *)
(* to tables t and s if no account was chosen.                             *)
GiveUpAccount(t, s) ==
  /\ account' = NoAccount
  /\ order' = IF account = NoAccount THEN order ELSE "newest"
  /\ tx' = IF account = NoAccount THEN t ELSE TxStartOver(t, FALSE)
  /\ so' = IF account = NoAccount THEN s ELSE SoStartOver(s, FALSE)

(* AccountTreeModel::setItems: where every row keeps its place the new     *)
(* figures are announced and no more; otherwise the tree is reset, and     *)
(* with it the choice of an account.                                       *)
SetItems(shown, t, s) ==
  /\ tree' = shown
  /\ IF shown = tree
     THEN tx' = t /\ so' = s /\ UNCHANGED <<account, order>>
     ELSE GiveUpAccount(t, s)

(* The two tables turn to account a, the bookings first (applySelection).  *)
TurnTo(a) ==
  \E v \in Answers(read) :
    LET t == TxStartOver(tx, FALSE)
        r == After(read, "tx", Calls(t, a), v, a, order, 0)
        s == SoStartOver(so, FALSE)
    IN  \E w \in Answers(r) :
          /\ account' = a
          /\ tx' = TxRequest(t, a, v)
          /\ so' = SoRequest(s, a, w)
          /\ read' = After(r, "so", Calls(s, a), w, a, order, 0)

(* The user chooses an account in the tree, or a bank, which is none.      *)
Select(a) ==
  /\ InEventLoop /\ acts < MaxActs
  /\ banking /\ tree # {} /\ a # account
  /\ IF a = NoAccount
     THEN GiveUpAccount(tx, so) /\ UNCHANGED read
     ELSE a \in tree /\ TurnTo(a) /\ UNCHANGED order
  /\ acts' = acts + 1
  /\ UNCHANGED <<storageVars, telling, toHear, slot, takers, banking, tree, app, dialog, due,
                 setups>>

(* The user sorts the bookings the other way round.                        *)
Sort(o) ==
  /\ InEventLoop /\ acts < MaxActs
  /\ banking /\ o # order
  /\ order' = o
  /\ LET t == TxStartOver(tx, TRUE)
     IN  \E v \in Answers(read) :
           /\ tx' = TxRequest(t, account, v)
           /\ read' = After(read, "tx", Calls(t, account), v, account, o, 0)
  /\ acts' = acts + 1
  /\ UNCHANGED <<storageVars, telling, toHear, slot, takers, banking, tree, account, so,
                 app, dialog, due, setups>>

(* The view came near the last row: canFetchMore, fetchMore.               *)
FetchMore ==
  /\ InEventLoop
  /\ account # NoAccount /\ ~tx.atEnd /\ ~tx.pending /\ ~tx.failed
  /\ \E v \in Answers(read) :
       /\ tx' = TxRequest(tx, account, v)
       /\ read' = After(read, "tx", TRUE, v, account, order, tx.loaded)
  /\ UNCHANGED <<storageVars, telling, toHear, slot, takers, banking, tree, account, order,
                 so, app, dialog, due, acts, setups>>

(* A fetch of standing orders is over, and their table asks again.         *)
RefreshOrders ==
  /\ InEventLoop /\ acts < MaxActs
  /\ account # NoAccount
  /\ LET s == SoStartOver(so, TRUE)
     IN  \E v \in Answers(read) :
           /\ so' = SoRequest(s, account, v)
           /\ read' = After(read, "so", Calls(s, account), v, account, order, 0)
  /\ acts' = acts + 1
  /\ UNCHANGED <<storageVars, telling, toHear, slot, takers, banking, tree, account, order,
                 tx, app, dialog, due, setups>>

-----------------------------------------------------------------------------
(* The storage is opened from the overview, closed from the window, or     *)
(* falls while the second page stays: creating another data vault goes     *)
(* over the same Storage object (StorageDialog::createStorage).            *)

OpenVault(f) ==
  /\ InEventLoop /\ generation < MaxGeneration
  /\ ~banking
  /\ file' = f
  /\ slot' = "opening"
  /\ UNCHANGED <<generation, holding, active, written, unread, read, telling, toHear, takers,
                 banking, tree, account, order, tx, so, app, dialog, due, acts, setups>>

(* The same slot goes on to read the accounts.  A way that is taken is a   *)
(* moment: the window asks once it is free.  Any other refusal closes.     *)
ReadAccounts ==
  /\ slot = "opening"
  /\ slot' = "none"
  /\ \E v \in Answers(read) :
       /\ read' = After(read, "dialog", TRUE, v, NoAccount, order, 0)
       /\ dialog' = (dialog \/ v = "started")
       /\ takers' = IF v = "started" THEN takers \cup {"dialog"} ELSE takers
       /\ banking' = (v # "refused")
       /\ due' = (due \/ v = "busy")
       /\ file' = IF v = "refused" THEN NoFile ELSE file
       /\ generation' = IF v = "refused" THEN generation + 1 ELSE generation
  /\ UNCHANGED <<holding, active, written, unread, telling, toHear, tree, account, order,
                 tx, so, app, acts, setups>>

CloseVault ==
  /\ InEventLoop
  /\ banking /\ written # "storing"
  /\ file # NoFile => generation < MaxGeneration
  /\ file' = NoFile
  /\ generation' = IF file = NoFile THEN generation ELSE generation + 1
  /\ banking' = FALSE /\ tree' = {}
  /\ written' = "shown" /\ unread' = FALSE
  /\ GiveUpAccount(tx, so)
  /\ UNCHANGED <<holding, active, wayVars, app, dialog, due, acts, setups>>

VaultFalls ==
  /\ InEventLoop /\ generation < MaxGeneration
  /\ banking /\ file # NoFile
  /\ file' = NoFile
  /\ generation' = generation + 1
  /\ UNCHANGED <<holding, active, written, unread, wayVars, banking, tree, account, order,
                 tx, so, app, dialog, due, acts, setups>>

-----------------------------------------------------------------------------
(* A fetch writes: its write run commits a booking at any time.  Once it   *)
(* ends, and says that it wrote, the window asks for the holding again.    *)

Store(a) ==
  /\ banking /\ file = HomeOf[a] /\ holding[a] < MaxBookings
  /\ holding' = [holding EXCEPT ![a] = @ + 1]
  /\ written' = "storing"
  /\ UNCHANGED <<file, generation, active, unread, wayVars, banking, tree, account, order,
                 tx, so, app, dialog, due, acts, setups>>

FetchEnds ==
  /\ InEventLoop /\ written = "storing"
  /\ \/ written' = "shown" /\ due' = TRUE
     \/ written' = "untold" /\ UNCHANGED due   \* StoreFailed: no refresh follows
  /\ UNCHANGED <<file, generation, holding, active, unread, wayVars, banking, tree, account,
                 order, tx, so, app, dialog, acts, setups>>

(* The setup wizard wrote that an account is kept from now on, or not any  *)
(* more, and the window asks for the accounts again (refreshAccounts).  It *)
(* cannot be opened while a fetch runs.                                    *)
SetUp(a) ==
  /\ InEventLoop /\ setups < MaxSetups
  /\ banking /\ written # "storing" /\ file = HomeOf[a]
  /\ active' = IF a \in active THEN active \ {a} ELSE active \cup {a}
  /\ due' = TRUE
  /\ setups' = setups + 1
  /\ UNCHANGED <<file, generation, holding, written, unread, wayVars, banking, tree, account,
                 order, tx, so, app, dialog, acts>>

(* refreshFromStorage: nothing to do on a closed storage, asked again      *)
(* every RefreshRetryMs while the way is taken.                            *)
Refresh ==
  /\ InEventLoop /\ due
  /\ file = NoFile \/ read = NoRead
  /\ due' = FALSE
  /\ IF file = NoFile
     THEN UNCHANGED <<read, app, takers, written, unread>>
     ELSE \E v \in Answers(read) :
            /\ read' = After(read, "app", TRUE, v, NoAccount, order, 0)
            /\ app' = IF v = "started" THEN [reading |-> TRUE, chosen |-> account] ELSE app
            /\ takers' = IF v = "started" THEN takers \cup {"app"} ELSE takers
            /\ unread' = (unread \/ v # "started")
            /\ written' = IF written = "storing" THEN "storing"
                          ELSE IF v = "started" THEN "shown" ELSE "untold"
  /\ UNCHANGED <<file, generation, holding, active, telling, toHear, slot, banking, tree,
                 account, order, tx, so, dialog, acts, setups>>

-----------------------------------------------------------------------------
(* The worker thread.                                                      *)

Clone ==
  /\ read.stage = "started"
  /\ \/ read.since = generation /\ read' = [read EXCEPT !.stage = "working"]
     \/ read' = [read EXCEPT !.stage = "ended"]
  /\ UNCHANGED <<storageVars, telling, toHear, slot, takers, banking, tree, account, order,
                 tx, so, app, dialog, due, acts, setups>>

(* readItems: the number of matches, the window, and what became of both.  *)
ReadRows ==
  /\ read.stage = "working"
  /\ \/ \E counted \in BOOLEAN :
          /\ read.by = "tx"
          /\ LET items == WindowOf(read.account, read.order, holding[read.account],
                                   read.offset)
             IN  read' = [read EXCEPT !.stage = "ended", !.items = items,
                                      !.kind = IF items = <<>> THEN "notfound" ELSE "result",
                                      !.counted = counted,
                                      !.count = IF counted THEN holding[read.account] ELSE 0]
     \/ \E kind \in {"result", "notfound"} :
          read.by = "so" /\ read' = [read EXCEPT !.stage = "ended", !.kind = kind]
     \/ /\ read.by \in {"app", "dialog"}
        /\ LET found == \E a \in Accounts : HomeOf[a] = read.on
           IN  read' = [read EXCEPT !.stage = "ended",
                                    !.kind = IF found THEN "result" ELSE "notfound",
                                    !.shown = Kept(read.on)]
     \/ read' = [read EXCEPT !.stage = "ended"]
  /\ UNCHANGED <<storageVars, telling, toHear, slot, takers, banking, tree, account, order,
                 tx, so, app, dialog, due, acts, setups>>

-----------------------------------------------------------------------------
(* The end of a read.  First the result goes round: to the table that      *)
(* asked, and by the single shot connections into the tree, which finds    *)
(* the accounts in it, if any, and may take the choice of one along.       *)
HandOn ==
  /\ InEventLoop /\ read.stage = "ended"
  /\ read' = NoRead
  /\ toHear' = Readers
  /\ telling' = [kind |-> IF read.since # generation THEN "silent"
                          ELSE IF read.kind = "result" THEN "result" ELSE "failed",
                 by |-> read.by, on |-> read.on]
  /\ LET current == read.since = generation
         t == IF current /\ read.by = "tx" THEN TxTake(tx, read) ELSE tx
         s == IF current /\ read.by = "so" THEN SoTake(so, read) ELSE so
     IN  IF current /\ read.kind = "result" /\ takers # {}
         THEN SetItems(read.shown, t, s) /\ takers' = {} /\ unread' = FALSE
         ELSE /\ tx' = t /\ so' = s /\ UNCHANGED <<tree, account, order, takers>>
              /\ unread' = \/ unread
                           \/ current /\ read.by \in {"app", "dialog"} /\ read.kind = "failed"
  /\ UNCHANGED <<file, generation, holding, active, written, slot, banking, app, dialog, due,
                 acts, setups>>

(* Then the end, which the tables take first (runEnded).                   *)
TxHears ==
  /\ NextToHear("tx") /\ Heard("tx")
  /\ \E v \in Answers(read) :
       LET m == TxEnded(tx)
       IN  IF GoesOn(tx)
           THEN /\ tx' = TxRequest(m, account, v)
                /\ read' = After(read, "tx", Calls(m, account), v, account, order, m.loaded)
           ELSE tx' = m /\ read' = read
  /\ UNCHANGED <<storageVars, slot, takers, banking, tree, account, order, so, app, dialog,
                 due, acts, setups>>

SoHears ==
  /\ NextToHear("so") /\ Heard("so")
  /\ \E v \in Answers(read) :
       LET m == SoEnded(so)
       IN  IF GoesOn(so)
           THEN /\ so' = SoRequest(m, account, v)
                /\ read' = After(read, "so", Calls(m, account), v, account, order, 0)
           ELSE so' = m /\ read' = read
  /\ UNCHANGED <<storageVars, slot, takers, banking, tree, account, order, tx, app, dialog,
                 due, acts, setups>>

DialogHears ==
  /\ NextToHear("dialog") /\ Heard("dialog")
  /\ dialog' = FALSE
  /\ takers' = IF dialog THEN Parted("dialog") ELSE takers
  /\ UNCHANGED <<storageVars, read, slot, banking, tree, account, order, tx, so, app,
                 due, acts, setups>>

(* The slot of refreshFromStorage: it drops its connection, puts the       *)
(* choice back and has the bookings read again.                            *)
AppHears ==
  /\ NextToHear("app") /\ Heard("app")
  /\ app' = [app EXCEPT !.reading = FALSE]
  /\ takers' = IF app.reading THEN Parted("app") ELSE takers
  /\ slot' = IF app.reading THEN "restore" ELSE "none"
  /\ UNCHANGED <<storageVars, read, banking, tree, account, order, tx, so, dialog,
                 due, acts, setups>>

Restores == /\ app.chosen # NoAccount /\ app.chosen # account
            /\ app.chosen \in tree

(* restoreSelection, then refreshTransactions.                             *)
Restore ==
  /\ slot = "restore"
  /\ slot' = "none"
  /\ app' = [app EXCEPT !.chosen = NoAccount]
  /\ LET a == IF Restores THEN app.chosen ELSE account
         t == IF Restores THEN TxStartOver(tx, FALSE) ELSE tx
         s == IF Restores THEN SoStartOver(so, FALSE) ELSE so
     IN  \E v \in Answers(read) :
           LET t1 == IF Restores THEN TxRequest(t, a, v) ELSE t
               r1 == After(read, "tx", Restores /\ Calls(t, a), v, a, order, 0)
           IN  \E w \in Answers(r1) :
                 LET r2 == After(r1, "so", Restores /\ Calls(s, a), w, a, order, 0)
                     t2 == IF a = NoAccount THEN t1 ELSE TxStartOver(t1, FALSE)
                 IN  \E x \in Answers(r2) :
                       /\ account' = a
                       /\ so' = IF Restores THEN SoRequest(s, a, w) ELSE s
                       /\ tx' = TxRequest(t2, a, x)
                       /\ read' = After(r2, "tx", Calls(t2, a), x, a, order, 0)
  /\ UNCHANGED <<storageVars, telling, toHear, takers, banking, tree, order, dialog, due, acts,
                 setups>>

-----------------------------------------------------------------------------
Next ==
  \/ \E a \in Accounts \cup {NoAccount} : Select(a)
  \/ \E o \in {"newest", "oldest"} : Sort(o)
  \/ FetchMore \/ RefreshOrders
  \/ \E f \in Files : OpenVault(f)
  \/ ReadAccounts \/ CloseVault \/ VaultFalls
  \/ \E a \in Accounts : Store(a)
  \/ \E a \in Accounts : SetUp(a)
  \/ FetchEnds \/ Refresh
  \/ Clone \/ ReadRows \/ HandOn
  \/ TxHears \/ SoHears \/ DialogHears \/ AppHears \/ Restore

(* The worker goes on, and so does the owner thread: it takes what is      *)
(* queued and finishes what it is in.  The user need not do anything.      *)
Fairness ==
  /\ WF_vars(Clone) /\ WF_vars(ReadRows)
  /\ WF_vars(ReadAccounts) /\ WF_vars(Restore)
  /\ WF_vars(HandOn) /\ WF_vars(Refresh)
  /\ WF_vars(TxHears) /\ WF_vars(SoHears) /\ WF_vars(DialogHears) /\ WF_vars(AppHears)

Spec == Init /\ [][Next]_vars /\ Fairness

-----------------------------------------------------------------------------
(* The rows are the ones the header and the selection describe: of the     *)
(* chosen account and in the order shown, unless they are known to be the  *)
(* ones of the order before, which are only kept while a read is on its    *)
(* way to replace them.  Oldest first, every page goes on where the one    *)
(* before it ended; newest first, only the first page is certain to (see   *)
(* WindowsAreDisjoint).                                                    *)
RowsFitTheHeader ==
  IF tx.previous THEN tx.pending \/ tx.deferred
  ELSE \A i \in DOMAIN tx.rows :
         /\ tx.rows[i].of = account
         /\ i > 1 => IF tx.loaded <= PageSize /\ order = "newest"
                     THEN tx.rows[i].number < tx.rows[i - 1].number
                     ELSE order = "oldest" => tx.rows[i].number > tx.rows[i - 1].number

(* Everything has come to rest, on the storage whose accounts are shown.   *)
Quietness == /\ InEventLoop /\ read = NoRead
             /\ ~tx.pending /\ ~tx.deferred /\ ~so.pending /\ ~so.deferred
             /\ ~due /\ ~app.reading

Undisturbed == /\ account # NoAccount /\ ~tx.failed
               /\ file = HomeOf[account]

(* The table shows the first bookings of the chosen account, as the file   *)
(* holds them now, and it has asked for them at all.                       *)
BookingsShown ==
  /\ tx.rows = SubSeq(InOrder(account, order, holding[account]), 1, tx.loaded)
  /\ tx.loaded > 0 \/ tx.atEnd
  /\ tx.atEnd => tx.loaded = holding[account]

(* Once everything is at rest, the tree shows the accounts that are kept   *)
(* in the open file, unless reading them failed since it was filled; the   *)
(* standing orders are of no other account than the chosen one; and where  *)
(* no fetch has left anything unsaid, the bookings are those of the file.  *)
NothingStaleAtRest ==
  Quietness =>
    /\ file # NoFile /\ ~unread => tree = Kept(file)
    /\ so.rows \in {account, NoAccount}
    /\ Undisturbed /\ written = "shown" => BookingsShown

(* Requests, retries and put off reads come to an end once the user does.  *)
ComesToRest == <>[]Quietness

(* What the code says and does not keep, each checked on its own.          *)

(* Storage.h on receiveItems: no record falls between two windows or       *)
(* appears in both.                                                        *)
WindowsAreDisjoint ==
  \A i, j \in DOMAIN tx.rows : i # j => tx.rows[i] # tx.rows[j]

(* App::refreshFromStorage: reading the accounts takes the choice of the   *)
(* user with it - so the choice is put back.  Where a choice stands there  *)
(* is nothing to put back.                                                 *)
ChoiceIsPutBack ==
  [][Restore /\ account # NoAccount => account' = account]_vars

(* The four readers behave towards Storage as its callers are assumed to.  *)
RunOf(r) == IF r = NoRead THEN r
            ELSE [stage |-> r.stage, by |-> r.by, on |-> r.on, since |-> r.since,
                  good |-> r.kind = "result" /\ r.stage = "ended"]

Waiting == {c \in Readers : \/ c = "tx" /\ tx.pending
                            \/ c = "so" /\ so.pending
                            \/ c = "app" /\ app.reading
                            \/ c = "dialog" /\ dialog}

Runs == INSTANCE StorageRuns WITH
  Writers <- {},
  inFlight <- [w \in {"read", "write"} |-> w = "read" /\ read # NoRead],
  run <- [w \in {"read", "write"} |-> IF w = "read" THEN RunOf(read) ELSE NoRead],
  telling <- IF telling = Quiet THEN telling
             ELSE [kind |-> telling.kind, way |-> "read", by |-> telling.by, on |-> telling.on],
  waiting <- Waiting

CallsAsAssumed == Runs!Spec
=============================================================================
