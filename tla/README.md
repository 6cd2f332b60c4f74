# OlbaFlinx in TLA+

Specifications, model-checking runs and proofs kept beside the code of OlbaFlinx,
a home banking program in Qt. It keeps the bookings of a user in an encrypted
SQLite file (a *data vault*, class `Storage`), fetches them from banks through
AqBanking (`Banking`, `AccountFetch`, `StandingOrderFetch`), and shows them in a
window (`App`) with an account tree and two tables.

What is hard about it is not the arithmetic but the traffic: one object, one
connection, one read and one write at a time, worker threads, broadcast signals
that name no addressee, retries by timer, a library that blocks a thread while it
asks the user something, and users who choose another account, close the vault or
open another one while all of that is going on.

Paths below are relative to `src/src/` of the repository: `core/`, `ui/`.

## Inventory

| Component | State | Operations | Talks to | What is hard | What makes it correct |
|---|---|---|---|---|---|
| Runs of `Storage` (`core/Storage`) | `m_connection`, `m_connectionGeneration`, `m_readInFlight`, `m_writeInFlight`, two `QFutureWatcher`s | `initialize`, `close`, `receiveItems`, `storeItems` | thread pool; every listener of its signals | a finished worker whose event is still queued; a run that outlives its connection; ends without an addressee | nobody is cut off, nobody takes a foreign end, nothing of another file is shown |
| Vault: key and schema (`core/Storage`) | `m_key`, `m_storageFileName`, the tables and version of the file | `setKey`, `openAndVerify`, `setupTables`, `verifySchema`, `changeKey`, `close` | `StorageDialog`, `NewStorageItem` | half-way failures of a rekey or a migration; the end of the process in between | key, file and connection agree; a migration can be taken up again and loses nothing |
| Write path (`core/Storage`) | tables, unique indexes | `writeItems`, `storeItemOn`, `storeStandingOrderOn`, `markEndedStandingOrdersOn` | the file | all or nothing; matching by two keys; a starting point read back from what was stored | a failed run leaves nothing, no booking is fetched past, no order is doubled or ended by mistake |
| `TransactionTableModel` | rows, `m_pending`, `m_queued`, `m_deferred`, `m_generation`, `m_showingPreviousRows`, `m_failed`, `m_atEnd` | `setAccountId`, `sort`, `setFilter`, `refresh`, `fetchMore`, slots of the read way | `Storage`, the view | Busy answers, stale results, paging over a holding that grows | rows fit account and order; at rest they are what the file holds |
| `StandingOrderTableModel` | the same without paging | the same | `Storage` | the same | the same |
| `AccountTreeModel` | banks and accounts | `setItems` | `App`, selection of the view | a reset takes the choice along, an update does not | the choice of the user survives a refresh |
| `App` | fetch flags, page, models | `refreshFromStorage`, `restoreSelection`, `applySelection`, `closeStorage`, `closeEvent` | all of them | single shot connections, retry timer, what was chosen when | the window shows what was written |
| `StorageDialog`, `NewStorageItem` | list of files | open, create, delete, change password | `Storage`, `App` | shares the one `Storage` object with the window | never leaves a vault open behind the overview, never loses a pass phrase |
| `AccountFetch` | `running`, `outcome`, `phase`, `pending`, `storedCount`, `storedBeforeRun`, `storeFailed`, `summary`, `waitingForAbortAnswer` | `start`, `startAll`, `answerAbort`, slots of session and write way | `BankingSession`, `Banking`, `Storage` | two runs per account, Busy retries, stops, a connection that falls | what it reports is what it did; it always ends |
| `StandingOrderFetch` | the same with one run per account, `storing`, and `unreachable` | the same | the same | an empty answer marks a whole holding as ended, and a stop looks like an empty answer | only an answer of the bank ends an order |
| `BankingSession`, `Banking`, `BankingGui` | one fetch at a time, session threads, PIN cache and its timer, the interface slot of the library | `beginFetch`, `endFetch`, sessions, `callOnOwnerThread`, `finalize` | AqBanking, the user | session thread and owner thread wait for each other; two instances share one slot | a PIN belongs to the vault shown and does not stay; no deadlock and no abort on the way out |
| `SetupAssistant`, `main` | chosen accounts | `storeTheResultOfTheWizard` | `Storage`, `App` | a second writer, a second banking instance | its end is not taken for another's |
| Records, `Logger`, `ThemeManager`, resources | values | conversions | | | not modelled: no behaviour over time |

## Modules

| Module | Models | Code it stands for |
|---|---|---|
| `StorageContract` | the promise of `Storage.h` to a caller: accepted once, answered once, and not with a result of a storage that fell | doc comments and signals of `Storage.h` |
| `StorageRuns` | the runs of `Storage`: connection, generation, flags, workers, finished events, broadcast | `Storage.cpp`: `openAndVerify`, `dropConnection`, `close`, `receiveItems`, `storeItems`, and their ends |
| `TableReaders` | the four readers: both tables, `App::refreshFromStorage`, `StorageDialog` | both table models, `AccountTreeModel::setItems`, selection, refresh and closing in `App.cpp`, opening in `StorageDialog.cpp` |
| `AccountFetch` | the fetch of bookings and balances and the wizard, two writers | `AccountFetch.cpp`, delivery in `Banking.cpp`, `main.cpp` |
| `StandingOrderFetch` | the fetch of standing orders and the wizard, two writers | `StandingOrderFetch.cpp`, `fetchStandingOrders` and delivery in `Banking.cpp` |
| `VaultRows` | one write run down to the rows, record by record, against a bank that posts and corrects | `writeItems`, `storeItemOn` and the statements in `Storage.cpp`, `appendFetchCommands` in `Banking.cpp` |
| `StorageVault` | vault files: created, opened, migrated, rekeyed, deleted, with failures and crashes | `openAndVerify`, `setupTables`, `verifySchema`, `changeKey` in `Storage.cpp`, the schema file, `StorageDialog.cpp`, `NewStorageItem.cpp` |
| `BankingGate` | when a fetch may begin and the window may close, whose thread waits for whose, how long a PIN stays | `BankingSession.cpp`, `BankingGui.cpp/.h`, `finalize` in `Banking.cpp`, `closeEvent` in `App.cpp` |
| `*Proofs` | theorems about the module of that name | |
| `MC*` | instances for TLC | |

How they fit together: `StorageRuns` implements `StorageContract`. `AccountFetch`
and `TableReaders` carry the write and the read way in detail and are shown to be
behaviours of `StorageRuns` (`CallsAsAssumed`); `StandingOrderFetch` is written
against `StorageContract` itself and is shown to keep it (`KeepsTheContract`).
`VaultRows` is the inside of what the others call *good* and *bad*: one run of
the write way. `StorageVault` is the inside of *the connection stands* and *it
falls*. `BankingGate` is the inside of *the session is out*.

### StorageRuns

`file` is the file the connection stands on, `run[way]` the run the watcher of that
way watches, from `started` (handed to the pool) over `working` (it has a clone of
the connection) to `ended` (its finished event is queued). `HandOn` is that event:
the flag falls, the generations are compared, and `telling` with `toHear` is the
emission, which goes from listener to listener before the event loop takes anything
else (`InEventLoop`). A listener that hears an end may ask again from its slot
(`HearAndAsk`). `waiting` is each caller's own memory that a run of his is out
(`m_pending`, `phase`, `storing`, a single shot connection).

Listeners hear in any order, which covers the order of connection, with one
exception the code relies on: a caller does not ask while it has still to hear
the present end. `Ask` excludes it, and `CallsAsAssumed` of the two client
modules shows that the real callers keep to it.

A finished run can be `good` or not; which statement failed does not matter to
anyone. Progress signals are left out. The empty run without an account and
`storeItem` are left out: nothing in the application calls them that way.

`StorageContract` is the abstract specification. `StorageRuns` implements it
(`ImplementsContract`, with `CallOf` as the refinement mapping): a caller is
`out` while its run is of the present generation, `stale` once the connection
fell, and told `result`, `failed` or `silent`.

### TableReaders

A booking is its number in its account, later ones being newer. The table of the
bookings keeps its rows as a sequence of bookings, page by page, so that what a
page repeats or misses can be seen; the table of the standing orders reads the
whole holding at once, so its rows are known by their account. Two orders over
the date stand for the columns and for the filter, which goes through the same
`startOver`. Operators named `Tx...` and `So...` are the member functions of the
two models; `TxRequest(m, a, v)` is `requestItems`, answered `v` by the storage.
`stale` says that `m_requestGeneration` is not `m_generation`.

The listeners hear an end in the order they connected: the tables are connected
with the window and stay, the others connect per read. The result goes round
first, to the table that asked or into the tree (`SetItems`), then the end
(`TxHears`, `SoHears`, `AppHears`, `DialogHears`). `slot` is a slot that is
halfway: `refreshFromStorage` putting the choice back, the overview going on
from opening to reading.

`tree` is the set of accounts shown, and `Kept` the accounts `setItems` lets into
it. `setItems` resets the tree only when its
shape changes, which it does through `SetUp` (the wizard keeps or drops an
account) and through opening and closing. What brings a result into the tree is not
whose run it was but the single shot connections that wait for one: `takers` has
them, `refreshFromStorage` and the overview connect them with their run, a
result takes them along, and an end that brought none is the place where they are
dropped by hand (`Parted`). One that stayed would take the bookings of the next read
and empty the tree. `unread` remembers, for the property, that a read of the accounts
failed since the tree was filled; the tree then shows what it showed before, and the
user was told. `written` follows what a fetch wrote:
`storing`, `untold` after an end that triggers no refresh, `shown` otherwise.
`VaultFalls` is `createStorage` under an open window. It counts one fallen
connection where the code drops two in a row; nothing compares generations other
than for equality.

### AccountFetch

The queue is a sequence of entries by account (`queueReceived`), each with the
parts it holds and how many of its bookings are new to the file (none or one).
`phase` is `StorePhase`, `retry` the single shot timer of `startStoring`. `session`
is the session in its thread; what it brings back, and what becomes of each
account (`fate`), is chosen when it ends. The signals that speak of accounts
(`accountSkipped`, `accountFailed`, `aborted`, `errorOccurred`) and `finished` come
from one slot of `Banking` and are one action each. `accountSkipped` is emitted
before the session but counted only in the summary, so it is counted with the end.

`fate`, `brought`, `stored`, `added` and `stood` are what really happened; the code
does not know them, the properties compare them with what it reports.

The wizard is the second writer (`WizardStores`). Its entry is off while a fetch
runs, but its run may still be out when one begins: that is where `Busy` and the
retry come from. `VaultFalls` is `createStorage`, or closing while nothing runs.

### StandingOrderFetch

`storing` takes the place of `phase`: one run per account, which carries the
orders and whether the bank answered in full (`succeeded`, handed to `storeItems`).
`fate` is what became of an account at the bank: `offline` and `notOffered` are
passed over and told before or with the session, `refused` carries a failure of
its own, `cut` was cut off by a stop or by a failing line, `answered` sent what it
has, perhaps nothing. What makes this module more than a copy of `AccountFetch`
is how little of that the program gets to see: the library smooths a stop into a
success (`SingleReceived`, `AllAborted` with `smoothed`), an order that was cut
off need not carry a failure (`flagged`), and an account that came back empty looks
like one without orders. Only `userAborted` of the interface tells (`StopHeard`).

A run is done in one action (`Work`), since `StorageRuns` has the stages; `call` is
the state of each writer's call in the contract, and `HandOn` and `Hears` are its
end, heard by both writers in one step because only one of them has a run out.

### VaultRows

A run is a record of kind, account, items and, for standing orders, `succeeded`.
`accounts` is a sequence whose indices are the row ids, `balances` goes by row id
(that a figure hangs on the right row id is a property, not a given), `held` are
the bookings by hash, `orders` the rows with account, identifier of the
institution, fingerprint and mark. The bracket of a run works on `draftHeld` and
`draftOrders`; a run of accounts has no bracket and commits each account
(`StoreAccount`). `ExistingStandingOrder`, `IndexRefuses`, `StoreOrder` and
`MarkEnded` are `existingStandingOrderOn`, the unique index, the upsert, and
`markEndedStandingOrdersOn` with `touched` as `touchedStandingOrders`.

The bank is outside: it posts bookings no more than `Lead` days behind the newest
it has posted, replaces one by a correction of another hash, and reports any
standing orders. `Delivered` is what it sends from the starting point
`appendFetchCommands` reads back from the file (`LatestTransactionDate`).

`due`, `horizon` and `figured` are what the properties remember.

### StorageVault

`object` is what the one `Storage` object knows (`key`, `fileName`, `connection`),
`window` what the user sees. The user's operations set key and file name and
begin a `job`; its steps are `initialize` (`Connect`), the statements of the schema
one by one (`SetupTables`), the checks (`Verified`, `VerifyFails`), and per caller
what follows: `OpenEnds`, `CreateEnds`, `ChangeGoesOn` with `Rekey` and
`RekeyRefused`. Nothing but `Crash` comes between the steps, since all of them run
in the thread of the window; each may fail. `CreateStorage` is also offered with a
vault open, as the menu does.

The schema is abstracted to four kinds of statements (tables, deduplication, unique
index, version) over three kinds of tables (none, old columns, all columns). A
column list is a matter of text, not of order. `Executable` says where a statement
fails for what the file holds. A booking has a fingerprint, or one of two things an
older build left in its place: `"null"` and `"empty"` (''). They are not the same. The
deduplication spares both (`NoPrint`, `SecondCopy`), the unique index lets null alone
stand twice (`NoneTwice`). Bookings that are written now always carry a fingerprint
(`StoreBooking`), so the two come with the older files only. `Fold` is `toLower` over file names.

`ever` remembers the bookings a vault was given, `believed` the pass phrases its
owner was led to believe in; a rekey that is cut off or fails by its probe leaves
him with more than one.

### BankingGate

`fetching` is the gate of `BankingSession`, `session` the session in its thread,
`serving` a call of it that the window's thread has taken up: the nested event
loop in which the user goes on clicking, the timer fires, and a window may be
asked to close. `Finalize` is the banking layer going down behind the event loop;
it blocks until the session is back, so a session that waits for the event loop
(`calling`) would never come back. `slot` is the interface the library keeps for
the window's thread; the wizard and the window displace each other in it.
`Fini` with an empty slot ends the process, which the model says by `aborted`.

## Runs

| Run | Instance | Shows |
|---|---|---|
| `storage_runs` | 2 readers, 2 writers, 2 files, 3 fallen connections | safety, `EveryCallEnds`, refinement of the contract |
| `table_readers` | 3 accounts in 2 files, pages of 2, up to 3 bookings, 2 fallen connections, 2 choices of the user, 1 wizard | tree and rows, retries, coming to rest |
| `account_fetch` | 2 accounts, 2 fetches, 1 wizard, 1 fallen connection | phases, stops, figures, getting on and ending |
| `standing_order_fetch` | 3 accounts, 2 fetches, 1 wizard, 1 fallen connection | marks, stops the library hides, figures, getting on and ending, the contract |
| `vault_rows` | 2 accounts, 3 bookings, 2 identifiers, 2 fingerprints, runs of up to 2 orders, 4 runs | bookings, balances, orders, marks and counts, with failures and crashes |
| `storage_vault` | 2 names, 2 pass phrases, 7 bookings, 6 kinds of older files, 5 operations, 2 crashes | what is open, what a migration loses, which pass phrase opens |
| `banking_gate` | 2 vaults, 3 fetches | PIN, shutdown |
| `windows_overlap` | as `table_readers` | **violated**: pages repeat bookings |
| `choice_put_back` | as `table_readers` | **violated**: a refresh takes back a click |
| `vault_taken_away` | as `account_fetch` | **violated**: records lost under the outcome Received |
| `order_in_the_way` | as `vault_rows`, 3 runs | **violated**: an order that can be told apart is refused, and the run with it |
| `vault_not_created` | as `storage_vault` | **violated**: reported as created, no file |

The properties, by what they are about:

* *Whose end is it?* `AnswersAreOwn` (runs), `PhaseIsOwn` (fetch), `CallsAsAssumed` (towards `StorageRuns`),
  `KeepsTheContract` (towards `StorageContract`).
* *Which file is it of?* `NoForeignHolding`, `ImplementsContract`, `WhatIsOpenAgrees`.
* *What is on the screen?* `RowsFitTheHeader`, `NothingStaleAtRest`.
* *What is in the file?* `NothingBeforeTheAnswer`, `BalancesFollowBookings`,
  `OnlyAnswersMark`, `NoGap`, `OneRowPerIdentifier`, `FiguresAreOwn`,
  `AnswerIsTheHolding`, `OnlySecondCopiesGo`, `MigrationReplays`.
* *Does it open?* `PassphraseOpens`, `MigrationReplays` (which says for which files).
* *Is the report true?* `TellsTheTruth`, `FiguresAreTrue`, `FiguresAddUp`,
  `CountIsTrue`.
* *Who sees the PIN, and for how long?* `PinIsOwn`.
* *Does it come back?* `EveryCallEnds`, `ComesToRest`, `EveryFetchEnds`,
  `ShutdownEnds`; and, stated without fairness, `GetsOn`: a fetch that runs never
  waits for nothing (`SomethingIsDue`), and each step takes it closer to its end
  (`StepsCount`).

### Where the code does not do what it says

* **Windows overlap.** `Storage.h:264`: "Every read orders by the row id as well,
  so that no record falls between two windows or appears in both." Each page is a
  read of its own at an offset; a booking written between two pages moves the
  rest, and newest first the last row of a page is repeated by the next. The
  window refreshes after a fetch, so it does not last (`NothingStaleAtRest`).
* **A click is taken back.** `refreshFromStorage` keeps the choice from before its
  read, on the assumption that reading empties the tree (`App.cpp:782`). It does
  not where the shape of the tree is the same, and the account clicked in the
  meantime is left for the earlier one.
* **Records are lost and called received.** A vault can be created while a fetch
  stores (`App.cpp:231` is never switched off). A run that outlived its connection
  ends with `writeFinished` alone, and `storeRunEnded` takes that for success.
  `AccountFetch.h:71` calls `StoreFailed` the only outcome that loses records.
* **An order in the way.** The row of a standing order is found by its identifier
  and takes the delivered fields over. Where another row of the account carries
  that fingerprint, one the run has still to bring up to date or one that is marked
  as ended, the unique index refuses the update and the run is rolled back, and so
  is every later one with the same answer. `Storage.h:319`: "Every order of the
  run itself loses the mark."
* **A vault that is not created.** With `haus` open, creating `Haus` finds the name
  free and then takes the connection that stands for the one it asked for, since
  names are compared without regard to case. `StorageDialog.h:85`: "True comes back
  when the file was created and the list was written."

* **Two empty fingerprints shut a vault.** `olbaflinx_storage.sql:188`, of the rows
  without a fingerprint: "The unique index below is unaffected by them: there several
  empty values count as different." That holds of null and not of ''. The removal
  of doubled bookings spares both, so two rows with '' reach the unique index, which
  refuses them. The version is never written, and the vault fails to open from
  then on. There is no run of its own for it: `MigrationReplays` states it, as an
  equivalence. A migration goes through exactly where no two bookings carry the empty
  value (`EmptyOnce`); one of the older files of `storage_vault` has two. No build
  in the repository writes such a row; the schema provides for them all the same.

### Observations

What the models show of the code without contradicting a line of it closely enough
to be a finding:

* Two orders of one answer that share an identifier and differ in their fields end
  up in one row, the later one. The comment at `Storage.cpp:1590` says that
  uniqueness of the identifier "is not assumed"; `OneRowPerIdentifier` says what the
  code really keeps, which is also what the comment of the test
  `twoRowsUnderOneIdentifierAreToldApartByTheirFingerprint` claims.
* A corrected booking stays beside its correction: hashes are all that tells
  bookings apart, and nothing removes one the bank no longer reports.
* A file from before version 3 is brought to version 5 and then refused for its
  columns, at this open and at every later one.
* A creation that is cut off leaves a file that is not in the list and whose name
  stays taken.
* After `createStorage` under an open vault the page stays on banking while no
  connection stands.
* After a stopped run over all accounts whose records were kept, `summary.failed`
  has been reset, so that `fetched` counts accounts that were refused or cut off
  (`AccountFetch.cpp:396`).
* The order of the table is dropped by the caller of `setAccountId` for a bank node
  while the file stays open.
* Clearing the PIN cache leaves a running expiry alone, which then fires on an
  empty cache.

### Bounds

Named in the CONSTANTS. Two callers of a way are enough for a foreign end and for
a queue of one behind it; the properties speak of one caller against the others.
Two files are enough for a result of one to meet the other. `MaxGeneration`
bounds how often a connection falls: 3 in `storage_runs` lets a run outlive two
connections, among them one on the file it was started on. In `TableReaders`
pages of two over three bookings give a second page that is not full, and two
choices are enough to overtake a run and to overtake the request that waits; with two
fallen connections a vault is opened again while a run of the earlier one is out. In
`AccountFetch` two accounts make a queue with a successor, and the second fetch
meets what the first left behind; a third account adds no new transition, since
the queue is only looked at at its head. One new booking per account tells a count
that is added from one that is set. `StandingOrderFetch` has three accounts, so
that one can be passed over, one cut off and one answered in the same session.

In `VaultRows` two orders over two identifiers (or none) and two fingerprints give
every way two orders can meet a row, and each other; of the two bookings of one
account the days lie further apart than the lead, so a starting point that moves
too far misses one. Four runs set up an account, store, fail and store again.
Identifiers and fingerprints are only compared for equality, so permuting them is
a sound symmetry of the safety properties of that run.

In `StorageVault` five operations open, write, close, change a key and open again;
two crashes hit a migration and the replay of it. The two names are the ones that
collide under `toLower`; the older files are one of each kind the version and
column checks tell apart.

In `BankingGate` a second vault is needed for a PIN to outlive its own, a third
fetch to meet what an expiry under way between two others left.

Deadlock is not checked: the program may stop when its user does nothing, and
with the bounds used up it does.

### Fairness

* Workers of the pool go on: weak fairness of the clone and of the statements.
  A busy timeout of SQLite ends a statement one way or the other.
* The event loop takes what is queued. In `StorageRuns` strong fairness of
  `HandOn`, because emissions disable it again and again while the queue keeps its
  order; in the client modules the bounded user makes weak fairness enough.
* Timers fire once the way is free.
* A session comes back (both fetches). This is an assumption about the library,
  which times out on a dead line and whose window has a button to stop it. In
  `BankingGate`, where its calls are steps of their own, the same assumption is
  strong fairness of `SessionEnds`: a session that goes on asking ends at last.
* A message box of the window, and a dialog a session put up, is answered.
* Nobody has to choose, sort, scroll, open, close or fetch.

`VaultRows` and `StorageVault` state no fairness: their properties are about what
is never lost, whenever the process ends.

## What is proved

Eight modules hold proofs, for all values of the constants the named assumptions admit:
each about the module it is named after, and `AccountFiguresProofs`, on top of
`AccountFetchProofs`, about the figures of `AccountFetch`. Every one of them goes the same way: an
inductive invariant `IInv`, a lemma per action that restores it, and theorems that
read the properties of the runs off it.

**`StorageRunsProofs`**, from `CallersAssumption` (readers and writers are different
callers), `FilesAssumption` and `GenerationAssumption`: `Consistent` (`IInv`),
`TypeCorrect`, `NobodyIsCutOff` and `EndsReachTheirCaller`, which together are
`AnswersBelong` (`AnswersAreOwn`), `NothingForeignIsShown`,
and the refinement `KeepsTheContract`. None of the invariants is inductive alone.
`EndsAreOwn` needs to know, one step earlier, that a run belongs to a caller who
waits and that nobody else of that way does; `WaitingHasARun` gives the second, and
holds only because the flag covers the run up to its delivery (`FlagCoversTheRun`),
so that no second run displaces the first; `NoForeignHolding` needs that a run of the
present generation was started on the present file (`RunsAreOwned`), and that nothing
changes the file while an end is told (`TellingIsOnItsWay`).

**`TableReadersProofs`**, from `ReadersAssumption` (a vault holds some accounts, an
account belongs to one): `TypeCorrectness`, `RowsUnderTheirHeader`, `NothingStale`,
and `ReadersCallAsAssumed`, the refinement of `StorageRuns`. `RowsFitTheHeader`
needs to know of a run that is out and not overtaken that it reads the account, the
order and the window the table now wants (`RunFits`), so that what it brings fits,
and of the rows that they are a window of one order whatever happens (`Shape`).
Of the standing orders, what is on the screen or on its way is of the account that is
chosen (`SoFits`, `OrdersFit`). `NothingStaleAtRest` turns on `Going`: a table that was overtaken, or whose rows
are those of an earlier choice, has a request out, queued or put off. Its rows are the
beginning of the holding as long as no refresh is owed (`Fresh`), and an owed refresh
is not rest. Its other half is about the tree. A connection into it stands
while a read of the accounts is out, and no longer than whoever asked waits for the end
of it (`Connected`), so no result but that of such a read ever finds one; and the tree is
what is kept in the open file, or will be once the read that is out, told or due has
ended (`Coming`, `TreeFits`), unless such a read failed. For the refinement, `Owned`, `Turn` and `Session` say of each of the
four readers when it waits and what it has still to hear, which is what makes a
broadcast end go to the caller whose run it was.

**`AccountFetchProofs`**, from `FetchAssumption` (finitely many accounts):
`AccountFetchHolds` (`IInv`), `PhaseBelongs`, `NothingIsEarly`, `BookingsComeFirst`,
and `CallsAreAssumed`, which says that the fetch and the wizard are behaviours of
`StorageRuns`. `Placed` keeps the fetch in one place at a time: in its session, in
a run, before a retry or before a question. `OneRun` keeps its next run apart from
the end of the last. The weight is on `RunIsTrue`: what an end says of the file. A
failure has set `storeFailed` by the time it is heard; silence says nothing, and is
harmless only because it means that no connection stands, so that the balance which
would follow cannot be started. `BookingsFirst` carries that from the run of the
bookings to the run of the balance, across retries, and needs in turn that an entry
of the queue knows all that was brought for its account.

**`AccountFiguresProofs`**, from the same assumption: `FiguresGoTogether` (`IInv /\
FInv`), `FetchTypes`, `ReportsAreTrue`, `FiguresHoldTrue`. The argument is `Booked`:
between runs, what is not in the queue any more is in the file, and the count is what was
added; while a run is out, the same holds with its part in or out as the thread went
(`RunBooked`); and when its end is told, with its part in for a result and out for a
failure (`EndBooked`). A silent end says neither, but then a connection fell, `stood` is
false, and nothing is claimed. It needs that a queue has one entry of an account
(`QueueFits`), so that a part that is stored is in no later entry, and that an answer to
keep what came in stands in the summary from then on (`OutcomeFits`). The figures
(`FiguresKept`) are an argument about cardinalities: the fates of the accounts that were
tried are disjoint, so that what is left over is what was fetched. The bounds of `TypeOK`
follow from both.

**Why a fetch ends.** Both fetches carry a measure, `Left`: the session and the question
count for all that may follow them, then each entry of the queue for the runs it still
needs, the run that is out for the stages it still goes through, a retry for its timer.
Its theorems are, for the fetch of bookings in `AccountFetchProofs`
(the first) and `AccountFiguresProofs`, for that of standing orders in
`StandingOrderFetchProofs`. `NothingIsForgotten` (`SomethingIsDue`): while the fetch runs, an
end is told, the session, the question or a run is out, or the timer runs and will find
the way free. It needs `Engaged`, of which step a fetch waits for. `EveryStepCounts`
(`StepsCount`): every step of any actor lowers `Left`; the fall of a connection alone may
leave it as it is. (A timer that finds the way still taken and is set again changes
nothing and is a stutter of the model.) So no entry is queued twice, no part is stored twice
and a retry that fires is followed by a run of the fetch or by its end. `EndIsInSight`:
`Left` is a natural number, bounded by the number of accounts. The first two make
`FetchGetsOn` (`GetsOn`); the three are all of `EveryFetchEnds` except the passage from
"a step is due" to "it is taken".

**`StandingOrderFetchProofs`**, from its `FetchAssumption`: `FetchHolds` (`IInv`),
`StoringBelongs`, `NoOrderEndsUnanswered`, and `CallsKeepTheContract`, the refinement
of `StorageContract`. `Single` and `Worked` say who holds the write way and what its
worker may be; `Marks` is what had to be heard before an entry may mark: an answer for its
account, and no stop. The queue goes in the order of the accounts; that any set of
accounts has one is an argument of its own: there is no least number of accounts it
could fail for.

On that invariant stands a second one, for what the fetch reports: `BooksBalance`
(`IInv /\ FInv`), and from it `FetchTypes`, `ReportsAreTrue` and `FiguresAreAll`.
The ledger of a fetch (`Ledger`) is that of the accounts that are due, those written
stand before those still queued, in the order of the accounts; `Booked` says how it
stands between the runs, while one is out (the worker has committed the head of the
queue, or it has not) and when the end of one is told (`RunBooked`, `EndBooked`).
That is why a run that fails leaves exactly the accounts before the failing one. A run
that outlived its storage finds the file gone (`Gone`), so that `stood` is false at its
silent end and nothing is claimed there. `OutcomeFits` ties the outcome to the stop and
to the answer about what came in, and `FiguresKept` carries the figures from the return
of the session to the report: the four fates are disjoint and cover the accounts, so
their cardinalities add up to the number of accounts, and the difference the code
computes for what was fetched is the number of answers. The bounds of `TypeOK` are part
of it.

**`VaultRowsProofs`**, from `BankAssumption` (finite sets of accounts and bookings,
every booking has an account and a day), `IdentifierAssumption` and
`BoundAssumption`: `RowsHold` (`IInv`), `RowTypes`, `NothingIsSkipped`,
`IdentifiersStandForOneOrder`, `FiguresHold`, `CountsHold` (`IInv /\ DoneOK`) and two
action properties, `HoldingsAreTheAnswer` and `CountsAreTrue`. `BookingsOK` is the argument for
`NoGap`: the run that is out brings everything the bank may hold from its starting
point on, so the file *as it would be after a commit* has no gap, and the file as
it is has none because a starting point moves only with the commit. The lead is
what keeps the bank's late postings from falling before the next starting point.
`DoneOK` says what a run has done by its n-th record: it touched the rows of the orders
no later one displaced, and added as many rows as it counted. That an order meets the
row it belongs to and no other (`MatchedRows`) holds because one row stands under an
identifier and one under a fingerprint, the first by `OneRow`, the second because the
index would refuse the run; that marking merges no rows, for the same reason.

**`StorageVaultProofs`**, from `VaultAssumption`: `VaultsHold` (`IInv`), `VaultTypes`,
`OpenAgreesWithShown`, `NoBookingIsLost`, `PassphraseHolds`. The invariant says for
each stage of each operation where connection, key and file stand (`JobOK`,
`ConnectionOK`, `EntryOK`, `CreationOK`). That a migration takes only second copies
rests on there being a first one: the least row id of a hash, by the well-foundedness
of the natural numbers.

A second invariant, `SInv`, says what goes together in a file (`VersionsHold`): the
current version only with the index (`VersionsOK`), the index only with no booking
twice, and what each statement of a migration under way has done so far (`StampOK`).
From it follows `MigrationsReplay`: whatever a migration was cut off at, the four
statements can be run again from the first one exactly where the file does not hold the
empty fingerprint twice, and the file then ends at the current version.
The condition is one of the file alone: no statement removes such a row
or adds one, so neither a crash nor a replay changes it. `EmptyTwiceStaysShut` says what
that means for the user: no file that fails it is ever behind a connection that stands
between two operations. `Replay` is a recursive function over the number of statements; the proof
unrolls its four steps and needs no induction over data. The invariant rests on three
clauses of `VaultAssumption` about the files an earlier build left behind. An indexed
one has no booking twice, because the index is unique and SQLite would not have built
it otherwise. One at the current version is indexed, because the build that brought
that version brought the index, and writes the version after it.

`CreatedIsThere` is refuted by a run (*A vault that is not created*, above).
`CreatedOrItsTwin` says that this is the only way it fails: a vault told to be created
is there, or the file of a name that differs in case alone is. `CreatedBarringTwins`
is the property itself, for names no two of which fall on one file.

**`BankingGateProofs`**, from `GateAssumption`: `GateHolds` (`IInv`), `GateTypes`,
`PinBelongs`, `ShutdownIsFree` (the safety half of a shutdown: no session is out that
waits for the window, and the library is not shut down over an empty slot). A cached
PIN has an end that is due, a fetch that will arm the timer or a timer that runs
(`PinHasAnEnd`); a session keeps the banking layer up (`SessionHolds`); a window that
goes down is idle (`ClosedIsQuiet`).

Only model-checked:

* Liveness under fairness, which the prover does not reach because it takes
  `ENABLED`: `EveryCallEnds`, `ComesToRest`, `EveryFetchEnds`, `ShutdownEnds`, the
  fairness of `ImplementsContract`. Of `EveryFetchEnds` the safety halves are proved
  (`GetsOn` and the bound on `Left`); that what is due is taken, by
  the fairness of `Spec`, stays with TLC.

## Not modelled, and why

* The pages of the assistant, docks, geometry, notices, themes and translations are
  presentation.
* The record types convert values between the library, the file and the screen and
  have no behaviour over time. What identifies a record (hash, identifier,
  fingerprint) is a constant of `VaultRows`; how it is computed is not modelled.
  Bookings without a hash, null or empty, are in `StorageVault`, whose older
  files may hold them; `VaultRows` starts from an empty file and writes none.
* Reference accounts, the columns of a row other than its keys, the texts of the
  statements, backup copies.
* The single steps of `Banking::initialize` and the client of chip cards.
* `storeItem` and a `storeItems` that is empty and names no account: no caller of
  the application uses them.
* The logger is a sink.

SQLite, SQLCipher, Qt's event loop and AqBanking are taken as the code uses them: a
transaction is atomic, queued events keep their order, a clone of a connection
that fell is refused, a rekey is there or is rolled back by the journal after a
crash, and a probe that opens a file with its key can read it.

## What could come next

* Liveness of the composition of `StandingOrderFetch` with the stages of
  `StorageRuns`, which is only shown by way of the contract.
* Fields of rows beyond their keys, and reference accounts, in `VaultRows`.
* The chip card client and the steps of `Banking::initialize` in `BankingGate`.
