---------------------------- MODULE StorageVault ----------------------------
(***************************************************************************)
(* The vault files: created, opened, migrated, rekeyed and deleted.        *)
(*                                                                         *)
(* The window has one Storage object, and the overview of the vaults works *)
(* on it: opening an entry, creating a vault, which the menu allows while  *)
(* another one is open, and changing a password.  Each sets the key and    *)
(* the file name of the object and calls initialize.  All of them run in   *)
(* the thread of the window, so nothing comes between their steps but the  *)
(* end of the process.                                                     *)
(*                                                                         *)
(* A file encrypts what it holds; SQLCipher asks for the key at the first  *)
(* statement of a connection and never again.                              *)
(***************************************************************************)
EXTENDS Naturals, FiniteSets, Sequences

CONSTANTS
  Names,       \* of vaults; each is a file in the directory of the vaults
  Fold,        \* what toLower makes of a name
  Keys,        \* pass phrases the guideline accepts
  Short,       \* one that is too short for setKey
  Rows,        \* ids of bookings, in the order they are written
  PrintOf,     \* the fingerprint of a booking; without one, what an older build
               \* left in its place: "null", or "empty" for ''
  OlderFiles,  \* the files an older or newer build may have left behind
  MaxOps,      \* bound: operations of the user
  MaxCrashes   \* bound: ends of the process


VARIABLES
  disk,        \* the files
  listed,      \* the paths the settings hold
  key,         \* m_key
  fileName,    \* m_storageFileName
  connection,  \* the file m_connection stands on
  page,        \* Storages, which is the overview, or Banking
  job,         \* the operation under way in the thread of the window
  told         \* what the user was told last

\* For the properties: the rows each present file was ever given, and the pass
\* phrases its owner has been led to believe in.
VARIABLES ever, believed, ops, crashes

object == <<key, fileName, connection>>
window == <<page, told>>
bounds == <<ops, crashes>>
vars == <<disk, listed, object, window, job, ever, believed, bounds>>

NoName == "none"
NoKey == ""
Torn == "torn"   \* the key of a file no pass phrase opens any more
Idle == [kind |-> "none", at |-> "none", step |-> 0, old |-> NoKey, new |-> NoKey]
Quiet == [what |-> "nothing", of |-> NoName]
Current == 5

(* What sqlite3_open leaves behind: a file of no length, which takes the   *)
(* key of the first statement that writes to it.                           *)
Unwritten == [key |-> NoKey, tables |-> "none", rows |-> {}, indexed |-> FALSE, version |-> 0]

(* No file at all.                                                         *)
Absent == [key |-> NoKey, tables |-> "absent", rows |-> {}, indexed |-> FALSE, version |-> 0]

Here(n) == disk[n] # Absent

Opens(k, f) == f.key \in {k, NoKey}

-----------------------------------------------------------------------------
(* The statements of olbaflinx_storage.sql, each in a transaction of its   *)
(* own: the tables, the bookings that stand twice, the unique index over   *)
(* their fingerprints, and the rows that say the version.                  *)

(* Mutation: the version is written before the work it stands for.         *)
SchemaStampedEarly == <<"tables", "stamp", "dedupe", "index">>

Schema == <<"tables", "dedupe", "index", "stamp">>

(* COALESCE(hash, '') = ''                                                 *)
NoPrint == {"null", "empty"}

(* Mutation: rows without a fingerprint are grouped like any other.        *)
SecondCopyOfNull(r, rows) == \E s \in rows : s < r /\ PrintOf[s] = PrintOf[r]

(* The row is a later copy of another.                                     *)
SecondCopy(r, rows) ==
  PrintOf[r] \notin NoPrint /\ \E s \in rows : s < r /\ PrintOf[s] = PrintOf[r]

(* What a unique index can be built over and keeps up: no value stands     *)
(* twice.  Null is no value; the empty one is a value like any other.      *)
NoneTwice(rows) == \A r, s \in rows : r # s /\ PrintOf[r] = PrintOf[s] => PrintOf[r] = "null"

(* IF NOT EXISTS leaves a table alone, whatever its columns.               *)
Executed(statement, f, k) ==
  CASE statement = "tables" ->
         [f EXCEPT !.tables = IF @ = "none" THEN "full" ELSE @, !.key = IF @ = NoKey THEN k ELSE @]
    [] statement = "dedupe" -> [f EXCEPT !.rows = {r \in @ : ~SecondCopy(r, @)}]
    [] statement = "index" -> [f EXCEPT !.indexed = TRUE]
    [] statement = "stamp" -> [f EXCEPT !.version = Current]

(* IF NOT EXISTS again; only a new index looks at what is there.           *)
Executable(statement, f) == statement = "index" /\ ~f.indexed => NoneTwice(f.rows)

-----------------------------------------------------------------------------
Files == [key : Keys \cup {NoKey, Torn}, tables : {"none", "old", "full"}, rows : SUBSET Rows,
          indexed : BOOLEAN, version : 0..(Current + 1)]

Jobs == [kind : {"none", "open", "create", "change"},
         at : {"none", "connect", "schema", "verify", "rekey"}, step : 0..Len(Schema),
         old : Keys \cup {NoKey}, new : Keys \cup {NoKey}]

(* Every older file was written under some pass phrase; it keeps what its  *)
(* index demands, and the build that brought the index brought the version.*)
ASSUME VaultAssumption ==
  /\ Rows \subseteq Nat /\ NoName \notin Names
  /\ Short \notin Keys /\ NoKey \notin Keys /\ Torn \notin Keys
  /\ OlderFiles \subseteq Files
  /\ \A f \in OlderFiles :
       /\ f.key \in Keys
       /\ f.indexed => NoneTwice(f.rows)
       /\ f.version = Current => f.indexed
  /\ {MaxOps, MaxCrashes} \subseteq Nat

TypeOK ==
  /\ disk \in [Names -> Files \cup {Absent}]
  /\ listed \subseteq Names
  /\ key \in Keys \cup {NoKey} /\ {fileName, connection} \subseteq Names \cup {NoName}
  /\ page \in {"Storages", "Banking"}
  /\ job \in Jobs
  /\ told \in [what : {"nothing", "opened", "created", "changed", "deleted", "failed"},
               of : Names \cup {NoName}]
  /\ ever \in [Names -> SUBSET Rows]
  /\ believed \in [Names -> SUBSET (Keys \cup {NoKey, Torn})]
  /\ ops \in 0..MaxOps /\ crashes \in 0..MaxCrashes

Init ==
  /\ disk \in [Names -> {Absent} \cup OlderFiles]
  /\ listed = {n \in Names : Here(n)}
  /\ key = NoKey /\ fileName = NoName /\ connection = NoName
  /\ page = "Storages" /\ job = Idle /\ told = Quiet
  /\ ever = [n \in Names |-> IF n \in listed THEN disk[n].rows ELSE {}]
  /\ believed = [n \in Names |-> IF n \in listed THEN {disk[n].key} ELSE {}]
  /\ ops = 0 /\ crashes = 0

(* Building the overview drops the paths whose file is gone.               *)
LoadStorageItems(paths) == listed' = {n \in paths : disk'[n] # Absent}

-----------------------------------------------------------------------------
(* What the user begins.  setKey refuses by length, before the file name   *)
(* is set.                                                                 *)

UserActs == job = Idle /\ ops < MaxOps /\ ops' = ops + 1

SetKeyAndBegin(kind, n, k, new) ==
  /\ IF k = Short
     THEN told' = [what |-> "failed", of |-> n] /\ UNCHANGED <<key, fileName, job>>
     ELSE /\ key' = k /\ fileName' = n /\ told' = Quiet
          /\ job' = [kind |-> kind, at |-> "connect", step |-> 0, old |-> k, new |-> new]
  /\ UNCHANGED <<disk, listed, connection, page, ever, believed, crashes>>

(* storageOpened of an entry.                                              *)
OpenVault(n, k) ==
  /\ UserActs /\ page = "Storages" /\ n \in listed
  /\ SetKeyAndBegin("open", n, k, NoKey)

(* addNewStorageItem and createStorage, for a name that is free.           *)
CreateStorage(n, k) ==
  /\ UserActs /\ ~Here(n)
  /\ SetKeyAndBegin("create", n, k, NoKey)

(* showPasswordChangeDialog                                                *)
ChangePassword(n, current, new) ==
  /\ UserActs /\ page = "Storages" /\ n \in listed
  /\ SetKeyAndBegin("change", n, current, new)

(* deleteStorage and storageDeleted                                        *)
DeleteStorage(n) ==
  /\ UserActs /\ page = "Storages" /\ n \in listed
  /\ disk' = [disk EXCEPT ![n] = Absent]
  /\ LoadStorageItems(listed \ {n})
  /\ told' = [what |-> "deleted", of |-> n]
  /\ ever' = [ever EXCEPT ![n] = {}] /\ believed' = [believed EXCEPT ![n] = {}]
  /\ UNCHANGED <<object, page, job, crashes>>

(* App::closeStorage                                                       *)
CloseStorage ==
  /\ UserActs /\ page = "Banking"
  /\ connection' = NoName /\ page' = "Storages"
  /\ UNCHANGED <<disk, key, fileName, job, told, ever, believed, crashes>>
  /\ LoadStorageItems(listed)

(* A booking reaches the open vault over a connection cloned from the one  *)
(* that stands.  It carries a fingerprint once it is written; one that is  *)
(* there already is ignored.                                               *)
StoreBooking(r) ==
  /\ UserActs /\ page = "Banking" /\ connection # NoName /\ r \notin ever[connection]
  /\ Opens(key, disk[connection]) /\ PrintOf[r] \notin NoPrint
  /\ IF \E s \in disk[connection].rows : PrintOf[s] = PrintOf[r]
     THEN UNCHANGED <<disk, ever>>
     ELSE /\ disk' = [disk EXCEPT ![connection].rows = @ \cup {r}]
          /\ ever' = [ever EXCEPT ![connection] = @ \cup {r}]
  /\ UNCHANGED <<listed, object, page, job, told, believed, crashes>>

-----------------------------------------------------------------------------
(* initialize, and what follows it in each operation.                      *)

Underway(at) == job.kind # "none" /\ job.at = at

GoOn(at, step) == job' = [job EXCEPT !.at = at, !.step = step]

(* A failed attempt takes its connection with it, and the callers close or *)
(* leave it at that.                                                       *)
Fails == /\ job' = Idle /\ told' = [what |-> "failed", of |-> fileName]
         /\ connection' = NoName

(* Mutation: the dialog leaves without closing.                            *)
LeftOpen == connection

(* Every way out of the dialog and of createStorage closes.                *)
AfterClose == NoName

(* Whether the connection that stands is taken for the one asked for.      *)
Reusable == connection # NoName /\ Fold[connection] = Fold[fileName]

(* openConnection and the version check of openAndVerify.  The driver may  *)
(* be missing or the file not be had, before or after it came to be.       *)
Connect ==
  /\ Underway("connect")
  /\ LET n == IF Reusable THEN connection ELSE fileName
         with == IF Here(n) THEN disk ELSE [disk EXCEPT ![n] = Unwritten]
         f == with[n]
         withSchema == job.kind # "change"
         readable == Reusable \/ Opens(key, f)
     IN  \/ ~Reusable /\ Fails /\ disk' \in {disk, with}
         \/ /\ ~readable \/ f.version > Current \/ (~withSchema /\ f.version < Current)
            /\ Fails /\ disk' = with
         \/ /\ readable /\ (f.version = Current \/ (withSchema /\ f.version < Current))
            /\ IF f.version = Current THEN GoOn("verify", 0) ELSE GoOn("schema", 1)
            /\ connection' = n /\ disk' = with /\ UNCHANGED told
  /\ UNCHANGED <<listed, key, fileName, page, ever, believed, bounds>>

(* Mutation: one statement too far.                                        *)
AnotherOneTooFar(step) == step <= Len(Schema)

AnotherStatement(step) == step < Len(Schema)

(* setupTables, one statement; any of them may fail on a full disk.        *)
SetupTables ==
  /\ Underway("schema")
  /\ LET statement == Schema[job.step]
         f == disk[connection]
     IN  \/ Fails /\ UNCHANGED disk
         \/ /\ Executable(statement, f)
            /\ disk' = [disk EXCEPT ![connection] = Executed(statement, f, key)]
            /\ IF AnotherStatement(job.step)
               THEN GoOn("schema", job.step + 1)
               ELSE GoOn("verify", 0)
            /\ UNCHANGED <<connection, told>>
  /\ UNCHANGED <<listed, key, fileName, page, ever, believed, bounds>>

(* verifySchema with verifyColumns, and for each caller the way on: the    *)
(* window turns to the vault, createStorage closes and lists it, the       *)
(* dialog asks the file for the old key and begins to rekey.               *)
Verified ==
  /\ Underway("verify") /\ disk[connection].version = Current /\ disk[connection].tables = "full"

OpenEnds ==
  /\ Verified /\ job.kind = "open"
  /\ page' = "Banking" /\ job' = Idle /\ told' = [what |-> "opened", of |-> fileName]
  /\ UNCHANGED <<disk, listed, object, ever, believed, bounds>>

CreateEnds ==
  /\ Verified /\ job.kind = "create"
  /\ connection' = AfterClose /\ job' = Idle /\ told' = [what |-> "created", of |-> fileName]
  /\ believed' = [believed EXCEPT ![fileName] = {key}]
  /\ UNCHANGED <<disk, key, fileName, page, ever, bounds>>
  /\ LoadStorageItems(listed \cup {fileName})

(* Mutation: the open connection is asked, which answers in any case.      *)
ConnectionAnswers(k, f) == TRUE

(* keyOpensTheFile, over a connection of its own.                          *)
KeyOpensTheFile(k, f) == Opens(k, f)

(* isValid, and changeKey up to the rekey.  Either may be refused, which   *)
(* closes the file.                                                        *)
ChangeGoesOn ==
  /\ Verified /\ job.kind = "change"
  /\ \/ /\ KeyOpensTheFile(job.old, disk[connection])
        /\ key' = job.new /\ GoOn("rekey", 0)
        /\ UNCHANGED <<connection, told>>
     \/ /\ key' = job.old /\ job' = Idle
        /\ told' = [what |-> "failed", of |-> fileName] /\ connection' = AfterClose
  /\ UNCHANGED <<disk, listed, fileName, page, ever, believed, bounds>>

VerifyFails ==
  /\ Underway("verify")
  /\ Fails
  /\ UNCHANGED <<disk, listed, key, fileName, page, ever, believed, bounds>>

(* The rekey writes every page anew.  It is refused, goes through, or      *)
(* claims to have gone through over a file no key opens; only what the     *)
(* probe says counts.                                                      *)
Rekey ==
  /\ Underway("rekey")
  /\ \E k \in {job.new, Torn} : disk' = [disk EXCEPT ![connection].key = k]
  /\ LET done == KeyOpensTheFile(job.new, disk'[connection])
     IN  /\ told' = [what |-> IF done THEN "changed" ELSE "failed", of |-> fileName]
         /\ believed' = [believed EXCEPT ![fileName] = IF done THEN {job.new} ELSE @ \cup {Torn}]
  /\ job' = Idle /\ connection' = AfterClose
  /\ UNCHANGED <<listed, key, fileName, page, ever, bounds>>

RekeyRefused ==
  /\ Underway("rekey")
  /\ key' = job.old /\ job' = Idle /\ connection' = AfterClose
  /\ told' = [what |-> "failed", of |-> fileName]
  /\ UNCHANGED <<disk, listed, fileName, page, ever, believed, bounds>>

(* The process ends; a rekey that was under way is there or is rolled back *)
(* by the journal.  The next start builds the overview.                    *)
Crash ==
  /\ crashes < MaxCrashes /\ crashes' = crashes + 1
  /\ IF Underway("rekey")
     THEN /\ disk' \in {disk, [disk EXCEPT ![connection].key = job.new]}
          /\ believed' = [believed EXCEPT ![fileName] = @ \cup {job.new}]
     ELSE UNCHANGED <<disk, believed>>
  /\ key' = NoKey /\ fileName' = NoName /\ connection' = NoName
  /\ page' = "Storages" /\ job' = Idle /\ told' = Quiet
  /\ UNCHANGED <<ever, ops>>
  /\ LoadStorageItems(listed)

Next ==
  \/ \E n \in Names, k \in Keys \cup {Short} : OpenVault(n, k)
  \/ \E n \in Names, k \in Keys : CreateStorage(n, k)
  \/ \E n \in Names, k \in Keys \cup {Short}, new \in Keys : ChangePassword(n, k, new)
  \/ \E n \in Names : DeleteStorage(n)
  \/ CloseStorage \/ \E r \in Rows : StoreBooking(r)
  \/ Connect \/ SetupTables \/ OpenEnds \/ CreateEnds \/ ChangeGoesOn \/ VerifyFails
  \/ Rekey \/ RekeyRefused \/ Crash

Spec == Init /\ [][Next]_vars

-----------------------------------------------------------------------------
(* Between two operations a connection only stands behind the page that    *)
(* shows its vault, it stands on the file the object names, and the key of *)
(* the object opens that file: every read and write run clones the         *)
(* connection and hands it that key.  No vault stays decrypted behind the  *)
(* overview, whichever way a dialog was left.                              *)
WhatIsOpenAgrees ==
  job = Idle /\ connection # NoName =>
    page = "Banking" /\ connection = fileName /\ Opens(key, disk[connection])

(* Whatever was opened, interrupted and replayed in whatever order: a      *)
(* booking of a vault that is there is only gone where its equal stands,   *)
(* and two bookings without a fingerprint are never taken for equal.       *)
OnlySecondCopiesGo ==
  \A n \in Names : Here(n) =>
    \A r \in ever[n] \ disk[n].rows :
      PrintOf[r] \notin NoPrint /\ \E s \in disk[n].rows : PrintOf[s] = PrintOf[r]

(* The schema run again from its first statement: what it makes of a file, *)
(* and whether every statement goes through.                               *)
Replay(f) ==
  LET run[i \in 0..Len(Schema)] ==
        IF i = 0 THEN [goes |-> TRUE, file |-> f]
        ELSE [goes |-> run[i - 1].goes /\ Executable(Schema[i], run[i - 1].file),
              file |-> Executed(Schema[i], run[i - 1].file, NoKey)]
  IN  run[Len(Schema)]

(* The removal of second copies leaves the empty value as often as it was. *)
EmptyOnce(rows) == \A r, s \in rows : PrintOf[r] = "empty" /\ PrintOf[s] = "empty" => r = s

(* A migration cut off anywhere, by a full disk or the end of the process, *)
(* can be run again from its first statement to its last, whatever the     *)
(* file holds, unless two of its bookings carry the empty value: then, and *)
(* only then, it never goes through.  (olbaflinx_storage.sql:188 says that *)
(* the index is unaffected by these, for "there several empty values count *)
(* as different".  Those of null do, those of '' do not.)  A file that     *)
(* carries the version, which no later open migrates, is through with it:  *)
(* the index stands, over bookings of which none is doubled.               *)
MigrationReplays ==
  \A n \in Names : Here(n) =>
    /\ disk[n].version < Current =>
         LET replayed == Replay(disk[n])
         IN  /\ replayed.goes <=> EmptyOnce(disk[n].rows)
             /\ replayed.goes => replayed.file.version = Current /\ replayed.file.indexed
    /\ disk[n].version = Current => disk[n].indexed
    /\ disk[n].indexed => NoneTwice(disk[n].rows)

(* The pass phrase the user was told to be the one of a vault opens it; a  *)
(* change that was reported as failed left the old one in force, or the    *)
(* damage was shown there and then; one cut off left one of the two.       *)
PassphraseOpens ==
  \A n \in listed : job = Idle /\ Here(n) => disk[n].key \in believed[n]

(* What StorageDialog.h says of createStorage, and does not hold where a   *)
(* vault is open whose name differs only in case: true comes back when the *)
(* file was created.                                                       *)
CreatedIsThere == told.what = "created" => Here(told.of)
=============================================================================
