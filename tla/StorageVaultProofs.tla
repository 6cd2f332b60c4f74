------------------------- MODULE StorageVaultProofs -------------------------
(***************************************************************************)
(* What the vaults guarantee for any names, pass phrases, bookings and     *)
(* older files: what is open agrees with what is shown, the pass phrase    *)
(* the user was told opens the file, no booking goes but the second copy   *)
(* of one that stays, a migration that was cut off can be run again, and a *)
(* vault told to be created is there but for a name that differs in case.  *)
(***************************************************************************)
EXTENDS StorageVault, TLAPS, WellFoundedInduction

(* An operation goes its way, on the key it set.                           *)
JobOK ==
  /\ job # Idle => job.kind # "none" /\ job.at # "none" /\ key \in Keys
  /\ job.kind = "change" => job.new \in Keys
  /\ job.at = "rekey" => job.kind = "change"
  /\ job.at = "schema" => job.step \in 1..4

(* A file in the list is there, under a key its owner was told.            *)
FilesOK ==
  /\ \A n \in listed : Here(n) /\ disk[n].key # NoKey /\ disk[n].key \in believed[n]
  /\ \A n \in Names : ~Here(n) => ever[n] = {}

(* Where the connection stands, before, between and after the operations.  *)
ConnectionOK ==
  /\ connection # NoName => Here(connection)
  /\ job.at \in {"none", "connect"} =>
       /\ page = "Storages" => connection = NoName
       /\ connection # NoName => disk[connection].version = Current
  /\ job.at \in {"schema", "verify", "rekey"} => connection # NoName

(* An entry of the overview is opened, or its password is changed.         *)
EntryOK ==
  /\ job.kind \in {"open", "change"} =>
       page = "Storages" /\ fileName \in listed /\ connection \in {NoName, fileName}
  /\ job.kind = "open" /\ job.at \in {"schema", "verify"} => Opens(key, disk[connection])

(* The file of a vault that is being created takes the key from the first  *)
(* statement on.                                                           *)
CreationOK ==
  job.kind = "create" =>
    /\ fileName \in Names \ listed
    /\ job.at = "connect" => ~Here(fileName)
    /\ job.at = "schema" =>
         connection = fileName /\ disk[fileName].key = IF job.step = 1 THEN NoKey ELSE key
    /\ job.at = "verify" /\ Here(fileName) => disk[fileName].key = key

IInv ==
  /\ TypeOK /\ JobOK /\ FilesOK /\ ConnectionOK /\ EntryOK /\ CreationOK
  /\ WhatIsOpenAgrees /\ OnlySecondCopiesGo

-----------------------------------------------------------------------------
(* The schema is four statements.                                          *)
LEMMA SchemaStatements ==
  /\ Len(Schema) = 4
  /\ Schema[1] = "tables" /\ Schema[2] = "dedupe" /\ Schema[3] = "index" /\ Schema[4] = "stamp"
BY DEF Schema

(* What the removal of the doubled bookings leaves.                        *)
FirstCopies(rows) == {r \in rows : ~SecondCopy(r, rows)}

(* What a statement makes of a file, under whatever key.                   *)
LEMMA StatementMakes ==
  ASSUME NEW f \in Files, NEW k, k \in Keys \cup {NoKey}, NEW i \in 1..4
  PROVE  /\ Executed(Schema[i], f, k) \in Files
         /\ i = 2 => Executed(Schema[i], f, k).rows = FirstCopies(f.rows)
         /\ i # 2 => Executed(Schema[i], f, k).rows = f.rows
         /\ i = 3 => Executed(Schema[i], f, k).indexed
         /\ i # 3 => (Executed(Schema[i], f, k).indexed <=> f.indexed)
         /\ i = 4 => Executed(Schema[i], f, k).version = Current
         /\ i # 4 => Executed(Schema[i], f, k).version = f.version
<1>1. CASE i = 1
  BY <1>1, SchemaStatements DEF Executed, Files, Current, FirstCopies
<1>2. CASE i = 2
  BY <1>2, SchemaStatements DEF Executed, Files, Current, FirstCopies
<1>3. CASE i = 3
  BY <1>3, SchemaStatements DEF Executed, Files, Current, FirstCopies
<1>4. CASE i = 4
  BY <1>4, SchemaStatements DEF Executed, Files, Current, FirstCopies
<1> QED
  BY <1>1, <1>2, <1>3, <1>4

(* What a statement of a migration under way makes of it.                  *)
LEMMA ExecutedFile ==
  ASSUME NEW f \in Files, NEW k \in Keys, NEW i \in 1..4
  PROVE  /\ Executed(Schema[i], f, k) \in Files
         /\ Executed(Schema[i], f, k).key = IF i = 1 /\ f.key = NoKey THEN k ELSE f.key
         /\ Executed(Schema[i], f, k).rows =
              IF i = 2 THEN {r \in f.rows : ~SecondCopy(r, f.rows)} ELSE f.rows
<1>1. CASE i = 1
  BY <1>1, SchemaStatements DEF Executed, Files, Current
<1>2. CASE i = 2
  BY <1>2, SchemaStatements DEF Executed, Files, Current
<1>3. CASE i = 3
  BY <1>3, SchemaStatements DEF Executed, Files, Current
<1>4. CASE i = 4
  BY <1>4, SchemaStatements DEF Executed, Files, Current
<1> QED
  BY <1>1, <1>2, <1>3, <1>4

(* A file that is there is a file.                                         *)
LEMMA HereIsAFile ==
  ASSUME NEW d \in [Names -> Files \cup {Absent}], NEW n \in Names
  PROVE  /\ d[n] # Absent => d[n] \in Files
         /\ Absent \notin Files /\ Unwritten \in Files
<1>1. Absent \notin Files
  BY DEF Absent, Files
<1>2. Unwritten \in Files
  BY DEF Unwritten, Files, Current
<1> QED
  BY <1>1, <1>2

(* An operation goes on (GoOn).                                            *)
LEMMA JobGoesOn ==
  ASSUME job \in Jobs, NEW at \in {"schema", "verify", "rekey"}, NEW step \in 0..4, GoOn(at, step)
  PROVE  /\ job' \in Jobs /\ job'.at = at /\ job'.step = step
         /\ job'.kind = job.kind /\ job'.old = job.old /\ job'.new = job.new
<1>1. [job EXCEPT !.at = at] \in Jobs
  BY DEF Jobs
<1>2. 0..Len(Schema) = 0..4
  BY SchemaStatements
<1>3. job' \in Jobs
  BY <1>1, <1>2 DEF Jobs, GoOn
<1>4. /\ job'.at = at /\ job'.step = step
      /\ job'.kind = job.kind /\ job'.old = job.old /\ job'.new = job.new
  BY DEF Jobs, GoOn
<1> QED
  BY <1>3, <1>4

(* Nothing is under way.                                                   *)
LEMMA IdleJob ==
  Idle \in Jobs /\ Idle.kind = "none" /\ Idle.at = "none"
BY SchemaStatements DEF Jobs, Idle

-----------------------------------------------------------------------------
(* Types.                                                                  *)

(* Every step keeps the types.                                             *)
LEMMA TypeStep == IInv /\ [Next]_vars => TypeOK'
<1> SUFFICES ASSUME IInv, [Next]_vars PROVE TypeOK'
  OBVIOUS
<1>0. TypeOK /\ JobOK /\ ConnectionOK /\ EntryOK /\ CreationOK
  BY DEF IInv
<1> USE VaultAssumption
<1>1. ASSUME NEW kind \in {"open", "create", "change"}, NEW n \in Names,
             NEW k \in Keys \cup {Short}, NEW new \in Keys \cup {NoKey},
             UserActs, SetKeyAndBegin(kind, n, k, new)
      PROVE  TypeOK'
  <2>1. ops' \in 0..MaxOps
    BY <1>0, <1>1 DEF TypeOK, UserActs
  <2>2. k # Short => [kind |-> kind, at |-> "connect", step |-> 0, old |-> k, new |-> new] \in Jobs
    BY <1>1, SchemaStatements DEF Jobs
  <2> QED
    BY <1>0, <1>1, <2>1, <2>2 DEF TypeOK, SetKeyAndBegin, Quiet
<1>2. ASSUME NEW n \in Names, DeleteStorage(n) PROVE TypeOK'
  <2>1. ops' \in 0..MaxOps
    BY <1>0, <1>2 DEF TypeOK, DeleteStorage, UserActs
  <2> QED
    BY <1>0, <1>2, <2>1 DEF TypeOK, DeleteStorage, LoadStorageItems, object
<1>3. CASE CloseStorage
  <2>1. ops' \in 0..MaxOps
    BY <1>0, <1>3 DEF TypeOK, CloseStorage, UserActs
  <2> QED
    BY <1>0, <1>3, <2>1 DEF TypeOK, CloseStorage, LoadStorageItems
<1>4. ASSUME NEW r \in Rows, StoreBooking(r) PROVE TypeOK'
  <2>1. ops' \in 0..MaxOps
    BY <1>0, <1>4 DEF TypeOK, StoreBooking, UserActs
  <2>2. connection \in Names /\ disk[connection] \in Files
    BY <1>0, <1>4, HereIsAFile DEF TypeOK, StoreBooking, ConnectionOK, Here
  <2>3. [disk[connection] EXCEPT !.rows = @ \cup {r}] \in Files
    BY <2>2 DEF Files
  <2>4. disk' \in [Names -> Files \cup {Absent}]
    BY <1>0, <1>4, <2>2, <2>3 DEF TypeOK, StoreBooking
  <2>5. ever' \in [Names -> SUBSET Rows]
    BY <1>0, <1>4, <2>2 DEF TypeOK, StoreBooking
  <2> QED
    BY <1>0, <1>4, <2>1, <2>4, <2>5 DEF TypeOK, StoreBooking, object
<1>5. CASE Connect
  <2>1. fileName \in Names
    BY <1>0, <1>5 DEF Connect, Underway, EntryOK, CreationOK, TypeOK, Jobs
  <2> DEFINE n == IF Reusable THEN connection ELSE fileName
             with == IF Here(n) THEN disk ELSE [disk EXCEPT ![n] = Unwritten]
  <2>2. n \in Names
    BY <1>0, <2>1 DEF Reusable, TypeOK
  <2>3. with \in [Names -> Files \cup {Absent}]
    BY <1>0, <2>2, HereIsAFile DEF TypeOK
  <2>4. disk' \in {disk, with} /\ connection' \in {NoName, n}
    BY <1>5 DEF Connect, Fails
  <2>5. told' \in {told, [what |-> "failed", of |-> fileName]}
    BY <1>5 DEF Connect, Fails
  <2>6. job' = Idle \/ GoOn("verify", 0) \/ GoOn("schema", 1)
    BY <1>5 DEF Connect, Fails
  <2>7. job' \in Jobs
    BY <1>0, <2>6, JobGoesOn, IdleJob DEF TypeOK
  <2>8. UNCHANGED <<listed, key, fileName, page, ever, believed, bounds>>
    BY <1>5 DEF Connect
  <2> HIDE DEF n, with
  <2> QED
    BY <1>0, <2>1, <2>2, <2>3, <2>4, <2>5, <2>7, <2>8 DEF TypeOK, bounds
<1>6. CASE SetupTables
  <2>1. connection \in Names /\ disk[connection] \in Files /\ key \in Keys /\ job.step \in 1..4
    BY <1>0, <1>6, HereIsAFile
       DEF TypeOK, SetupTables, Underway, ConnectionOK, JobOK, Here, Idle
  <2>2. Executed(Schema[job.step], disk[connection], key) \in Files
    BY <2>1, ExecutedFile
  <2>3. disk' \in {disk, [disk EXCEPT ![connection] = Executed(Schema[job.step], disk[connection], key)]}
    BY <1>6 DEF SetupTables, Fails
  <2>4. disk' \in [Names -> Files \cup {Absent}]
    BY <1>0, <2>2, <2>3 DEF TypeOK
  <2>5. job' = Idle \/ GoOn("verify", 0) \/ (GoOn("schema", job.step + 1) /\ job.step < 4)
    BY <1>6, SchemaStatements DEF SetupTables, Fails, AnotherStatement
  <2>6. job.step < 4 => job.step + 1 \in 0..4
    BY <2>1
  <2>7. job' \in Jobs
    BY <1>0, <2>5, <2>6, JobGoesOn, IdleJob DEF TypeOK
  <2>8. /\ connection' \in {connection, NoName}
        /\ told' \in {told, [what |-> "failed", of |-> fileName]}
        /\ UNCHANGED <<listed, key, fileName, page, ever, believed, ops, crashes>>
    BY <1>6 DEF SetupTables, Fails, bounds
  <2> QED
    BY <1>0, <2>4, <2>7, <2>8 DEF TypeOK
<1>7. CASE OpenEnds
  BY <1>0, <1>7, IdleJob DEF OpenEnds, TypeOK, object, bounds
<1>8. CASE CreateEnds
  <2>1. fileName \in Names /\ key \in Keys
    BY <1>0, <1>8 DEF CreateEnds, CreationOK, Verified, Underway, JobOK, Idle, TypeOK
  <2> QED
    BY <1>0, <1>8, <2>1, IdleJob DEF CreateEnds, TypeOK, bounds, LoadStorageItems, AfterClose
<1>9. CASE ChangeGoesOn
  <2>1. job \in Jobs /\ job.new \in Keys
    BY <1>0, <1>9 DEF ChangeGoesOn, Verified, JobOK, TypeOK
  <2>2. /\ job' = Idle \/ GoOn("rekey", 0)
        /\ key' \in {job.old, job.new}
        /\ connection' \in {connection, NoName}
        /\ told' \in {told, [what |-> "failed", of |-> fileName]}
        /\ UNCHANGED <<disk, listed, fileName, page, ever, believed, ops, crashes>>
    BY <1>9 DEF ChangeGoesOn, AfterClose, bounds
  <2>3. job' \in Jobs
    BY <2>1, <2>2, JobGoesOn, IdleJob
  <2>4. key' \in Keys \cup {NoKey}
    BY <2>1, <2>2 DEF Jobs
  <2> QED
    BY <1>0, <2>2, <2>3, <2>4 DEF TypeOK
<1>10. CASE VerifyFails
  BY <1>0, <1>10, IdleJob DEF VerifyFails, Fails, TypeOK, bounds
<1>11. CASE Rekey
  <2>1. job \in Jobs /\ job.new \in Keys /\ connection \in Names /\ fileName \in Names
        /\ disk[connection] \in Files
    BY <1>0, <1>11, HereIsAFile
       DEF Rekey, Underway, JobOK, TypeOK, ConnectionOK, EntryOK, Here
  <2>2. PICK k \in {job.new, Torn} : disk' = [disk EXCEPT ![connection].key = k]
    BY <1>11 DEF Rekey
  <2>3. [disk[connection] EXCEPT !.key = k] \in Files
    BY <2>1, <2>2 DEF Files
  <2>4. disk' \in [Names -> Files \cup {Absent}]
    BY <1>0, <2>1, <2>2, <2>3 DEF TypeOK
  <2>5. believed' \in [Names -> SUBSET (Keys \cup {NoKey, Torn})]
    BY <1>0, <1>11, <2>1 DEF Rekey, TypeOK
  <2>6. told' \in {[what |-> "changed", of |-> fileName], [what |-> "failed", of |-> fileName]}
    BY <1>11 DEF Rekey
  <2>7. job' = Idle /\ connection' = NoName /\ UNCHANGED <<listed, key, fileName, page, ever, ops, crashes>>
    BY <1>11 DEF Rekey, AfterClose, bounds
  <2> QED
    BY <1>0, <2>1, <2>4, <2>5, <2>6, <2>7, IdleJob DEF TypeOK
<1>12. CASE RekeyRefused
  <2>1. job.old \in Keys \cup {NoKey}
    BY <1>0 DEF TypeOK, Jobs
  <2> QED
    BY <1>0, <1>12, <2>1, IdleJob DEF RekeyRefused, TypeOK, AfterClose, bounds
<1>13. CASE Crash
  <2>1. crashes' \in 0..MaxCrashes
    BY <1>0, <1>13 DEF TypeOK, Crash
  <2>2. /\ disk' \in [Names -> Files \cup {Absent}]
        /\ believed' \in [Names -> SUBSET (Keys \cup {NoKey, Torn})]
    <3>1. CASE Underway("rekey")
      <4>1. job.new \in Keys /\ connection \in Names /\ fileName \in Names
            /\ disk[connection] \in Files
        BY <1>0, <3>1, HereIsAFile
           DEF Underway, JobOK, TypeOK, ConnectionOK, EntryOK, Here
      <4>2. [disk[connection] EXCEPT !.key = job.new] \in Files
        BY <4>1 DEF Files
      <4> QED
        BY <1>0, <1>13, <3>1, <4>1, <4>2 DEF Crash, TypeOK
    <3>2. CASE ~Underway("rekey")
      BY <1>0, <1>13, <3>2 DEF Crash, TypeOK
    <3> QED
      BY <3>1, <3>2
  <2>3. /\ key' = NoKey /\ fileName' = NoName /\ connection' = NoName
        /\ page' = "Storages" /\ job' = Idle /\ told' = Quiet /\ UNCHANGED <<ever, ops>>
        /\ listed' \subseteq listed
    BY <1>13 DEF Crash, LoadStorageItems
  <2> QED
    BY <1>0, <2>1, <2>2, <2>3, IdleJob DEF TypeOK, Quiet
<1>14. CASE UNCHANGED vars
  BY <1>0, <1>14 DEF TypeOK, vars, object, window, bounds
<1> QED
  BY <1>1, <1>2, <1>3, <1>4, <1>5, <1>6, <1>7, <1>8, <1>9, <1>10, <1>11, <1>12, <1>13, <1>14
     DEF Next, OpenVault, CreateStorage, ChangePassword

-----------------------------------------------------------------------------
(* The object, the files and the operations.                               *)

Rest == JobOK /\ FilesOK /\ ConnectionOK /\ EntryOK /\ CreationOK /\ WhatIsOpenAgrees

(* What initialize finds: the connection that stands, which shows a vault  *)
(* of the current version, the file of an entry, or no file at all.        *)
LEMMA ConnectFinds ==
  ASSUME IInv, Connect
  PROVE  /\ job.kind \in {"open", "create", "change"} /\ job.at = "connect" /\ fileName \in Names
         /\ key \in Keys /\ job \in Jobs
         /\ UNCHANGED <<listed, key, fileName, page, ever, believed>>
         /\ \/ job' = Idle /\ connection' = NoName
            \/ /\ Reusable /\ disk' = disk /\ connection' = connection /\ job.kind = "create"
               /\ GoOn("verify", 0)
            \/ /\ connection' = fileName /\ Here(fileName) /\ disk' = disk
               /\ Opens(key, disk[fileName])
               /\ \/ disk[fileName].version = Current /\ GoOn("verify", 0)
                  \/ job.kind = "open" /\ GoOn("schema", 1)
            \/ /\ connection' = fileName /\ job.kind = "create" /\ GoOn("schema", 1)
               /\ disk' = [disk EXCEPT ![fileName] = Unwritten]
         /\ \/ disk' = disk
            \/ ~Here(fileName) /\ disk' = [disk EXCEPT ![fileName] = Unwritten]
<1>0. TypeOK /\ JobOK /\ FilesOK /\ ConnectionOK /\ EntryOK /\ CreationOK
  BY DEF IInv
<1>1. /\ job.kind \in {"open", "create", "change"} /\ job.at = "connect" /\ fileName \in Names
      /\ key \in Keys /\ job \in Jobs
      /\ UNCHANGED <<listed, key, fileName, page, ever, believed>>
  BY <1>0 DEF Connect, Underway, TypeOK, Jobs, JobOK, EntryOK, CreationOK, Idle
<1> DEFINE n == IF Reusable THEN connection ELSE fileName
           with == IF Here(n) THEN disk ELSE [disk EXCEPT ![n] = Unwritten]
<1>2. Reusable => /\ n = connection /\ Here(n) /\ disk[n].version = Current
                  /\ with = disk /\ job.kind = "create"
  BY <1>0, <1>1 DEF ConnectionOK, EntryOK, Reusable
<1>3. job.kind \in {"open", "change"} => Here(fileName)
  BY <1>0 DEF EntryOK, FilesOK
<1>4. job.kind = "create" => ~Here(fileName)
  BY <1>0, <1>1 DEF CreationOK
<1>5. ~Reusable => n = fileName /\ (Here(fileName) => with = disk)
                   /\ (~Here(fileName) => with = [disk EXCEPT ![fileName] = Unwritten])
  OBVIOUS
<1>6. ~Here(fileName) => [disk EXCEPT ![fileName] = Unwritten][fileName] = Unwritten
  BY <1>0, <1>1 DEF TypeOK
<1>7. \/ ~Reusable /\ Fails /\ disk' \in {disk, with}
      \/ Fails /\ disk' = with
      \/ /\ Reusable \/ Opens(key, with[n])
         /\ with[n].version = Current \/ (job.kind # "change" /\ with[n].version < Current)
         /\ IF with[n].version = Current THEN GoOn("verify", 0) ELSE GoOn("schema", 1)
         /\ connection' = n /\ disk' = with
  BY DEF Connect
<1> HIDE DEF n, with
<1>8. disk' = disk \/ (~Here(fileName) /\ disk' = [disk EXCEPT ![fileName] = Unwritten])
  BY <1>2, <1>5, <1>7
<1>9. CASE Fails
  BY <1>1, <1>8, <1>9 DEF Fails
<1>10. ASSUME ~Fails, Reusable PROVE connection' = connection /\ disk' = disk /\ GoOn("verify", 0)
  BY <1>2, <1>7, <1>10
<1>11. ASSUME ~Fails, ~Reusable, Here(fileName)
       PROVE  /\ connection' = fileName /\ disk' = disk /\ Opens(key, disk[fileName])
              /\ \/ disk[fileName].version = Current /\ GoOn("verify", 0)
                 \/ job.kind = "open" /\ GoOn("schema", 1)
  BY <1>1, <1>4, <1>5, <1>7, <1>11
<1>12. ASSUME ~Fails, ~Reusable, ~Here(fileName)
       PROVE  /\ connection' = fileName /\ job.kind = "create" /\ GoOn("schema", 1)
              /\ disk' = [disk EXCEPT ![fileName] = Unwritten]
  <2>1. with[n] = Unwritten /\ Unwritten.version = 0 /\ Current = 5
    BY <1>5, <1>6, <1>12 DEF Unwritten, Current
  <2>2. with[n].version # Current
    BY <2>1
  <2> QED
    BY <1>1, <1>3, <1>5, <1>7, <1>12, <2>2
<1>13. CASE ~Fails /\ Reusable
  BY <1>1, <1>2, <1>8, <1>10, <1>13
<1>14. CASE ~Fails /\ ~Reusable /\ Here(fileName)
  BY <1>1, <1>8, <1>11, <1>14
<1>15. CASE ~Fails /\ ~Reusable /\ ~Here(fileName)
  BY <1>1, <1>8, <1>12, <1>15
<1> QED
  BY <1>9, <1>13, <1>14, <1>15

(* Every step keeps the rest of the invariant.                             *)
LEMMA RestStep == IInv /\ [Next]_vars => Rest'
<1> SUFFICES ASSUME IInv, [Next]_vars PROVE Rest'
  OBVIOUS
<1>0. TypeOK /\ JobOK /\ FilesOK /\ ConnectionOK /\ EntryOK /\ CreationOK /\ WhatIsOpenAgrees
  BY DEF IInv
<1> USE VaultAssumption, IdleJob
<1>1. ASSUME NEW kind \in {"open", "create", "change"}, NEW n \in Names,
             NEW k \in Keys \cup {Short}, NEW new \in Keys \cup {NoKey},
             UserActs, SetKeyAndBegin(kind, n, k, new),
             kind # "create" => page = "Storages" /\ n \in listed,
             kind = "create" => ~Here(n) /\ k \in Keys,
             kind = "change" => new \in Keys
      PROVE  Rest'
  <2>1. /\ job = Idle /\ UNCHANGED <<disk, listed, connection, page, ever, believed>>
        /\ \/ UNCHANGED <<key, fileName, job>> /\ kind # "create"
           \/ /\ key' = k /\ k \in Keys /\ fileName' = n
              /\ job' = [kind |-> kind, at |-> "connect", step |-> 0, old |-> k, new |-> new]
    BY <1>1 DEF UserActs, SetKeyAndBegin
  <2>2. connection # NoName => page = "Banking" /\ disk[connection].version = Current
    BY <1>0, <2>1 DEF ConnectionOK, WhatIsOpenAgrees
  <2>3. FilesOK'
    BY <1>0, <2>1 DEF FilesOK, Here
  <2>4. CASE UNCHANGED <<key, fileName, job>>
    BY <1>0, <2>1, <2>3, <2>4
       DEF Rest, JobOK, ConnectionOK, EntryOK, CreationOK, WhatIsOpenAgrees, Here, Opens
  <2>5. CASE /\ key' = k /\ k \in Keys /\ fileName' = n
             /\ job' = [kind |-> kind, at |-> "connect", step |-> 0, old |-> k, new |-> new]
    <3>1. job'.kind = kind /\ job'.at = "connect" /\ job'.new = new /\ job' # Idle
      BY <2>5
    <3>2. JobOK'
      BY <1>1, <2>5, <3>1 DEF JobOK
    <3>3. ConnectionOK'
      BY <1>0, <2>1, <2>2, <3>1 DEF ConnectionOK, Here
    <3>4. EntryOK'
      BY <1>1, <2>1, <2>2, <2>5, <3>1 DEF EntryOK
    <3>5. CreationOK'
      BY <1>0, <1>1, <2>1, <2>5, <3>1 DEF CreationOK, FilesOK, Here
    <3> QED
      BY <2>3, <3>1, <3>2, <3>3, <3>4, <3>5 DEF Rest, WhatIsOpenAgrees
  <2> QED
    BY <2>1, <2>4, <2>5
<1>2. ASSUME NEW n \in Names, DeleteStorage(n) PROVE Rest'
  <2>1. /\ job = Idle /\ connection = NoName /\ UNCHANGED <<key, fileName, connection, page, job>>
        /\ disk' = [disk EXCEPT ![n] = Absent] /\ listed' = {m \in listed \ {n} : disk'[m] # Absent}
        /\ ever' = [ever EXCEPT ![n] = {}] /\ believed' = [believed EXCEPT ![n] = {}]
    BY <1>0, <1>2 DEF DeleteStorage, UserActs, ConnectionOK, LoadStorageItems, object
  <2>2. FilesOK'
    BY <1>0, <2>1 DEF FilesOK, TypeOK, Here
  <2> QED
    BY <1>0, <2>1, <2>2
       DEF Rest, JobOK, ConnectionOK, EntryOK, CreationOK, WhatIsOpenAgrees
<1>3. CASE CloseStorage
  <2>1. /\ job = Idle /\ job' = Idle /\ connection' = NoName /\ disk' = disk /\ listed' \subseteq listed
        /\ UNCHANGED <<ever, believed>>
    BY <1>3 DEF CloseStorage, UserActs, LoadStorageItems
  <2> QED
    BY <1>0, <2>1
       DEF Rest, JobOK, FilesOK, ConnectionOK, EntryOK, CreationOK, WhatIsOpenAgrees, Here
<1>4. ASSUME NEW r \in Rows, StoreBooking(r) PROVE Rest'
  <2>1. /\ job = Idle /\ connection \in Names /\ disk[connection] \in Files
        /\ UNCHANGED <<listed, key, fileName, connection, page, job, believed>>
    BY <1>0, <1>4, HereIsAFile DEF StoreBooking, UserActs, ConnectionOK, TypeOK, Here, object
  <2> DEFINE f == [disk[connection] EXCEPT !.rows = @ \cup {r}]
  <2>2. /\ f \in Files /\ f # Absent /\ f.key = disk[connection].key
        /\ f.version = disk[connection].version
    BY <2>1 DEF Files, Absent
  <2>3. \/ UNCHANGED <<disk, ever>>
        \/ disk' = [disk EXCEPT ![connection] = f]
           /\ ever' = [ever EXCEPT ![connection] = @ \cup {r}]
    BY <1>4 DEF StoreBooking
  <2>4. \A n \in Names : /\ Here(n)' <=> Here(n)
                         /\ disk'[n].key = disk[n].key
                         /\ disk'[n].version = disk[n].version
                         /\ ~Here(n) => ever'[n] = ever[n]
    <3>1. CASE UNCHANGED <<disk, ever>>
      BY <3>1 DEF Here
    <3>2. CASE /\ disk' = [disk EXCEPT ![connection] = f]
               /\ ever' = [ever EXCEPT ![connection] = @ \cup {r}]
      <4>1. disk'[connection] = f /\ Here(connection)
        BY <1>0, <2>1, <3>2, HereIsAFile DEF TypeOK, Here
      <4>2. \A n \in Names \ {connection} : disk'[n] = disk[n] /\ ever'[n] = ever[n]
        BY <1>0, <3>2 DEF TypeOK
      <4> HIDE DEF f
      <4> QED
        BY <2>2, <4>1, <4>2 DEF Here
    <3> QED
      BY <2>3, <3>1, <3>2
  <2>5. FilesOK'
    BY <1>0, <2>1, <2>4 DEF FilesOK, TypeOK
  <2> HIDE DEF f
  <2> QED
    BY <1>0, <2>1, <2>4, <2>5
       DEF Rest, JobOK, ConnectionOK, EntryOK, CreationOK, WhatIsOpenAgrees, Opens, TypeOK
<1>5. CASE Connect
  <2>1. /\ job.kind \in {"open", "create", "change"} /\ job.at = "connect" /\ fileName \in Names
        /\ key \in Keys /\ job \in Jobs
        /\ UNCHANGED <<listed, key, fileName, page, ever, believed>>
    BY <1>5, ConnectFinds
  <2>2. \A n \in Names : Here(n) => disk'[n] = disk[n]
    BY <1>0, <1>5, ConnectFinds DEF TypeOK
  <2>3. FilesOK'
    BY <1>0, <2>1, <2>2 DEF FilesOK, Here, TypeOK
  <2>4. CASE job' = Idle /\ connection' = NoName
    BY <1>0, <2>3, <2>4
       DEF Rest, JobOK, ConnectionOK, EntryOK, CreationOK, WhatIsOpenAgrees
  <2>5. CASE /\ Reusable /\ disk' = disk /\ connection' = connection /\ job.kind = "create"
             /\ GoOn("verify", 0)
    <3>1. job' # Idle /\ job'.kind = "create" /\ job'.at = "verify"
      BY <2>1, <2>5, JobGoesOn
    <3>2. connection # NoName
      BY <2>5 DEF Reusable
    <3> QED
      BY <1>0, <2>1, <2>3, <2>5, <3>1, <3>2
         DEF Rest, JobOK, ConnectionOK, EntryOK, CreationOK, WhatIsOpenAgrees, Here
  <2>6. CASE /\ connection' = fileName /\ Here(fileName) /\ disk' = disk
             /\ Opens(key, disk[fileName])
             /\ \/ disk[fileName].version = Current /\ GoOn("verify", 0)
                \/ job.kind = "open" /\ GoOn("schema", 1)
    <3>1. /\ job' # Idle /\ job'.kind = job.kind /\ job'.at \in {"verify", "schema"}
          /\ job'.at = "schema" => job'.step = 1
          /\ job'.new = job.new /\ job.kind \in {"open", "change"}
      BY <1>0, <2>1, <2>6, JobGoesOn DEF CreationOK
    <3>2. fileName # NoName
      BY <2>1
    <3> QED
      BY <1>0, <2>1, <2>3, <2>6, <3>1, <3>2
         DEF Rest, JobOK, ConnectionOK, EntryOK, CreationOK, WhatIsOpenAgrees, Here, Opens
  <2>7. CASE /\ connection' = fileName /\ job.kind = "create" /\ GoOn("schema", 1)
             /\ disk' = [disk EXCEPT ![fileName] = Unwritten]
    <3>1. /\ job' # Idle /\ job'.kind = "create" /\ job'.at = "schema" /\ job'.step = 1
      BY <2>1, <2>7, JobGoesOn
    <3>2. fileName # NoName /\ disk'[fileName] = Unwritten /\ Unwritten # Absent
          /\ Unwritten.key = NoKey
      BY <1>0, <2>1, <2>7 DEF Unwritten, Absent, TypeOK
    <3> QED
      BY <1>0, <2>1, <2>3, <2>7, <3>1, <3>2
         DEF Rest, JobOK, ConnectionOK, EntryOK, CreationOK, WhatIsOpenAgrees, Here
  <2> QED
    BY <1>5, <2>4, <2>5, <2>6, <2>7, ConnectFinds
<1>6. CASE SetupTables
  <2>1. /\ connection \in Names /\ disk[connection] \in Files /\ key \in Keys
        /\ job.kind \in {"open", "create", "change"} /\ job.at = "schema" /\ job.step \in 1..4
        /\ job \in Jobs /\ connection # NoName /\ fileName \in Names
    BY <1>0, <1>6, HereIsAFile
       DEF TypeOK, Jobs, SetupTables, Underway, ConnectionOK, EntryOK, CreationOK, JobOK, Here, Idle
  <2> DEFINE f == Executed(Schema[job.step], disk[connection], key)
  <2>2. /\ f \in Files /\ f # Absent
        /\ f.key = IF job.step = 1 /\ disk[connection].key = NoKey THEN key ELSE disk[connection].key
    <3>1. /\ f \in Files
          /\ f.key = IF job.step = 1 /\ disk[connection].key = NoKey THEN key
                     ELSE disk[connection].key
      BY <2>1, ExecutedFile
    <3> HIDE DEF f
    <3>2. f # Absent
      BY <3>1 DEF Files, Absent
    <3> QED
      BY <3>1, <3>2
  <2>3. /\ UNCHANGED <<listed, key, fileName, page, ever, believed>>
        /\ \/ disk' = disk /\ job' = Idle /\ connection' = NoName
           \/ /\ disk' = [disk EXCEPT ![connection] = f] /\ connection' = connection
              /\ \/ GoOn("verify", 0) /\ job.step = 4
                 \/ GoOn("schema", job.step + 1) /\ job.step < 4
    <3>1. \/ Fails /\ UNCHANGED disk
          \/ /\ disk' = [disk EXCEPT ![connection] = f]
             /\ IF AnotherStatement(job.step) THEN GoOn("schema", job.step + 1) ELSE GoOn("verify", 0)
             /\ UNCHANGED <<connection, told>>
      BY <1>6 DEF SetupTables
    <3>2. AnotherStatement(job.step) <=> job.step < 4
      BY SchemaStatements DEF AnotherStatement
    <3>3. UNCHANGED <<listed, key, fileName, page, ever, believed>>
      BY <1>6 DEF SetupTables
    <3> HIDE DEF f
    <3>4. ~(job.step < 4) => job.step = 4
      BY <2>1
    <3> QED
      BY <3>1, <3>2, <3>3, <3>4 DEF Fails
  <2>4. CASE disk' = disk /\ job' = Idle /\ connection' = NoName
    BY <1>0, <2>3, <2>4
       DEF Rest, JobOK, FilesOK, ConnectionOK, EntryOK, CreationOK, WhatIsOpenAgrees, Here
  <2>5. CASE /\ disk' = [disk EXCEPT ![connection] = f] /\ connection' = connection
             /\ \/ GoOn("verify", 0) /\ job.step = 4
                \/ GoOn("schema", job.step + 1) /\ job.step < 4
    <3> HIDE DEF f
    <3>1. /\ job' # Idle /\ job'.kind = job.kind /\ job'.new = job.new
          /\ \/ job'.at = "verify" /\ job.step = 4
             \/ job'.at = "schema" /\ job'.step = job.step + 1 /\ job.step < 4
      <4>1. job.step < 4 => job.step + 1 \in 0..4
        BY <2>1
      <4> QED
        BY <2>1, <2>5, <4>1, JobGoesOn
    <3>2. disk'[connection] = f /\ \A n \in Names \ {connection} : disk'[n] = disk[n]
      BY <1>0, <2>1, <2>5 DEF TypeOK
    <3>3. connection \in listed => f.key = disk[connection].key
      BY <1>0, <2>2 DEF FilesOK
    <3>4. FilesOK'
      BY <1>0, <2>1, <2>2, <2>3, <3>2, <3>3 DEF FilesOK, Here, TypeOK
    <3>5. JobOK' /\ ConnectionOK' /\ WhatIsOpenAgrees'
      BY <1>0, <2>1, <2>2, <2>3, <2>5, <3>1, <3>2
         DEF JobOK, ConnectionOK, WhatIsOpenAgrees, Here
    <3>6. EntryOK'
      BY <1>0, <2>1, <2>2, <2>3, <2>5, <3>1, <3>2 DEF EntryOK, Opens
    <3>7. CreationOK'
      BY <1>0, <2>1, <2>2, <2>3, <2>5, <3>1, <3>2 DEF CreationOK
    <3> QED
      BY <3>4, <3>5, <3>6, <3>7 DEF Rest
  <2> QED
    BY <2>3, <2>4, <2>5
<1>7. CASE OpenEnds
  <2>1. /\ job.kind = "open" /\ job.at = "verify" /\ disk[connection].version = Current
        /\ page' = "Banking" /\ job' = Idle
        /\ UNCHANGED <<disk, listed, key, fileName, connection, ever, believed>>
    BY <1>7 DEF OpenEnds, Verified, Underway, object
  <2>2. connection = fileName /\ Opens(key, disk[connection])
    BY <1>0, <2>1 DEF ConnectionOK, EntryOK
  <2> QED
    BY <1>0, <2>1, <2>2
       DEF Rest, JobOK, FilesOK, ConnectionOK, EntryOK, CreationOK, WhatIsOpenAgrees, Here, Opens
<1>8. CASE CreateEnds
  <2>1. /\ job.kind = "create" /\ job.at = "verify" /\ job' = Idle /\ connection' = NoName
        /\ UNCHANGED <<disk, key, fileName, page, ever>>
        /\ listed' = {n \in listed \cup {fileName} : Here(n)}
        /\ believed' = [believed EXCEPT ![fileName] = {key}]
    BY <1>8 DEF CreateEnds, Verified, Underway, AfterClose, LoadStorageItems, Here
  <2>2. /\ key \in Keys /\ fileName \in Names \ listed
        /\ Here(fileName) => disk[fileName].key = key
    BY <1>0, <2>1 DEF JobOK, CreationOK
  <2>3. FilesOK'
    BY <1>0, <2>1, <2>2 DEF FilesOK, Here, TypeOK
  <2> QED
    BY <1>0, <2>1, <2>3 DEF Rest, JobOK, ConnectionOK, EntryOK, CreationOK, WhatIsOpenAgrees
<1>9. CASE ChangeGoesOn
  <2>1. /\ job.kind = "change" /\ job.at = "verify" /\ job \in Jobs /\ job.new \in Keys
        /\ UNCHANGED <<disk, listed, fileName, page, ever, believed>>
        /\ \/ key' = job.new /\ GoOn("rekey", 0) /\ connection' = connection
           \/ job' = Idle /\ connection' = NoName
    BY <1>0, <1>9 DEF ChangeGoesOn, Verified, Underway, AfterClose, JobOK, TypeOK
  <2>2. CASE key' = job.new /\ GoOn("rekey", 0) /\ connection' = connection
    <3>1. job'.kind = "change" /\ job'.at = "rekey" /\ job'.new = job.new /\ job' # Idle
      BY <2>1, <2>2, JobGoesOn
    <3> QED
      BY <1>0, <2>1, <2>2, <3>1
         DEF Rest, JobOK, FilesOK, ConnectionOK, EntryOK, CreationOK, WhatIsOpenAgrees, Here
  <2>3. CASE job' = Idle /\ connection' = NoName
    BY <1>0, <2>1, <2>3
       DEF Rest, JobOK, FilesOK, ConnectionOK, EntryOK, CreationOK, WhatIsOpenAgrees, Here
  <2> QED
    BY <2>1, <2>2, <2>3
<1>10. CASE VerifyFails \/ RekeyRefused
  <2>1. /\ job' = Idle /\ connection' = NoName
        /\ UNCHANGED <<disk, listed, fileName, page, ever, believed>>
    BY <1>10 DEF VerifyFails, RekeyRefused, Fails, AfterClose
  <2> QED
    BY <1>0, <2>1
       DEF Rest, JobOK, FilesOK, ConnectionOK, EntryOK, CreationOK, WhatIsOpenAgrees, Here
<1>11. CASE Rekey
  <2>1. /\ job.kind = "change" /\ job.new \in Keys /\ fileName \in listed /\ connection = fileName
        /\ connection \in Names /\ disk[connection] \in Files /\ Here(connection)
    BY <1>0, <1>11, HereIsAFile
       DEF Rekey, Underway, JobOK, TypeOK, ConnectionOK, EntryOK, Here
  <2>2. PICK k \in {job.new, Torn} : disk' = [disk EXCEPT ![connection].key = k]
    BY <1>11 DEF Rekey
  <2> DEFINE f == [disk[connection] EXCEPT !.key = k]
  <2>3. f.key = k /\ f.tables = disk[connection].tables /\ f # Absent
    BY <2>1 DEF Files, Absent
  <2>4. disk'[connection] = f /\ \A n \in Names \ {connection} : disk'[n] = disk[n]
    BY <1>0, <2>1, <2>2 DEF TypeOK
  <2>5. /\ job' = Idle /\ connection' = NoName /\ UNCHANGED <<listed, key, fileName, page, ever>>
        /\ \/ Opens(job.new, f) /\ believed' = [believed EXCEPT ![fileName] = {job.new}]
           \/ ~Opens(job.new, f) /\ believed' = [believed EXCEPT ![fileName] = @ \cup {Torn}]
    BY <1>11, <2>4 DEF Rekey, AfterClose, KeyOpensTheFile
  <2>6. k # NoKey
    BY <2>1 DEF Torn, NoKey
  <2>7. k \in believed'[fileName]
    BY <1>0, <2>1, <2>3, <2>5, <2>6 DEF Opens, TypeOK
  <2>8. \A n \in Names \ {connection} : believed'[n] = believed[n]
    BY <1>0, <2>1, <2>5 DEF TypeOK
  <2> HIDE DEF f
  <2>9. FilesOK'
    BY <1>0, <2>1, <2>3, <2>4, <2>5, <2>6, <2>7, <2>8 DEF FilesOK, Here, TypeOK
  <2> QED
    BY <1>0, <2>5, <2>9 DEF Rest, JobOK, ConnectionOK, EntryOK, CreationOK, WhatIsOpenAgrees
<1>12. CASE Crash
  <2>1. /\ job' = Idle /\ connection' = NoName /\ page' = "Storages" /\ UNCHANGED ever
        /\ listed' \subseteq listed
    BY <1>12 DEF Crash, LoadStorageItems
  <2>2. FilesOK'
    <3>1. CASE UNCHANGED <<disk, believed>>
      BY <1>0, <2>1, <3>1 DEF FilesOK, Here
    <3>2. CASE /\ Underway("rekey")
               /\ disk' \in {disk, [disk EXCEPT ![connection].key = job.new]}
               /\ believed' = [believed EXCEPT ![fileName] = @ \cup {job.new}]
      <4>1. /\ job.kind = "change" /\ job.new \in Keys /\ fileName \in listed
            /\ connection = fileName /\ connection \in Names /\ disk[connection] \in Files
        BY <1>0, <3>2, HereIsAFile
           DEF Underway, JobOK, TypeOK, ConnectionOK, EntryOK, Here
      <4> DEFINE f == [disk[connection] EXCEPT !.key = job.new]
      <4>2. f.key = job.new /\ f.tables = disk[connection].tables /\ f # Absent
        BY <4>1 DEF Files, Absent
      <4>3. /\ disk'[connection] \in {disk[connection], f}
            /\ \A n \in Names \ {connection} : disk'[n] = disk[n]
        BY <1>0, <3>2, <4>1 DEF TypeOK
      <4>4. /\ believed'[connection] = believed[connection] \cup {job.new}
            /\ \A n \in Names \ {connection} : believed'[n] = believed[n]
        BY <1>0, <3>2, <4>1 DEF TypeOK
      <4> HIDE DEF f
      <4> QED
        BY <1>0, <2>1, <4>1, <4>2, <4>3, <4>4 DEF FilesOK, Here, TypeOK
    <3> QED
      BY <1>12, <3>1, <3>2 DEF Crash
  <2> QED
    BY <1>0, <2>1, <2>2 DEF Rest, JobOK, ConnectionOK, EntryOK, CreationOK, WhatIsOpenAgrees
<1>13. CASE UNCHANGED vars
  BY <1>0, <1>13
     DEF Rest, JobOK, FilesOK, ConnectionOK, EntryOK, CreationOK, WhatIsOpenAgrees, Here, Opens,
         vars, object, window, bounds
<1> QED
  BY <1>1, <1>2, <1>3, <1>4, <1>5, <1>6, <1>7, <1>8, <1>9, <1>10, <1>11, <1>12, <1>13
     DEF Next, OpenVault, CreateStorage, ChangePassword

-----------------------------------------------------------------------------
(* Bookings.                                                               *)

(* Of the bookings with one fingerprint the first stays: a later copy only *)
(* goes where one is that does not.                                        *)
LEMMA FirstCopyStays ==
  ASSUME NEW rows \in SUBSET Rows, NEW r \in rows, PrintOf[r] \notin NoPrint
  PROVE  \E s \in rows : PrintOf[s] = PrintOf[r] /\ ~SecondCopy(s, rows)
<1> DEFINE same == {s \in rows : PrintOf[s] = PrintOf[r]}
           R == OpToRel(<, Nat)
<1>1. same \subseteq Nat /\ same # {}
  BY VaultAssumption
<1>2. IsWellFoundedOn(R, Nat)
  BY NatLessThanWellFounded, Zenon
<1>3. \A y, x \in Nat : y < x => <<y, x>> \in R
  BY DEF OpToRel
<1> HIDE DEF R, same
<1>4. PICK s \in same : \A y \in same : ~(<<y, s>> \in R)
  BY <1>1, <1>2, WFMin
<1>5. \A y \in same : ~(y < s)
  BY <1>1, <1>3, <1>4
<1> QED
  BY <1>4, <1>5 DEF SecondCopy, same

(* A booking that was given to a file is there, or its equal is.           *)
Covered(rows, given) ==
  \A r \in given \ rows : PrintOf[r] \notin NoPrint /\ \E s \in rows : PrintOf[s] = PrintOf[r]

LEMMA DedupeCovers ==
  ASSUME NEW rows \in SUBSET Rows, NEW given \in SUBSET Rows, Covered(rows, given)
  PROVE  Covered({r \in rows : ~SecondCopy(r, rows)}, given)
<1> SUFFICES ASSUME NEW r \in given, r \notin rows \/ SecondCopy(r, rows)
             PROVE  /\ PrintOf[r] \notin NoPrint
                    /\ \E s \in rows : PrintOf[s] = PrintOf[r] /\ ~SecondCopy(s, rows)
  BY DEF Covered
<1>1. PICK q \in rows : PrintOf[q] = PrintOf[r] /\ PrintOf[r] \notin NoPrint
  BY DEF Covered, SecondCopy
<1> QED
  BY <1>1, FirstCopyStays

(* Every step keeps the bookings, or their equals.                         *)
LEMMA BookingsStep == IInv /\ [Next]_vars => OnlySecondCopiesGo'
<1> SUFFICES ASSUME IInv, [Next]_vars, NEW n \in Names, Here(n)'
             PROVE  Covered(disk'[n].rows, ever'[n])
  BY DEF OnlySecondCopiesGo, Covered
<1>0. TypeOK /\ JobOK /\ FilesOK /\ ConnectionOK
  BY DEF IInv
<1>1. Here(n) => Covered(disk[n].rows, ever[n])
  BY DEF IInv, OnlySecondCopiesGo, Covered
<1>2. ~Here(n) => ever[n] = {}
  BY <1>0 DEF FilesOK
<1>3. ASSUME disk'[n] = disk[n], ever'[n] = ever[n] PROVE Covered(disk'[n].rows, ever'[n])
  BY <1>1, <1>3 DEF Here
<1>4. ASSUME NEW m \in Names, DeleteStorage(m) PROVE Covered(disk'[n].rows, ever'[n])
  <2>1. CASE n = m
    BY <1>0, <1>4, <2>1 DEF DeleteStorage, TypeOK, Here
  <2>2. CASE n # m
    BY <1>0, <1>3, <1>4, <2>2 DEF DeleteStorage, TypeOK
  <2> QED
    BY <2>1, <2>2
<1>5. ASSUME NEW r \in Rows, StoreBooking(r) PROVE Covered(disk'[n].rows, ever'[n])
  <2>1. connection \in Names /\ disk[connection] \in Files
    BY <1>0, <1>5, HereIsAFile DEF StoreBooking, ConnectionOK, TypeOK, Here
  <2>2. CASE UNCHANGED <<disk, ever>>
    BY <1>3, <2>2
  <2>3. CASE /\ disk' = [disk EXCEPT ![connection].rows = @ \cup {r}]
             /\ ever' = [ever EXCEPT ![connection] = @ \cup {r}]
    <3>1. CASE n = connection
      <4>1. disk'[n].rows = disk[n].rows \cup {r} /\ ever'[n] = ever[n] \cup {r}
        BY <1>0, <2>1, <2>3, <3>1 DEF TypeOK, Files
      <4>2. Here(n)
        BY <1>0, <1>5, <3>1 DEF ConnectionOK, StoreBooking
      <4> QED
        BY <1>1, <4>1, <4>2 DEF Covered
    <3>2. CASE n # connection
      BY <1>0, <1>3, <2>3, <3>2 DEF TypeOK
    <3> QED
      BY <3>1, <3>2
  <2> QED
    BY <1>5, <2>2, <2>3 DEF StoreBooking
<1>6. CASE Connect
  <2>1. ever' = ever /\ fileName \in Names
    BY <1>6, ConnectFinds
  <2>2. CASE disk' = disk
    BY <1>3, <2>1, <2>2
  <2>3. CASE ~Here(fileName) /\ disk' = [disk EXCEPT ![fileName] = Unwritten]
    <3>1. n = fileName => ever'[n] = {}
      BY <1>2, <2>1, <2>3
    <3>2. n # fileName => disk'[n] = disk[n]
      BY <1>0, <2>3 DEF TypeOK
    <3> QED
      BY <1>3, <2>1, <3>1, <3>2 DEF Covered
  <2> QED
    BY <1>6, <2>2, <2>3, ConnectFinds
<1>7. CASE SetupTables
  <2>1. connection \in Names /\ disk[connection] \in Files /\ key \in Keys /\ job.step \in 1..4
        /\ Here(connection)
    BY <1>0, <1>7, HereIsAFile
       DEF TypeOK, SetupTables, Underway, ConnectionOK, JobOK, Here, Idle
  <2> DEFINE f == Executed(Schema[job.step], disk[connection], key)
             rows == disk[connection].rows
  <2>2. f.rows = rows \/ f.rows = {r \in rows : ~SecondCopy(r, rows)}
    BY <2>1, ExecutedFile
  <2>3. ever' = ever /\ disk' \in {disk, [disk EXCEPT ![connection] = f]}
    BY <1>7 DEF SetupTables
  <2>4. n # connection \/ disk' = disk => disk'[n] = disk[n]
    BY <1>0, <2>1, <2>3 DEF TypeOK
  <2>5. ASSUME n = connection, disk' = [disk EXCEPT ![connection] = f]
        PROVE  Covered(disk'[n].rows, ever'[n])
    <3>1. disk'[n].rows = f.rows
      BY <1>0, <2>1, <2>5 DEF TypeOK
    <3>2. rows \in SUBSET Rows /\ ever[n] \in SUBSET Rows
      BY <1>0, <2>1 DEF TypeOK, Files
    <3>3. Covered(rows, ever[n])
      BY <1>1, <2>1, <2>5
    <3> HIDE DEF f, rows
    <3> QED
      BY <2>2, <2>3, <3>1, <3>2, <3>3, DedupeCovers
  <2> QED
    BY <1>3, <2>3, <2>4, <2>5
<1>8. CASE Rekey \/ Crash
  <2>1. ever' = ever
    BY <1>8 DEF Rekey, Crash
  <2>2. /\ disk'[n].rows = disk[n].rows
        /\ n # connection => disk'[n] = disk[n]
    <3>1. CASE disk' = disk
      BY <3>1
    <3>2. ASSUME NEW k, disk' = [disk EXCEPT ![connection].key = k], connection \in Names,
                 disk[connection] \in Files
          PROVE  disk'[n].rows = disk[n].rows /\ (n # connection => disk'[n] = disk[n])
      <4>1. [disk[connection] EXCEPT !.key = k].rows = disk[connection].rows
        BY <3>2 DEF Files
      <4> QED
        BY <1>0, <3>2, <4>1 DEF TypeOK
    <3>3. Underway("rekey") => connection \in Names /\ disk[connection] \in Files
      BY <1>0, HereIsAFile DEF Underway, ConnectionOK, TypeOK, Here
    <3> QED
      BY <1>8, <3>1, <3>2, <3>3 DEF Rekey, Crash
  <2>3. connection \in Names => Here(connection)
    BY <1>0, VaultAssumption DEF ConnectionOK
  <2> QED
    BY <1>1, <1>3, <2>1, <2>2, <2>3
<1>9. CASE UNCHANGED <<disk, ever>>
  BY <1>3, <1>9
<1> QED
  BY <1>4, <1>5, <1>6, <1>7, <1>8, <1>9
     DEF Next, OpenVault, CreateStorage, ChangePassword, SetKeyAndBegin, CloseStorage, OpenEnds,
         CreateEnds, ChangeGoesOn, VerifyFails, RekeyRefused, vars
-----------------------------------------------------------------------------
(* At the start the files are those of older builds, all of them listed.   *)
LEMMA InitIInv == Init => IInv
<1> SUFFICES ASSUME Init PROVE IInv
  OBVIOUS
<1>1. disk \in [Names -> Files \cup {Absent}]
  BY VaultAssumption DEF Init
<1>2. \A n \in Names : Here(n) => disk[n] \in Files /\ disk[n].key \in Keys /\ disk[n].rows \subseteq Rows
  BY VaultAssumption DEF Init, Files, Here
<1>3. TypeOK
  BY <1>1, <1>2, VaultAssumption, IdleJob DEF Init, TypeOK, Quiet
<1>4. FilesOK /\ OnlySecondCopiesGo
  BY <1>2, VaultAssumption DEF Init, FilesOK, OnlySecondCopiesGo
<1> QED
  BY <1>3, <1>4, IdleJob
     DEF Init, IInv, JobOK, ConnectionOK, EntryOK, CreationOK, WhatIsOpenAgrees

(* The inductive invariant holds in every reachable state.                 *)
THEOREM VaultsHold == Spec => []IInv
<1>1. IInv /\ [Next]_vars => IInv'
  BY TypeStep, RestStep, BookingsStep DEF IInv, Rest
<1> QED
  BY InitIInv, <1>1, PTL DEF Spec

(* Every variable keeps its type: no statement is executed past the        *)
(* schema, and no file gets a key nobody typed (setupTables, changeKey).   *)
THEOREM VaultTypes == Spec => []TypeOK
<1>1. IInv => TypeOK
  BY DEF IInv
<1> QED
  BY VaultsHold, <1>1, PTL

(* Between two operations a connection only stands behind the page of its  *)
(* vault, on the file the object names, under a key that opens it          *)
(* (initialize, close and the ways out of the dialogs).                    *)
THEOREM OpenAgreesWithShown == Spec => []WhatIsOpenAgrees
<1>1. IInv => WhatIsOpenAgrees
  BY DEF IInv
<1> QED
  BY VaultsHold, <1>1, PTL

(* However often a migration is cut off and run again: a booking is only   *)
(* gone where its equal stands (the removal of doubled bookings in         *)
(* olbaflinx_storage.sql).                                                 *)
THEOREM NoBookingIsLost == Spec => []OnlySecondCopiesGo
<1>1. IInv => OnlySecondCopiesGo
  BY DEF IInv
<1> QED
  BY VaultsHold, <1>1, PTL

(* The pass phrase the user was told opens the vault (changeKey with its   *)
(* two probes, createStorage).                                             *)
THEOREM PassphraseHolds == Spec => []PassphraseOpens
<1>1. IInv => PassphraseOpens
  BY DEF IInv, FilesOK, PassphraseOpens
<1> QED
  BY VaultsHold, <1>1, PTL

-----------------------------------------------------------------------------
(* Versions and indexes, and what was created.                             *)

(* An index stands over bookings that are not doubled, and the version     *)
(* over an index.                                                          *)
VersionsOK ==
  \A n \in Names : Here(n) =>
    /\ disk[n].indexed => NoneTwice(disk[n].rows)
    /\ disk[n].version = Current => disk[n].indexed

StampOK == job.at = "schema" /\ job.step = 4 => disk[connection].indexed

(* A vault is there whose name is n, but for its case.                     *)
Beside(n) == \E m \in Names : Here(m) /\ Fold[m] = Fold[n]

TwinsOK ==
  /\ job.kind = "create" /\ job.at \in {"schema", "verify"} => Beside(fileName)
  /\ told.what = "created" => told.of \in Names /\ Beside(told.of)

SInv == VersionsOK /\ StampOK /\ TwinsOK

(* What a step may make of a file.                                         *)
LEMMA FileStep ==
  ASSUME IInv, [Next]_vars, NEW n \in Names
  PROVE  \/ disk'[n] = disk[n]
         \/ disk'[n] = Absent /\ job' = Idle /\ told'.what = "deleted"
         \/ disk'[n] = Unwritten /\ ~Here(n)
         \/ Here(n) /\ \E k : disk'[n] = [disk[n] EXCEPT !.key = k]
         \/ /\ Here(n)
            /\ \E r \in Rows :
                 /\ disk'[n] = [disk[n] EXCEPT !.rows = @ \cup {r}]
                 /\ \A s \in disk[n].rows : PrintOf[s] # PrintOf[r]
         \/ /\ Here(n) /\ n = connection /\ job.at = "schema" /\ job.step \in 1..4
            /\ Executable(Schema[job.step], disk[n]) /\ key \in Keys
            /\ disk'[n] = Executed(Schema[job.step], disk[n], key)
<1>0. TypeOK /\ JobOK /\ ConnectionOK
  BY DEF IInv
<1>1. disk \in [Names -> Files \cup {Absent}]
  BY <1>0 DEF TypeOK
<1>2. connection \in Names => Here(connection)
  BY <1>0, VaultAssumption DEF ConnectionOK
<1>3. ASSUME NEW m \in Names, DeleteStorage(m)
      PROVE  disk'[n] = disk[n] \/ (disk'[n] = Absent /\ job' = Idle /\ told'.what = "deleted")
  BY <1>1, <1>3 DEF DeleteStorage, UserActs
<1>4. ASSUME NEW r \in Rows, StoreBooking(r)
      PROVE  \/ disk'[n] = disk[n]
             \/ /\ Here(n) /\ disk'[n] = [disk[n] EXCEPT !.rows = @ \cup {r}]
                /\ \A s \in disk[n].rows : PrintOf[s] # PrintOf[r]
  <2>1. connection \in Names
    BY <1>0, <1>4 DEF StoreBooking, TypeOK
  <2> QED
    BY <1>1, <1>2, <1>4, <2>1 DEF StoreBooking
<1>5. CASE Connect
  <2>1. \/ disk' = disk
        \/ fileName \in Names /\ ~Here(fileName) /\ disk' = [disk EXCEPT ![fileName] = Unwritten]
    BY <1>5, ConnectFinds
  <2> QED
    BY <1>1, <2>1
<1>6. CASE SetupTables
  <2>1. connection \in Names /\ key \in Keys /\ job.step \in 1..4 /\ job.at = "schema"
    BY <1>0, <1>6 DEF SetupTables, Underway, ConnectionOK, JobOK, TypeOK, Idle
  <2>2. \/ disk' = disk
        \/ /\ Executable(Schema[job.step], disk[connection])
           /\ disk' = [disk EXCEPT ![connection] = Executed(Schema[job.step], disk[connection], key)]
    BY <1>6 DEF SetupTables
  <2> QED
    BY <1>1, <1>2, <2>1, <2>2
<1>7. CASE Rekey \/ Crash
  <2>1. \/ disk' = disk
        \/ Underway("rekey") /\ \E k : disk' = [disk EXCEPT ![connection].key = k]
    BY <1>7 DEF Rekey, Crash
  <2>2. Underway("rekey") => connection \in Names
    BY <1>0 DEF Underway, ConnectionOK, TypeOK
  <2> QED
    BY <1>1, <1>2, <2>1, <2>2
<1>8. CASE disk' = disk
  BY <1>8
<1> QED
  BY <1>3, <1>4, <1>5, <1>6, <1>7, <1>8
     DEF Next, OpenVault, CreateStorage, ChangePassword, SetKeyAndBegin, CloseStorage, OpenEnds,
         CreateEnds, ChangeGoesOn, VerifyFails, RekeyRefused, vars

(* A row that is the first under its fingerprint doubles nothing, and      *)
(* without the later copies nothing is doubled but the empty value.        *)
LEMMA DoubledRows ==
  ASSUME NEW rows \in SUBSET Rows
  PROVE  /\ NoneTwice(FirstCopies(rows)) <=> EmptyOnce(rows)
         /\ NoneTwice(rows) => NoneTwice(FirstCopies(rows))
         /\ \A r \in Rows :
              /\ NoneTwice(rows)
              /\ \A s \in rows : PrintOf[s] # PrintOf[r]
              => NoneTwice(rows \cup {r})
<1>1. \A r, s \in rows : r # s => r < s \/ s < r
  BY VaultAssumption
<1>2. ASSUME EmptyOnce(rows) PROVE NoneTwice(FirstCopies(rows))
  BY <1>1, <1>2 DEF NoneTwice, SecondCopy, FirstCopies, EmptyOnce, NoPrint
<1>3. ASSUME NoneTwice(FirstCopies(rows)) PROVE EmptyOnce(rows)
  BY <1>3 DEF NoneTwice, SecondCopy, FirstCopies, EmptyOnce, NoPrint
<1>4. ASSUME NEW r \in Rows, NoneTwice(rows), \A s \in rows : PrintOf[s] # PrintOf[r]
      PROVE  NoneTwice(rows \cup {r})
  BY <1>4 DEF NoneTwice
<1>5. NoneTwice(rows) => NoneTwice(FirstCopies(rows))
  BY DEF NoneTwice, FirstCopies
<1> QED
  BY <1>2, <1>3, <1>4, <1>5

(* Over bookings that are not doubled the index can be built, and where it *)
(* could be built they are not doubled.                                    *)
LEMMA IndexGoes ==
  ASSUME NEW f \in Files
  PROVE  /\ NoneTwice(f.rows) => \A statement : Executable(statement, f)
         /\ Executable("index", f) => f.indexed \/ NoneTwice(f.rows)
BY DEF Executable

(* Every step keeps what index and version stand for.                      *)
LEMMA VersionsStep == IInv /\ SInv /\ [Next]_vars => VersionsOK'
<1> SUFFICES ASSUME IInv, SInv, [Next]_vars, NEW n \in Names, Here(n)'
             PROVE  /\ disk'[n].indexed => NoneTwice(disk'[n].rows)
                    /\ disk'[n].version = Current => disk'[n].indexed
  BY DEF VersionsOK
<1>1. disk'[n] # Absent
  BY DEF Here
<1>2. Here(n) => /\ disk[n] \in Files
                 /\ disk[n].indexed => NoneTwice(disk[n].rows)
                 /\ disk[n].version = Current => disk[n].indexed
  BY HereIsAFile DEF IInv, TypeOK, SInv, VersionsOK, Here
<1>3. CASE disk'[n] = disk[n]
  BY <1>1, <1>2, <1>3 DEF Here
<1>4. CASE disk'[n] = Unwritten
  BY <1>4 DEF Unwritten, NoneTwice, Current
<1>5. ASSUME NEW k, Here(n), disk'[n] = [disk[n] EXCEPT !.key = k]
      PROVE  /\ disk'[n].indexed => NoneTwice(disk'[n].rows)
             /\ disk'[n].version = Current => disk'[n].indexed
  <2>1. /\ disk'[n].rows = disk[n].rows /\ disk'[n].indexed = disk[n].indexed
        /\ disk'[n].version = disk[n].version
    BY <1>2, <1>5 DEF Files
  <2> QED
    BY <1>2, <1>5, <2>1
<1>6. ASSUME NEW r \in Rows, Here(n), disk'[n] = [disk[n] EXCEPT !.rows = @ \cup {r}],
             \A s \in disk[n].rows : PrintOf[s] # PrintOf[r]
      PROVE  /\ disk'[n].indexed => NoneTwice(disk'[n].rows)
             /\ disk'[n].version = Current => disk'[n].indexed
  <2>1. /\ disk'[n].rows = disk[n].rows \cup {r} /\ disk'[n].indexed = disk[n].indexed
        /\ disk'[n].version = disk[n].version /\ disk[n].rows \in SUBSET Rows
    BY <1>2, <1>6 DEF Files
  <2> QED
    BY <1>2, <1>6, <2>1, DoubledRows
<1>7. CASE /\ Here(n) /\ n = connection /\ job.at = "schema" /\ job.step \in 1..4
           /\ Executable(Schema[job.step], disk[n]) /\ key \in Keys
           /\ disk'[n] = Executed(Schema[job.step], disk[n], key)
  <2> DEFINE i == job.step
  <2>1. /\ i = 2 => disk'[n].rows = FirstCopies(disk[n].rows)
        /\ i # 2 => disk'[n].rows = disk[n].rows
        /\ i = 3 => disk'[n].indexed
        /\ i # 3 => (disk'[n].indexed <=> disk[n].indexed)
        /\ i = 4 => disk'[n].version = Current
        /\ i # 4 => disk'[n].version = disk[n].version
    <3>1. key \in Keys \cup {NoKey} /\ disk[n] \in Files /\ job.step \in 1..4
      BY <1>2, <1>7
    <3>2. PICK f \in Files, k \in Keys \cup {NoKey}, j \in 1..4 :
            f = disk[n] /\ k = key /\ j = i
      BY <3>1
    <3>3. /\ j = 2 => Executed(Schema[j], f, k).rows = FirstCopies(f.rows)
          /\ j # 2 => Executed(Schema[j], f, k).rows = f.rows
          /\ j = 3 => Executed(Schema[j], f, k).indexed
          /\ j # 3 => (Executed(Schema[j], f, k).indexed <=> f.indexed)
          /\ j = 4 => Executed(Schema[j], f, k).version = Current
          /\ j # 4 => Executed(Schema[j], f, k).version = f.version
      BY StatementMakes
    <3> HIDE DEF i
    <3>4. disk'[n] = Executed(Schema[j], f, k)
      BY <1>7, <3>2 DEF i
    <3> QED
      BY <3>2, <3>3, <3>4
  <2>2. disk[n].rows \in SUBSET Rows
    BY <1>2, <1>7 DEF Files
  <2>3. i = 3 => disk[n].indexed \/ NoneTwice(disk[n].rows)
    BY <1>2, <1>7, SchemaStatements, IndexGoes
  <2>4. i = 4 => disk[n].indexed
    BY <1>7 DEF SInv, StampOK
  <2> HIDE DEF i
  <2> QED
    BY <1>2, <1>7, <2>1, <2>2, <2>3, <2>4, DoubledRows
<1> QED
  BY <1>1, <1>3, <1>4, <1>5, <1>6, <1>7, FileStep

(* The version is written once the index stands.                           *)
LEMMA StampStep == IInv /\ [Next]_vars /\ SInv => StampOK'
<1> SUFFICES ASSUME IInv, SInv, [Next]_vars, job'.at = "schema", job'.step = 4
             PROVE  disk'[connection'].indexed
  BY DEF StampOK
<1>0. TypeOK /\ JobOK /\ ConnectionOK
  BY DEF IInv
<1>1. job' # Idle
  BY IdleJob
<1>2. CASE Connect
  <2>1. job \in Jobs /\ (job' = Idle \/ GoOn("verify", 0) \/ GoOn("schema", 1))
    BY <1>2, ConnectFinds
  <2> QED
    BY <1>1, <2>1, JobGoesOn
<1>3. CASE SetupTables
  <2>1. /\ connection \in Names /\ key \in Keys /\ job.step \in 1..4 /\ job \in Jobs
        /\ disk[connection] \in Files /\ disk \in [Names -> Files \cup {Absent}]
    BY <1>0, <1>3, HereIsAFile
       DEF SetupTables, Underway, ConnectionOK, JobOK, TypeOK, Idle, Here
  <2>2. /\ connection' = connection
        /\ disk' = [disk EXCEPT ![connection] = Executed(Schema[job.step], disk[connection], key)]
        /\ \/ job.step < 4 /\ GoOn("schema", job.step + 1)
           \/ GoOn("verify", 0)
    BY <1>1, <1>3, SchemaStatements DEF SetupTables, Fails, AnotherStatement
  <2>3. job.step < 4 => job.step + 1 \in 0..4
    BY <2>1
  <2>4. job'.step = job.step + 1
    BY <2>1, <2>2, <2>3, JobGoesOn
  <2>5. job.step = 3
    BY <2>1, <2>4
  <2>6. job.step = 3 => Executed(Schema[job.step], disk[connection], key).indexed
    <3>1. key \in Keys \cup {NoKey}
      BY <2>1
    <3> QED
      BY <2>1, <3>1, StatementMakes
  <2>7. disk'[connection'] = Executed(Schema[job.step], disk[connection], key)
    BY <2>1, <2>2
  <2> QED
    BY <2>5, <2>6, <2>7
<1>4. CASE ChangeGoesOn
  <2>1. job \in Jobs /\ (job' = Idle \/ GoOn("rekey", 0))
    BY <1>0, <1>4 DEF ChangeGoesOn, TypeOK
  <2> QED
    BY <1>1, <2>1, JobGoesOn
<1>5. CASE UNCHANGED <<job, disk, connection>>
  BY <1>5 DEF SInv, StampOK
<1>6. ASSUME NEW kind, NEW m, NEW k, NEW new, UserActs, SetKeyAndBegin(kind, m, k, new)
      PROVE  FALSE
  BY <1>1, <1>6 DEF UserActs, SetKeyAndBegin
<1> QED
  BY <1>1, <1>2, <1>3, <1>4, <1>5, <1>6
     DEF Next, OpenVault, CreateStorage, ChangePassword, DeleteStorage, UserActs, CloseStorage,
         StoreBooking, OpenEnds, CreateEnds, VerifyFails, Fails, Rekey, RekeyRefused, Crash, vars, object, window

(* A vault that is there stays until it is deleted, so its twin is vouched *)
(* for as long as it is told to be created.                                *)
LEMMA TwinsStep == IInv /\ SInv /\ [Next]_vars => TwinsOK'
<1> SUFFICES ASSUME IInv, SInv, [Next]_vars PROVE TwinsOK'
  OBVIOUS
<1>0. TypeOK /\ JobOK /\ ConnectionOK /\ TwinsOK
  BY DEF IInv, SInv
<1> DEFINE Still(n) == \E m \in Names : disk'[m] # Absent /\ Fold[m] = Fold[n]
<1>1. ASSUME NEW n, Beside(n), ~(job' = Idle /\ told'.what = "deleted") PROVE Still(n)
  <2>1. PICK m \in Names : Here(m) /\ Fold[m] = Fold[n]
    BY <1>1 DEF Beside
  <2>2. disk[m] \in Files
    BY <1>0, <2>1, HereIsAFile DEF TypeOK, Here
  <2>3. disk'[m] # Absent
    <3>1. CASE disk'[m] = disk[m]
      BY <2>1, <3>1 DEF Here
    <3>2. CASE disk'[m] = Unwritten
      BY <3>2 DEF Unwritten, Absent
    <3>3. ASSUME NEW k, disk'[m] = [disk[m] EXCEPT !.key = k] PROVE disk'[m] # Absent
      BY <2>2, <3>3 DEF Files, Absent
    <3>4. ASSUME NEW r, disk'[m] = [disk[m] EXCEPT !.rows = @ \cup {r}] PROVE disk'[m] # Absent
      BY <2>2, <3>4 DEF Files, Absent
    <3>5. ASSUME job.step \in 1..4, key \in Keys, disk'[m] = Executed(Schema[job.step], disk[m], key)
          PROVE  disk'[m] # Absent
      <4>1. disk'[m] \in Files
        BY <2>2, <3>5, ExecutedFile
      <4> QED
        BY <4>1 DEF Files, Absent
    <3> QED
      BY <1>1, <3>1, <3>2, <3>3, <3>4, <3>5, FileStep
  <2> QED
    BY <2>1, <2>3
<1>2. ASSUME told' = told
      PROVE  told'.what = "created" => told'.of \in Names /\ Still(told'.of)
  BY <1>0, <1>1, <1>2 DEF TwinsOK
<1> HIDE DEF Still
<1>15. /\ (job'.kind = "create" /\ job'.at \in {"schema", "verify"} => Still(fileName'))
       /\ (told'.what = "created" => told'.of \in Names /\ Still(told'.of))
       => TwinsOK'
  BY DEF TwinsOK, Beside, Here, Still
<1>16. \A n : Beside(n) /\ disk' = disk => Still(n)
  BY DEF Beside, Here, Still
<1>3. CASE UNCHANGED <<job, fileName, told, disk>>
  BY <1>0, <1>3, <1>15, <1>16 DEF TwinsOK
<1>4. CASE job' = Idle /\ (told' = told \/ told'.what # "created")
  BY <1>2, <1>4, <1>15, IdleJob
<1>5. ASSUME NEW kind, NEW n, NEW k, NEW new, UserActs, SetKeyAndBegin(kind, n, k, new)
      PROVE  TwinsOK'
  <2>1. \/ job' = Idle /\ told'.what = "failed"
        \/ job'.at = "connect" /\ told'.what = "nothing"
    BY <1>5 DEF UserActs, SetKeyAndBegin, Quiet
  <2> QED
    BY <1>15, <2>1, IdleJob
<1>6. CASE Connect
  <2>1. /\ job.kind \in {"open", "create", "change"} /\ job \in Jobs /\ fileName \in Names
        /\ fileName' = fileName
    BY <1>6, ConnectFinds
  <2>2. told' = told \/ told'.what = "failed"
    BY <1>6 DEF Connect, Fails
  <2>3. CASE job' = Idle
    BY <1>4, <2>2, <2>3
  <2>4. CASE /\ Reusable /\ disk' = disk /\ connection' = connection /\ job.kind = "create"
             /\ GoOn("verify", 0)
    <3>1. Beside(fileName)
      BY <1>0, <2>4, VaultAssumption DEF Reusable, ConnectionOK, TypeOK, Beside
    <3> QED
      BY <1>2, <1>15, <1>16, <2>1, <2>2, <2>4, <3>1
  <2>5. CASE connection' = fileName /\ Here(fileName) /\ disk' = disk
    BY <1>2, <1>15, <2>1, <2>2, <2>5 DEF Here, Still
  <2>6. CASE disk' = [disk EXCEPT ![fileName] = Unwritten]
    <3>1. disk'[fileName] = Unwritten /\ Unwritten # Absent
      BY <1>0, <2>1, <2>6 DEF TypeOK, Unwritten, Absent
    <3> QED
      BY <1>2, <1>15, <2>1, <2>2, <3>1 DEF Still
  <2> QED
    BY <1>6, <2>3, <2>4, <2>5, <2>6, ConnectFinds
<1>7. CASE SetupTables
  <2>1. job \in Jobs /\ job.at = "schema" /\ job.step \in 1..4 /\ fileName' = fileName
    BY <1>0, <1>7 DEF TypeOK, SetupTables, Underway, JobOK
  <2>2. told' = told \/ (job' = Idle /\ told'.what = "failed")
    BY <1>7 DEF SetupTables, Fails
  <2>3. job' = Idle \/ (GoOn("schema", job.step + 1) /\ job.step < 4) \/ GoOn("verify", 0)
    BY <1>7, SchemaStatements DEF SetupTables, Fails, AnotherStatement
  <2>4. job.step < 4 => job.step + 1 \in 0..4
    BY <2>1
  <2>5. job' = Idle \/ job'.kind = job.kind
    BY <2>1, <2>3, <2>4, JobGoesOn
  <2>6. CASE job' = Idle
    BY <1>4, <2>2, <2>6
  <2>7. CASE job' # Idle /\ job'.kind = job.kind
    <3>1. job'.kind = "create" => Beside(fileName)
      BY <1>0, <2>1, <2>7 DEF TwinsOK
    <3>2. job'.kind = "create" => Still(fileName)
      BY <1>1, <2>7, <3>1
    <3> QED
      BY <1>2, <1>15, <2>1, <2>2, <2>7, <3>2
  <2> QED
    BY <2>5, <2>6, <2>7
<1>8. CASE CreateEnds
  <2>1. /\ job.kind = "create" /\ job.at = "verify" /\ job' = Idle /\ disk' = disk
        /\ told'.what = "created" /\ told'.of = fileName /\ fileName \in Names
    BY <1>8 DEF CreateEnds, Verified, Underway, IInv, CreationOK
  <2> QED
    BY <1>0, <1>15, <1>16, <2>1, IdleJob DEF TwinsOK
<1>9. CASE ChangeGoesOn
  <2>1. /\ job.kind = "change" /\ job \in Jobs /\ (job' = Idle \/ GoOn("rekey", 0))
        /\ told' = told \/ (job' = Idle /\ told'.what = "failed")
    BY <1>0, <1>9 DEF ChangeGoesOn, Verified, TypeOK
  <2>2. job' # Idle => job'.kind = "change"
    BY <2>1, JobGoesOn
  <2> QED
    BY <1>2, <1>4, <1>15, <2>1, <2>2
<1>10. CASE OpenEnds \/ VerifyFails \/ Rekey \/ RekeyRefused
  <2>1. job' = Idle /\ told'.what \in {"opened", "failed", "changed"}
    BY <1>10 DEF OpenEnds, VerifyFails, Fails, Rekey, RekeyRefused
  <2> QED
    BY <1>4, <2>1
<1>11. CASE Crash
  BY <1>4, <1>11 DEF Crash, Quiet
<1>12. ASSUME NEW n \in Names, DeleteStorage(n) PROVE TwinsOK'
  BY <1>4, <1>12 DEF DeleteStorage, UserActs
<1>13. CASE CloseStorage \/ \E r \in Rows : StoreBooking(r)
  BY <1>4, <1>13 DEF CloseStorage, StoreBooking, UserActs
<1>14. CASE UNCHANGED vars
  BY <1>3, <1>14 DEF vars, object, window
<1> QED
  BY <1>5, <1>6, <1>7, <1>8, <1>9, <1>10, <1>11, <1>12, <1>13, <1>14
     DEF Next, OpenVault, CreateStorage, ChangePassword

(* The invariant holds in every reachable state.                           *)
THEOREM VersionsHold == Spec => [](IInv /\ SInv)
<1>1. Init => SInv
  <2> SUFFICES ASSUME Init PROVE SInv
    OBVIOUS
  <2>1. \A n \in Names : Here(n) => disk[n] \in OlderFiles
    BY DEF Init, Here
  <2> QED
    BY <2>1, IdleJob, VaultAssumption DEF Init, SInv, VersionsOK, StampOK, TwinsOK, Quiet
<1>2. IInv /\ SInv /\ [Next]_vars => IInv' /\ SInv'
  BY TypeStep, RestStep, BookingsStep, VersionsStep, StampStep, TwinsStep DEF IInv, Rest, SInv
<1> QED
  BY InitIInv, <1>1, <1>2, PTL DEF Spec

(* Running the statements again is four steps: their recursion has a       *)
(* function that satisfies it, and each that does ends alike.              *)
Replayed(state, i) ==
  [goes |-> state.goes /\ Executable(Schema[i], state.file),
   file |-> Executed(Schema[i], state.file, NoKey)]

LEMMA FourSteps ==
  ASSUME NEW f
  PROVE  Replay(f) = Replayed(Replayed(Replayed(Replayed([goes |-> TRUE, file |-> f], 1), 2), 3), 4)
<1> DEFINE r0 == [goes |-> TRUE, file |-> f]
           r1 == Replayed(r0, 1)
           r2 == Replayed(r1, 2)
           r3 == Replayed(r2, 3)
           r4 == Replayed(r3, 4)
           Runs(run) == run = [i \in 0..Len(Schema) |-> IF i = 0 THEN r0 ELSE Replayed(run[i - 1], i)]
           g == [i \in 0..Len(Schema) |-> IF i = 0 THEN r0 ELSE IF i = 1 THEN r1
                                          ELSE IF i = 2 THEN r2 ELSE IF i = 3 THEN r3 ELSE r4]
<1>1. Replay(f) = (CHOOSE run : Runs(run))[Len(Schema)]
  BY DEF Replay, Replayed
<1> HIDE DEF r0
<1>2. 0..Len(Schema) = {0, 1, 2, 3, 4} /\ Len(Schema) = 4
  BY SchemaStatements
<1>3. Runs(g)
  <2>1. /\ g[0] = r0 /\ g[1] = r1 /\ g[2] = r2 /\ g[3] = r3 /\ g[4] = r4
    BY <1>2
  <2> SUFFICES ASSUME NEW i \in 0..Len(Schema)
               PROVE  g[i] = IF i = 0 THEN r0 ELSE Replayed(g[i - 1], i)
    OBVIOUS
  <2> HIDE DEF g
  <2> QED
    BY <1>2, <2>1
<1>4. ASSUME NEW run, Runs(run) PROVE run[4] = r4
  <2>1. \A i \in {0, 1, 2, 3, 4} : run[i] = IF i = 0 THEN r0 ELSE Replayed(run[i - 1], i)
    BY <1>2, <1>4
  <2>2. run[0] = r0
    BY <2>1
  <2>3. run[1] = Replayed(run[0], 1) /\ run[2] = Replayed(run[1], 2)
        /\ run[3] = Replayed(run[2], 3) /\ run[4] = Replayed(run[3], 4)
    BY <2>1
  <2> QED
    BY <2>2, <2>3
<1> HIDE DEF g, Runs, r4
<1>5. Runs(CHOOSE run : Runs(run))
  BY <1>3
<1>6. Replay(f) = r4
  BY <1>1, <1>2, <1>4, <1>5
<1> QED
  BY <1>6 DEF r4, r0

(* The schema goes through where the index can be built, and it can where  *)
(* the empty value does not stand twice.                                   *)
LEMMA SchemaGoesThrough ==
  ASSUME NEW f \in Files, f.indexed => NoneTwice(f.rows)
  PROVE  /\ Replay(f).goes <=> EmptyOnce(f.rows)
         /\ Replay(f).file.version = Current /\ Replay(f).file.indexed
<1> DEFINE f1 == Executed(Schema[1], f, NoKey)
           f2 == Executed(Schema[2], f1, NoKey)
           f3 == Executed(Schema[3], f2, NoKey)
           f4 == Executed(Schema[4], f3, NoKey)
           goes == (((TRUE /\ Executable(Schema[1], f)) /\ Executable(Schema[2], f1))
                    /\ Executable(Schema[3], f2)) /\ Executable(Schema[4], f3)
<1>1. Replay(f) = [goes |-> goes, file |-> f4]
  BY FourSteps DEF Replayed
<1>2. f1 \in Files /\ f1.rows = f.rows /\ (f1.indexed <=> f.indexed)
  BY StatementMakes
<1> HIDE DEF f1
<1>3. f2 \in Files /\ f2.rows = FirstCopies(f.rows) /\ (f2.indexed <=> f.indexed)
  BY <1>2, StatementMakes
<1> HIDE DEF f2
<1>4. f3 \in Files /\ f3.indexed
  BY <1>3, StatementMakes
<1> HIDE DEF f3
<1>5. f4.version = Current /\ f4.indexed
  BY <1>4, StatementMakes
<1> HIDE DEF f4
<1>6. f.rows \in SUBSET Rows
  BY DEF Files
<1>7. /\ NoneTwice(f2.rows) <=> EmptyOnce(f.rows)
      /\ NoneTwice(f.rows) => EmptyOnce(f.rows)
  BY <1>3, <1>6, DoubledRows DEF NoneTwice, EmptyOnce
<1>8. Executable(Schema[3], f2) <=> EmptyOnce(f.rows)
  BY <1>3, <1>7, SchemaStatements DEF Executable
<1>9. Executable(Schema[1], f) /\ Executable(Schema[2], f1) /\ Executable(Schema[4], f3)
  BY SchemaStatements DEF Executable
<1>10. goes <=> EmptyOnce(f.rows)
  BY <1>8, <1>9
<1> HIDE DEF goes
<1>11. Replay(f).goes = goes /\ Replay(f).file = f4
  BY <1>1
<1> QED
  BY <1>5, <1>10, <1>11

(* A migration that was cut off anywhere can be run again from its first   *)
(* statement to its last just where no two bookings of the file carry the  *)
(* empty value for a fingerprint, and the version is only found on a file  *)
(* that is through with it (setupTables, olbaflinx_storage.sql).           *)
THEOREM MigrationsReplay == Spec => []MigrationReplays
<1>1. IInv /\ SInv => MigrationReplays
  <2> SUFFICES ASSUME IInv, SInv, NEW n \in Names, Here(n)
               PROVE  /\ disk[n].version < Current =>
                           LET replayed == Replay(disk[n])
                           IN  /\ replayed.goes <=> EmptyOnce(disk[n].rows)
                               /\ replayed.file.version = Current /\ replayed.file.indexed
                      /\ disk[n].version = Current => disk[n].indexed
                      /\ disk[n].indexed => NoneTwice(disk[n].rows)
    BY DEF MigrationReplays
  <2>1. disk[n] \in Files
    BY HereIsAFile DEF IInv, TypeOK, Here
  <2>2. /\ disk[n].indexed => NoneTwice(disk[n].rows)
        /\ disk[n].version = Current => disk[n].indexed
    BY DEF SInv, VersionsOK
  <2> QED
    BY <2>1, <2>2, SchemaGoesThrough
<1> QED
  BY VersionsHold, <1>1, PTL

(* No vault that holds the empty value twice ever gets past initialize:    *)
(* behind a connection that stands between two operations, and so behind   *)
(* the page of a vault, there is none (setupTables, openAndVerify).        *)
THEOREM EmptyTwiceStaysShut ==
  Spec => [](job = Idle /\ connection # NoName => EmptyOnce(disk[connection].rows))
<1>1. IInv /\ SInv => (job = Idle /\ connection # NoName => EmptyOnce(disk[connection].rows))
  <2> SUFFICES ASSUME IInv, SInv, job = Idle, connection # NoName
               PROVE  EmptyOnce(disk[connection].rows)
    OBVIOUS
  <2>1. connection \in Names /\ Here(connection)
    BY DEF IInv, TypeOK, ConnectionOK
  <2>2. disk[connection].version = Current
    BY DEF IInv, ConnectionOK, Idle
  <2> QED
    BY <2>1, <2>2 DEF SInv, VersionsOK, NoneTwice, EmptyOnce
<1> QED
  BY VersionsHold, <1>1, PTL

(* Where a vault was reported as created, a vault is there of that name or *)
(* of one that differs in its case only: initialize has taken the          *)
(* connection of the one for the other's.                                  *)
THEOREM CreatedOrItsTwin == Spec => [](told.what = "created" => Beside(told.of))
<1>1. SInv => (told.what = "created" => Beside(told.of))
  BY DEF SInv, TwinsOK
<1> QED
  BY VersionsHold, <1>1, PTL

(* Where no two names differ in their case only, the vault reported as     *)
(* created is there (createStorage): nothing else stands in the way of     *)
(* what StorageDialog.h says.                                              *)
THEOREM CreatedBarringTwins ==
  ASSUME \A m, n \in Names : Fold[m] = Fold[n] => m = n
  PROVE  Spec => []CreatedIsThere
<1>1. IInv /\ SInv => CreatedIsThere
  <2> SUFFICES ASSUME IInv, SInv, told.what = "created" PROVE Here(told.of)
    BY DEF CreatedIsThere
  <2>1. PICK m \in Names : Here(m) /\ Fold[m] = Fold[told.of]
    BY DEF SInv, TwinsOK, Beside
  <2>2. told.of \in Names
    BY DEF SInv, TwinsOK
  <2> QED
    BY <2>1, <2>2
<1> QED
  BY VersionsHold, <1>1, PTL
=============================================================================
