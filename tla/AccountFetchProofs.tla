-------------------------- MODULE AccountFetchProofs --------------------------
(***************************************************************************)
(* What a fetch of bookings and balances guarantees for any number of      *)
(* accounts, fetches, runs of the wizard and connections that fall: it     *)
(* knows its own run from the wizard's, writes nothing before the question *)
(* after a stop is answered, writes no balance ahead of its bookings,      *)
(* calls Storage as StorageRuns assumes of its callers, and never waits    *)
(* for nothing.                                                            *)
(***************************************************************************)
EXTENDS AccountFetch, TLAPS, FiniteSetTheorems, SequenceTheorems

Entries == [of : Accounts, parts : SUBSET Parts, fresh : 0..1]
WriteRuns == [stage : {"started", "working", "ended"}, by : Writers, since : Nat,
              part : (Accounts \X Parts) \cup {<<>>}, fresh : 0..1, good : BOOLEAN]
Tellings == [kind : {"result", "failed", "silent"}, by : Writers]

Types ==
  /\ open \in BOOLEAN /\ wizard \in BOOLEAN /\ running \in BOOLEAN
  /\ storeFailed \in BOOLEAN /\ waitingForAbortAnswer \in BOOLEAN
  /\ generation \in 0..MaxGeneration
  /\ write \in WriteRuns \cup {NoRun} /\ telling \in Tellings \cup {Quiet}
  /\ toHear \subseteq Writers
  /\ session \in {"none", "out", "doomed"} /\ asked \subseteq Accounts
  /\ phase \in Phases /\ retry \in Phases
  /\ pending \in Seq(Entries)

(* A fetch is in one place at a time: in its session, in a run, before a   *)
(* retry or before a question.                                             *)
Placed ==
  /\ session # "none" =>
       running /\ phase = "None" /\ retry = "None" /\ ~waitingForAbortAnswer
  /\ phase # "None" => running /\ retry = "None" /\ ~waitingForAbortAnswer
  /\ retry # "None" => running /\ ~waitingForAbortAnswer
  /\ waitingForAbortAnswer => running
  /\ phase # "None" \/ retry # "None" \/ waitingForAbortAnswer => pending # <<>>

(* No run is out while the fetch has still to hear the end of the last;    *)
(* and a run is good only when it has ended.                               *)
OneRun ==
  /\ "fetch" \in toHear => write = NoRun
  /\ write.stage \in {"started", "working"} => write.good = FALSE

Emission == toHear # {} => telling # Quiet

HeadPart(part) == <<Head(pending).of, part>>

(* What a run of the fetch is about, and what its end says of the file: a  *)
(* run falls silent only where nothing more can be started.                *)
RunIsTrue ==
  /\ OwnRunIsOut =>
       /\ write.part = HeadPart(phase)
       /\ write.since # generation => ~open
       /\ write.stage = "ended" /\ write.good => HeadPart(phase) \in stored
  /\ OwnEndIsTold =>
       /\ telling.kind = "result" => HeadPart(phase) \in stored
       /\ telling.kind = "failed" => storeFailed
       /\ telling.kind = "silent" => ~open

(* The bookings of an entry go before its balance, and an entry knows all  *)
(* that was brought for its account.                                       *)
KnowsItsParts(queue, parts) ==
  \A i \in DOMAIN queue :
    <<queue[i].of, "Transactions">> \in parts => "Transactions" \in queue[i].parts

BookingsFirst ==
  /\ phase = "Balances" /\ "Transactions" \in Head(pending).parts =>
       HeadPart("Transactions") \in stored
  /\ retry = "Balances" => "Transactions" \notin Head(pending).parts
  /\ KnowsItsParts(pending, brought)

NothingYet == session # "none" \/ waitingForAbortAnswer => stored = {}

IInv ==
  /\ Types /\ Placed /\ OneRun /\ Emission /\ PhaseIsOwn
  /\ RunIsTrue /\ BookingsFirst /\ NothingYet /\ BalancesFollowBookings

-----------------------------------------------------------------------------
(* The queue of a session: entries of the accounts it asked about, each of *)
(* which holds whatever came for its account.                              *)
LEMMA QueueType ==
  ASSUME NEW S \in SUBSET Accounts, NEW queue \in QueueReceived(S)
  PROVE  queue \in Seq(Entries) /\ KnowsItsParts(queue, PartsOf(queue))
<1>1. PICK T \in SUBSET S : queue \in QueuesOver(T)
  BY DEF QueueReceived
<1>2. PICK order \in SetToSeqs(T), parts \in [T -> (SUBSET Parts) \ {{}}], new \in [T -> 0..1] :
        queue = [i \in DOMAIN order |-> Entry(order[i], parts[order[i]], new[order[i]])]
  BY <1>1 DEF QueuesOver
<1>3. Cardinality(T) \in Nat
  <2>1. IsFiniteSet(T)
    BY FetchAssumption, FS_Subset
  <2> QED
    BY <2>1, FS_CardinalityType
<1>4. order \in [1..Cardinality(T) -> T]
  BY DEF SetToSeqs
<1>5. \A i \in 1..Cardinality(T) : queue[i] = Entry(order[i], parts[order[i]], new[order[i]])
  BY <1>2, <1>4
<1>6. DOMAIN queue = 1..Cardinality(T)
  BY <1>2, <1>4
<1>7. \A i \in 1..Cardinality(T) :
        queue[i] \in Entries /\ queue[i].of = order[i] /\ queue[i].parts = parts[order[i]]
  <2> SUFFICES ASSUME NEW i \in 1..Cardinality(T)
               PROVE  queue[i] \in Entries /\ queue[i].of = order[i] /\ queue[i].parts = parts[order[i]]
    OBVIOUS
  <2>1. order[i] \in T /\ order[i] \in Accounts
    BY <1>4
  <2>2. parts[order[i]] \in SUBSET Parts /\ new[order[i]] \in 0..1
    BY <2>1
  <2>3. queue[i] = [of |-> order[i], parts |-> parts[order[i]], fresh |-> new[order[i]]]
    BY <1>5 DEF Entry
  <2> QED
    BY <2>1, <2>2, <2>3 DEF Entries
<1>8. queue \in [1..Cardinality(T) -> Entries]
  BY <1>2, <1>4, <1>6, <1>7
<1>9. queue \in Seq(Entries)
  BY <1>3, <1>8, SeqDef
<1>10. KnowsItsParts(queue, PartsOf(queue))
  <2> SUFFICES ASSUME NEW i \in DOMAIN queue, <<queue[i].of, "Transactions">> \in PartsOf(queue)
               PROVE  "Transactions" \in queue[i].parts
    BY DEF KnowsItsParts
  <2>1. PICK j \in DOMAIN queue :
          <<queue[i].of, "Transactions">> \in {<<queue[j].of, p>> : p \in queue[j].parts}
    BY DEF PartsOf, ToSet
  <2>2. queue[i].of = queue[j].of /\ "Transactions" \in queue[j].parts
    BY <2>1
  <2> QED
    BY <1>6, <1>7, <2>2
<1> QED
  BY <1>9, <1>10

(* The queue of a fetch that goes on has an entry to go on with.           *)
LEMMA HeadOfQueue ==
  ASSUME NEW queue \in Seq(Entries), queue # <<>>
  PROVE  /\ Head(queue) = queue[1] /\ 1 \in DOMAIN queue
         /\ Head(queue).of \in Accounts /\ Head(queue).fresh \in 0..1
         /\ Tail(queue) \in Seq(Entries)
         /\ \A parts : KnowsItsParts(queue, parts) => KnowsItsParts(Tail(queue), parts)
<1>1. Head(queue) = queue[1] /\ 1 \in DOMAIN queue /\ Head(queue) \in Entries
  BY HeadTailProperties
<1>2. /\ Tail(queue) \in Seq(Entries)
      /\ \A i \in DOMAIN Tail(queue) : i + 1 \in DOMAIN queue /\ Tail(queue)[i] = queue[i + 1]
  BY HeadTailProperties
<1>3. ASSUME NEW parts, KnowsItsParts(queue, parts) PROVE KnowsItsParts(Tail(queue), parts)
  BY <1>2, <1>3 DEF KnowsItsParts
<1>4. Head(queue).of \in Accounts /\ Head(queue).fresh \in 0..1
  BY <1>1 DEF Entries
<1> QED
  BY <1>1, <1>2, <1>3, <1>4

-----------------------------------------------------------------------------
(* The ways on.                                                            *)

Closes ==
  /\ running' = FALSE /\ phase' = "None" /\ waitingForAbortAnswer' = FALSE
  /\ pending' = <<>> /\ retry' = "None" /\ write' = write /\ storeFailed' \in BOOLEAN

Postpones(next, queue) ==
  /\ write # NoRun /\ retry' = next /\ phase' = "None" /\ waitingForAbortAnswer' = FALSE
  /\ pending' = queue /\ storeFailed' = FALSE /\ UNCHANGED <<write, running>>

Stores(next, queue) ==
  /\ open /\ write = NoRun
  /\ \E fresh \in 0..1 : write' = RunFor("fetch", <<Head(queue).of, next>>, fresh)
  /\ phase' = next /\ retry' = "None" /\ waitingForAbortAnswer' = FALSE
  /\ pending' = queue /\ storeFailed' = FALSE /\ UNCHANGED running

GoesOn(next, queue) == Closes \/ Postpones(next, queue) \/ Stores(next, queue)

(* What is left of the bookkeeping once the figures are put aside.         *)
LEMMA EndsCloses ==
  ASSUME storeFailed \in BOOLEAN, NEW o, NEW n, NEW s, Ends(o, n, s)
  PROVE  Closes
BY DEF Ends, Closed, Closes

LEMMA StartingGoesOn ==
  ASSUME NEW next, NEW queue \in Seq(Entries), queue # <<>>, NEW n, NEW s, NEW before,
         before = "None" \/ write = NoRun,
         StartStoring(next, queue, n, s, before)
  PROVE  GoesOn(next, queue)
<1>1. CASE ~open
  BY <1>1 DEF StartStoring, Closed, Closes, GoesOn
<1>2. CASE open /\ write = NoRun
  <2>1. Head(queue).fresh \in 0..1
    BY HeadOfQueue
  <2> QED
    BY <1>2, <2>1 DEF StartStoring, Stores, GoesOn, StorageBusy, PhaseAfter
<1>3. CASE open /\ write # NoRun
  BY <1>3 DEF StartStoring, Postpones, GoesOn, StorageBusy, PhaseAfter, RetryOf
<1> QED
  BY <1>1, <1>2, <1>3

FirstOf(queue) == IF "Transactions" \in Head(queue).parts THEN "Transactions" ELSE "Balances"

LEMMA NextAccountGoesOn ==
  ASSUME storeFailed \in BOOLEAN, NEW o, NEW queue \in Seq(Entries), NEW n, NEW s,
         BeginNextAccount(o, queue, n, s)
  PROVE  Closes \/ (queue # <<>> /\ GoesOn(FirstOf(queue), queue))
<1>1. CASE queue = <<>>
  BY <1>1, EndsCloses DEF BeginNextAccount
<1>2. CASE queue # <<>>
  <2>1. StartStoring(FirstOf(queue), queue, n, s, "None")
    BY <1>2 DEF BeginNextAccount, FirstOf
  <2> QED
    BY <1>2, <2>1, StartingGoesOn
<1> QED
  BY <1>1, <1>2

(* A fetch that ends or goes on is in one place, knows its run, and starts *)
(* with the bookings.                                                      *)
LEMMA GoesOnStep ==
  ASSUME Types, running, ~OwnRunIsOut, "fetch" \notin toHear',
         OneRun, Emission',
         NEW queue \in Seq(Entries), NEW next \in Parts,
         Closes \/ (queue # <<>> /\ GoesOn(next, queue)),
         next = "Balances" =>
           \/ "Transactions" \notin Head(queue).parts
           \/ write = NoRun /\ <<Head(queue).of, "Transactions">> \in stored',
         KnowsItsParts(queue, brought'),
         UNCHANGED <<open, generation, wizard>>, asked' \subseteq Accounts,
         telling' \in Tellings \cup {Quiet}, toHear' \subseteq Writers,
         session' = "none", BalancesFollowBookings'
  PROVE  IInv'
<1>1. CASE Closes
  <2>0. <<>> \in Seq(Entries) /\ "None" \in Phases
    BY DEF Phases
  <2>1. Types'
    BY <1>1, <2>0 DEF Types, Closes
  <2>2. Placed' /\ OneRun' /\ PhaseIsOwn' /\ RunIsTrue' /\ NothingYet'
    BY <1>1 DEF Closes, Placed, OneRun, PhaseIsOwn, OwnRunIsOut, OwnEndIsTold, RunIsTrue, NothingYet
  <2>3. BookingsFirst'
    BY <1>1 DEF Closes, BookingsFirst, KnowsItsParts
  <2> QED
    BY <2>1, <2>2, <2>3 DEF IInv
<1>2. CASE queue # <<>> /\ Postpones(next, queue)
  <2>1. Types'
    BY <1>2 DEF Types, Postpones, Phases, Parts
  <2>2. Placed' /\ OneRun' /\ PhaseIsOwn' /\ RunIsTrue' /\ NothingYet'
    BY <1>2 DEF Postpones, Placed, OneRun, PhaseIsOwn, OwnRunIsOut, OwnEndIsTold, RunIsTrue, NothingYet
  <2>3. BookingsFirst'
    BY <1>2 DEF Postpones, BookingsFirst
  <2> QED
    BY <2>1, <2>2, <2>3 DEF IInv
<1>3. CASE queue # <<>> /\ Stores(next, queue)
  <2>1. PICK fresh \in 0..1 : write' = RunFor("fetch", <<Head(queue).of, next>>, fresh)
    BY <1>3 DEF Stores
  <2>2. /\ write' \in WriteRuns /\ write'.by = "fetch" /\ write'.stage = "started"
        /\ write'.part = <<Head(queue).of, next>> /\ write'.since = generation'
        /\ write'.good = FALSE
    <3>1. Head(queue).of \in Accounts
      BY <1>3, HeadOfQueue
    <3> QED
      BY <2>1, <3>1 DEF RunFor, WriteRuns, Writers, Types
  <2>3. write' # NoRun
    BY <2>2 DEF NoRun
  <2>4. Types'
    BY <1>3, <2>2 DEF Types, Stores, Phases, Parts
  <2>5. next # "None" /\ phase' = next /\ pending' = queue
    BY <1>3 DEF Stores, Parts
  <2>6. Placed' /\ OneRun' /\ PhaseIsOwn' /\ RunIsTrue' /\ NothingYet'
    BY <1>3, <2>2, <2>3, <2>5
       DEF Stores, Placed, OneRun, PhaseIsOwn, OwnRunIsOut, OwnEndIsTold, RunIsTrue, NothingYet,
           HeadPart
  <2>7. BookingsFirst'
    BY <1>3, <2>5 DEF Stores, BookingsFirst, HeadPart
  <2> QED
    BY <2>4, <2>6, <2>7 DEF IInv
<1> QED
  BY <1>1, <1>2, <1>3 DEF GoesOn

-----------------------------------------------------------------------------
(* At the start nothing runs.                                              *)
LEMMA InitIInv == Init => IInv
<1> SUFFICES ASSUME Init PROVE IInv
  OBVIOUS
<1>1. <<>> \in Seq(Entries) /\ "None" \in Phases /\ 0 \in 0..MaxGeneration
  BY FetchAssumption DEF Phases
<1>2. Types
  BY <1>1 DEF Init, Types
<1>3. Placed /\ OneRun /\ Emission /\ PhaseIsOwn /\ RunIsTrue
  BY DEF Init, Placed, OneRun, Emission, NoRun, PhaseIsOwn, OwnRunIsOut, OwnEndIsTold, RunIsTrue
<1>4. BookingsFirst /\ NothingYet /\ BalancesFollowBookings
  BY DEF Init, BookingsFirst, KnowsItsParts, NothingYet, BalancesFollowBookings
<1> QED
  BY <1>2, <1>3, <1>4 DEF IInv

-----------------------------------------------------------------------------
(* The vault, the wizard, and the beginning of a fetch.                    *)

LEMMA OpenVaultStep == IInv /\ OpenVault => IInv'
<1> SUFFICES ASSUME IInv, OpenVault PROVE IInv'
  OBVIOUS
<1> USE DEF OpenVault, fetch, progress, truth
<1>1. Types'
  BY DEF IInv, Types
<1>2. ~OwnRunIsOut /\ ~OwnEndIsTold
  BY DEF IInv, Placed, PhaseIsOwn
<1>3. Placed' /\ OneRun' /\ Emission' /\ PhaseIsOwn' /\ NothingYet'
  BY DEF IInv, Placed, OneRun, Emission, PhaseIsOwn, OwnRunIsOut, OwnEndIsTold, NothingYet
<1>4. RunIsTrue' /\ BookingsFirst' /\ BalancesFollowBookings'
  BY <1>2 DEF IInv, RunIsTrue, OwnRunIsOut, OwnEndIsTold, BookingsFirst, HeadPart, BalancesFollowBookings
<1> QED
  BY <1>1, <1>3, <1>4 DEF IInv

LEMMA VaultFallsStep == IInv /\ VaultFalls => IInv'
<1> SUFFICES ASSUME IInv, VaultFalls PROVE IInv'
  OBVIOUS
<1> USE DEF VaultFalls, fetch, progress
<1>0. generation' \in 0..MaxGeneration
  BY FetchAssumption DEF IInv, Types
<1>1. Types'
  BY <1>0 DEF IInv, Types
<1>2. Placed' /\ OneRun' /\ Emission' /\ PhaseIsOwn' /\ NothingYet'
  BY DEF IInv, Placed, OneRun, Emission, PhaseIsOwn, OwnRunIsOut, OwnEndIsTold, NothingYet
<1>3. RunIsTrue' /\ BookingsFirst' /\ BalancesFollowBookings'
  BY DEF IInv, RunIsTrue, OwnRunIsOut, OwnEndIsTold, BookingsFirst, HeadPart, BalancesFollowBookings
<1> QED
  BY <1>1, <1>2, <1>3 DEF IInv

LEMMA WizardStoresStep == IInv /\ WizardStores => IInv'
<1> SUFFICES ASSUME IInv, WizardStores PROVE IInv'
  OBVIOUS
<1> USE DEF WizardStores, fetch, progress, truth
<1>1. write' \in WriteRuns /\ write'.by = "wizard" /\ write'.good = FALSE
  BY FetchAssumption DEF IInv, Types, RunFor, WriteRuns, Writers
<1>2. Types'
  BY <1>1 DEF IInv, Types
<1>3. "fetch" \notin toHear /\ ~OwnRunIsOut' /\ ~OwnRunIsOut
  BY <1>1 DEF InEventLoop, OwnRunIsOut
<1>4. Placed' /\ OneRun' /\ Emission' /\ PhaseIsOwn' /\ NothingYet'
  BY <1>1, <1>3 DEF IInv, Placed, OneRun, Emission, PhaseIsOwn, OwnEndIsTold, NothingYet
<1>5. RunIsTrue' /\ BookingsFirst' /\ BalancesFollowBookings'
  BY <1>3 DEF IInv, RunIsTrue, OwnEndIsTold, BookingsFirst, HeadPart, BalancesFollowBookings
<1> QED
  BY <1>2, <1>4, <1>5 DEF IInv

(* A fetch begins where none runs, with nothing stored and nothing due.    *)
LEMMA BeginsStep ==
  ASSUME IInv, NEW all \in BOOLEAN, NEW unreadable, NEW S \in SUBSET Accounts, NEW sent \in BOOLEAN,
         Begins(all, unreadable, S, sent)
  PROVE  IInv'
<1> USE DEF Begins, storage
<1>1. ~running /\ phase = "None" /\ retry = "None" /\ ~waitingForAbortAnswer
  BY DEF IInv, Placed, SessionIsFree
<1>2. <<>> \in Seq(Entries) /\ session' \in {"out", "doomed"} /\ asked' \subseteq Accounts
  BY DEF IInv
<1>3. Types'
  BY <1>2 DEF IInv, Types
<1>4. ~OwnRunIsOut /\ ~OwnEndIsTold /\ ~OwnRunIsOut' /\ ~OwnEndIsTold'
  BY <1>1 DEF IInv, PhaseIsOwn, OwnRunIsOut, OwnEndIsTold
<1>5. Placed' /\ OneRun' /\ Emission' /\ PhaseIsOwn' /\ RunIsTrue' /\ NothingYet'
  BY <1>1, <1>2, <1>4 DEF IInv, Placed, OneRun, Emission, PhaseIsOwn, RunIsTrue, NothingYet
<1>6. BookingsFirst' /\ BalancesFollowBookings'
  BY <1>1 DEF BookingsFirst, KnowsItsParts, BalancesFollowBookings
<1> QED
  BY <1>3, <1>5, <1>6 DEF IInv

LEMMA StartStep == IInv /\ (StartAll \/ \E a \in Accounts : Start(a)) => IInv'
<1> SUFFICES ASSUME IInv, StartAll \/ \E a \in Accounts : Start(a) PROVE IInv'
  OBVIOUS
<1>1. ASSUME NEW a \in Accounts, Start(a) PROVE IInv'
  <2>1. PICK sent \in BOOLEAN : Begins(FALSE, {}, {a}, sent)
    BY <1>1 DEF Start
  <2> QED
    BY <2>1, BeginsStep
<1>2. CASE StartAll
  <2>1. PICK unreadable \in SUBSET Accounts, up \in BOOLEAN :
          Begins(TRUE, unreadable, Accounts, up /\ unreadable # Accounts)
    BY <1>2 DEF StartAll
  <2>2. (up /\ unreadable # Accounts) \in BOOLEAN
    OBVIOUS
  <2> QED
    BY <2>1, <2>2, BeginsStep
<1> QED
  BY <1>1, <1>2

-----------------------------------------------------------------------------
(* The session comes back, the user answers, the timer fires.              *)

(* Where a fetch stands that is neither in a run nor about to hear of one. *)
LEMMA AtRest ==
  ASSUME IInv, phase = "None"
  PROVE  ~OwnRunIsOut /\ ~OwnEndIsTold /\ Types /\ OneRun /\ BalancesFollowBookings
BY DEF IInv, PhaseIsOwn

LEMMA FailLaterStep == IInv /\ FailLater => IInv'
<1> SUFFICES ASSUME IInv, FailLater PROVE IInv'
  OBVIOUS
<1>1. running /\ phase = "None" /\ stored = {} /\ pending \in Seq(Entries)
  BY DEF FailLater, IInv, Types, Placed, NothingYet
<1>2. ~OwnRunIsOut /\ Types /\ OneRun
  BY <1>1, AtRest
<1>3. Closes
  BY EndsCloses DEF FailLater, IInv, Types
<1>4. "fetch" \notin toHear' /\ KnowsItsParts(<<>>, brought') /\ BalancesFollowBookings' /\ Emission'
  BY <1>1 DEF FailLater, InEventLoop, Emission, KnowsItsParts, BalancesFollowBookings, truth
<1>5. <<>> \in Seq(Entries) /\ "Transactions" \in Parts
  BY DEF Parts
<1>6. /\ UNCHANGED <<open, generation, wizard>> /\ asked' \subseteq Accounts
      /\ telling' \in Tellings \cup {Quiet} /\ toHear' \subseteq Writers /\ session' = "none"
  BY DEF FailLater, IInv, Types
<1> QED
  BY <1>1, <1>2, <1>3, <1>4, <1>5, <1>6, GoesOnStep

(* What all ends of a session share.                                       *)
LEMMA Returning ==
  ASSUME IInv, SessionReturns
  PROVE  /\ running /\ phase = "None" /\ stored' = {} /\ ~OwnRunIsOut /\ Types /\ OneRun
         /\ "fetch" \notin toHear' /\ BalancesFollowBookings' /\ Emission'
         /\ UNCHANGED <<open, generation, wizard>> /\ asked' \subseteq Accounts
         /\ telling' \in Tellings \cup {Quiet} /\ toHear' \subseteq Writers /\ session' = "none"
         /\ asked \subseteq Accounts /\ storeFailed \in BOOLEAN
<1>1. running /\ phase = "None" /\ stored = {}
  BY DEF SessionReturns, IInv, Placed, NothingYet
<1>2. ~OwnRunIsOut /\ Types /\ OneRun
  BY <1>1, AtRest
<1> QED
  BY <1>1, <1>2 DEF SessionReturns, InEventLoop, Emission, BalancesFollowBookings, Types

(* A session that ends without anything to store.                          *)
LEMMA ReturnsEmpty ==
  ASSUME IInv, SessionReturns, NEW o, NEW n, NEW s, Ends(o, n, s)
  PROVE  IInv'
<1>1. Closes
  BY EndsCloses, Returning
<1>2. <<>> \in Seq(Entries) /\ "Transactions" \in Parts /\ KnowsItsParts(<<>>, brought')
  BY DEF Parts, KnowsItsParts
<1> QED
  BY <1>1, <1>2, Returning, GoesOnStep

(* One that brought a queue, which is stored at once.                      *)
LEMMA ReturnsFull ==
  ASSUME IInv, SessionReturns, NEW S \in SUBSET Accounts, NEW queue \in QueueReceived(S),
         brought' = PartsOf(queue), NEW o, NEW n, NEW s, BeginNextAccount(o, queue, n, s)
  PROVE  IInv'
<1>1. queue \in Seq(Entries) /\ KnowsItsParts(queue, brought')
  BY QueueType
<1>2. Closes \/ (queue # <<>> /\ GoesOn(FirstOf(queue), queue))
  BY <1>1, NextAccountGoesOn, Returning
<1>3. /\ FirstOf(queue) \in Parts
      /\ FirstOf(queue) = "Balances" => "Transactions" \notin Head(queue).parts
  BY DEF FirstOf, Parts
<1> HIDE DEF FirstOf
<1> QED
  BY <1>1, <1>2, <1>3, Returning, GoesOnStep

(* One that waits for the answer of the user.                              *)
LEMMA ReturnsAborted == IInv /\ AllAborted => IInv'
<1> SUFFICES ASSUME IInv, AllAborted PROVE IInv'
  OBVIOUS
<1>0. SessionReturns
  BY DEF AllAborted
<1>1. PICK queue \in Seq(Entries) :
        /\ KnowsItsParts(queue, brought')
        /\ \/ \E s : Ends("Aborted", storedCount, s)
           \/ /\ queue # <<>> /\ pending' = queue /\ waitingForAbortAnswer' = TRUE
              /\ UNCHANGED <<write, running, phase, storeFailed, retry>>
  <2>1. PICK of \in [asked -> {"offline", "nothing", "refused", "answered", "cut"}] :
          \E queue \in QueueReceived(asked \ (With(of, "offline") \cup With(of, "nothing"))) :
            LET s == [Skips(of) EXCEPT !.failed = 0]
            IN  /\ brought' = PartsOf(queue)
                /\ IF queue = <<>> THEN Ends("Aborted", storedCount, s)
                   ELSE /\ pending' = queue /\ waitingForAbortAnswer' = TRUE
                        /\ UNCHANGED <<write, running, phase, storeFailed, retry>>
    BY DEF AllAborted
  <2>2. asked \ (With(of, "offline") \cup With(of, "nothing")) \in SUBSET Accounts
    BY DEF IInv, Types
  <2>3. PICK queue \in QueueReceived(asked \ (With(of, "offline") \cup With(of, "nothing"))) :
          LET s == [Skips(of) EXCEPT !.failed = 0]
          IN  /\ brought' = PartsOf(queue)
              /\ IF queue = <<>> THEN Ends("Aborted", storedCount, s)
                 ELSE /\ pending' = queue /\ waitingForAbortAnswer' = TRUE
                      /\ UNCHANGED <<write, running, phase, storeFailed, retry>>
    BY <2>1
  <2>4. queue \in Seq(Entries) /\ KnowsItsParts(queue, brought')
    BY <2>2, <2>3, QueueType
  <2> QED
    BY <2>3, <2>4
<1>2. CASE \E s : Ends("Aborted", storedCount, s)
  BY <1>0, <1>2, ReturnsEmpty
<1>3. CASE /\ queue # <<>> /\ pending' = queue /\ waitingForAbortAnswer' = TRUE
           /\ UNCHANGED <<write, running, phase, storeFailed, retry>>
  <2>1. queue \in Seq(Entries) /\ KnowsItsParts(queue, brought')
    BY <1>1
  <2>2. retry = "None"
    BY <1>0 DEF IInv, Placed, SessionReturns
  <2>3. Types'
    BY <1>3, <2>1, <1>0, Returning DEF Types
  <2>4. Placed' /\ OneRun' /\ PhaseIsOwn' /\ RunIsTrue' /\ NothingYet'
    BY <1>0, <1>3, <2>2, Returning
       DEF Placed, OneRun, PhaseIsOwn, OwnRunIsOut, OwnEndIsTold, RunIsTrue, NothingYet
  <2>5. BookingsFirst'
    BY <1>0, <1>3, <2>1, <2>2, Returning DEF BookingsFirst
  <2> QED
    BY <1>0, <2>3, <2>4, <2>5, Returning DEF IInv
<1> QED
  BY <1>1, <1>2, <1>3

LEMMA SessionStep ==
  IInv /\ (SingleEndsEmpty \/ SingleDelivers \/ AllFail \/ AllDeliver) => IInv'
<1> SUFFICES ASSUME IInv, SingleEndsEmpty \/ SingleDelivers \/ AllFail \/ AllDeliver PROVE IInv'
  OBVIOUS
<1>1. asked \in SUBSET Accounts
  BY DEF IInv, Types
<1>2. CASE SingleEndsEmpty
  BY <1>2, ReturnsEmpty DEF SingleEndsEmpty
<1>3. CASE SingleDelivers
  <2>1. PICK o \in {"Received", "BalanceOnly"}, queue \in QueueReceived(asked) :
          /\ brought' = PartsOf(queue)
          /\ Ends("Aborted", storedCount, summary) \/ BeginNextAccount(o, queue, storedCount, summary)
    BY <1>3 DEF SingleDelivers
  <2> QED
    BY <1>1, <1>3, <2>1, ReturnsEmpty, ReturnsFull DEF SingleDelivers
<1>4. CASE AllFail
  BY <1>4, ReturnsEmpty DEF AllFail
<1>5. CASE AllDeliver
  <2>1. PICK of \in [asked -> {"offline", "nothing", "refused", "answered"}] :
          \E queue \in QueueReceived(asked \ (With(of, "offline") \cup With(of, "nothing"))) :
            /\ brought' = PartsOf(queue)
            /\ \E s : BeginNextAccount("Received", queue, storedCount, s)
    BY <1>5 DEF AllDeliver
  <2>2. asked \ (With(of, "offline") \cup With(of, "nothing")) \in SUBSET Accounts
    BY <1>1
  <2> QED
    BY <1>5, <2>1, <2>2, ReturnsFull DEF AllDeliver
<1> QED
  BY <1>2, <1>3, <1>4, <1>5

LEMMA AnswerStep == \A keep \in BOOLEAN : IInv /\ AnswerAbort(keep) => IInv'
<1> SUFFICES ASSUME NEW keep \in BOOLEAN, IInv, AnswerAbort(keep) PROVE IInv'
  OBVIOUS
<1> USE DEF AnswerAbort
<1>1. /\ running /\ phase = "None" /\ session = "none" /\ stored = {} /\ retry = "None"
      /\ pending \in Seq(Entries) /\ KnowsItsParts(pending, brought) /\ storeFailed \in BOOLEAN
  BY DEF IInv, Types, Placed, NothingYet, BookingsFirst
<1>2. ~OwnRunIsOut /\ Types /\ OneRun
  BY <1>1, AtRest
<1>3. /\ "fetch" \notin toHear' /\ BalancesFollowBookings' /\ Emission' /\ brought' = brought
      /\ UNCHANGED <<open, generation, wizard>> /\ asked' \subseteq Accounts
      /\ telling' \in Tellings \cup {Quiet} /\ toHear' \subseteq Writers /\ session' = "none"
  BY <1>1, <1>2 DEF InEventLoop, Emission, BalancesFollowBookings, truth, Types
<1>4. CASE keep
  <2>1. \E s : BeginNextAccount("Aborted", pending, storedCount, s)
    BY <1>4
  <2>2. Closes \/ (pending # <<>> /\ GoesOn(FirstOf(pending), pending))
    BY <1>1, <2>1, NextAccountGoesOn
  <2>3. /\ FirstOf(pending) \in Parts
        /\ FirstOf(pending) = "Balances" => "Transactions" \notin Head(pending).parts
    BY DEF FirstOf, Parts
  <2> HIDE DEF FirstOf, AnswerAbort
  <2> QED
    BY <1>1, <1>2, <1>3, <2>2, <2>3, GoesOnStep
<1>5. CASE ~keep
  <2>1. \E s : Ends("Aborted", storedCount, s)
    BY <1>5
  <2>2. Closes
    BY <1>1, <2>1, EndsCloses
  <2>3. <<>> \in Seq(Entries) /\ "Transactions" \in Parts /\ KnowsItsParts(<<>>, brought')
    BY DEF Parts, KnowsItsParts
  <2> HIDE DEF AnswerAbort
  <2> QED
    BY <1>1, <1>2, <1>3, <2>2, <2>3, GoesOnStep
<1> QED
  BY <1>4, <1>5

LEMMA RetryStep == IInv /\ RetryFires => IInv'
<1> SUFFICES ASSUME IInv, RetryFires PROVE IInv'
  OBVIOUS
<1> USE DEF RetryFires
<1>1. /\ running /\ phase = "None" /\ session = "none" /\ pending # <<>>
      /\ pending \in Seq(Entries) /\ KnowsItsParts(pending, brought)
      /\ retry = "Balances" => "Transactions" \notin Head(pending).parts
  BY DEF IInv, Types, Placed, BookingsFirst
<1>2. ~OwnRunIsOut /\ Types /\ OneRun /\ BalancesFollowBookings
  BY <1>1, AtRest
<1>3. /\ "fetch" \notin toHear' /\ BalancesFollowBookings' /\ Emission' /\ brought' = brought
      /\ UNCHANGED <<open, generation, wizard>> /\ asked' \subseteq Accounts
      /\ telling' \in Tellings \cup {Quiet} /\ toHear' \subseteq Writers /\ session' = "none"
  BY <1>1, <1>2 DEF InEventLoop, Emission, BalancesFollowBookings, truth, Types
<1>4. retry \in Parts
  BY <1>2 DEF Types, Phases, Parts
<1>5. GoesOn(retry, pending)
  BY <1>1, StartingGoesOn
<1> HIDE DEF RetryFires
<1> QED
  BY <1>1, <1>2, <1>3, <1>4, <1>5, GoesOnStep

-----------------------------------------------------------------------------
(* The run in its thread.                                                  *)

LEMMA CloneStep == IInv /\ Clone => IInv'
<1> SUFFICES ASSUME IInv, Clone PROVE IInv'
  OBVIOUS
<1> USE DEF Clone, fetch, progress, truth
<1>1. write \in WriteRuns /\ write # NoRun /\ write.good = FALSE
  BY DEF IInv, Types, OneRun, NoRun
<1>2. PICK stage \in {"working", "ended"} : write' = [write EXCEPT !.stage = stage]
  OBVIOUS
<1>3. /\ write' \in WriteRuns /\ write'.by = write.by /\ write'.since = write.since
      /\ write'.part = write.part /\ write'.good = FALSE /\ write'.stage \in {"working", "ended"}
  BY <1>1, <1>2 DEF WriteRuns
<1>4. write' # NoRun /\ "fetch" \notin toHear
  BY <1>1, <1>3 DEF NoRun, IInv, OneRun
<1>5. Types'
  BY <1>3 DEF IInv, Types
<1>6. OwnRunIsOut' <=> OwnRunIsOut
  BY <1>1, <1>3, <1>4 DEF OwnRunIsOut
<1>7. Placed' /\ OneRun' /\ Emission' /\ PhaseIsOwn' /\ NothingYet'
  BY <1>3, <1>4, <1>6 DEF IInv, Placed, OneRun, Emission, PhaseIsOwn, OwnEndIsTold, NothingYet
<1>8. RunIsTrue' /\ BookingsFirst' /\ BalancesFollowBookings'
  BY <1>3, <1>4, <1>6
     DEF IInv, RunIsTrue, OwnEndIsTold, BookingsFirst, HeadPart, BalancesFollowBookings
<1> QED
  BY <1>5, <1>7, <1>8 DEF IInv

(* The run of a balance finds the bookings of its account in the file.     *)
LEMMA WriteStep == IInv /\ Write => IInv'
<1> SUFFICES ASSUME IInv, Write PROVE IInv'
  OBVIOUS
<1> USE DEF Write, fetch, progress
<1>1. write \in WriteRuns /\ write # NoRun
  BY DEF IInv, Types, NoRun
<1>2. PICK good \in BOOLEAN :
        /\ write' = [write EXCEPT !.stage = "ended", !.good = good]
        /\ stored' = IF good /\ write.by = "fetch" THEN stored \cup {write.part} ELSE stored
  OBVIOUS
<1>3. /\ write' \in WriteRuns /\ write'.by = write.by /\ write'.since = write.since
      /\ write'.part = write.part /\ write'.good = good /\ write'.stage = "ended"
  BY <1>1, <1>2 DEF WriteRuns
<1>4. write' # NoRun /\ "fetch" \notin toHear /\ stored \subseteq stored'
  BY <1>1, <1>2, <1>3 DEF NoRun, IInv, OneRun
<1>5. Types'
  BY <1>3 DEF IInv, Types
<1>6. OwnRunIsOut' <=> OwnRunIsOut
  BY <1>1, <1>3, <1>4 DEF OwnRunIsOut
<1>7. Placed' /\ OneRun' /\ Emission' /\ PhaseIsOwn'
  BY <1>3, <1>4, <1>6 DEF IInv, Placed, OneRun, Emission, PhaseIsOwn, OwnEndIsTold
<1>8. NothingYet'
  <2>1. CASE write.by = "fetch"
    <3>1. phase # "None"
      BY <1>1, <2>1 DEF IInv, PhaseIsOwn, OwnRunIsOut
    <3> QED
      BY <3>1 DEF IInv, Placed, NothingYet
  <2>2. CASE write.by # "fetch"
    BY <1>2, <2>2 DEF IInv, NothingYet
  <2> QED
    BY <2>1, <2>2
<1>9. RunIsTrue' /\ BookingsFirst'
  <2>1. OwnRunIsOut => write.part = HeadPart(phase) /\ (write.since # generation => ~open)
    BY DEF IInv, RunIsTrue
  <2>2. OwnRunIsOut => write.by = "fetch"
    BY DEF OwnRunIsOut
  <2>3. RunIsTrue'
    BY <1>2, <1>3, <1>4, <1>6, <2>1, <2>2 DEF RunIsTrue, OwnEndIsTold, HeadPart
  <2>4. BookingsFirst'
    BY <1>4 DEF IInv, BookingsFirst, HeadPart
  <2> QED
    BY <2>3, <2>4
<1>10. BalancesFollowBookings'
  <2> SUFFICES ASSUME NEW a \in Accounts, <<a, "Balances">> \in stored',
                      <<a, "Transactions">> \in brought
               PROVE  <<a, "Transactions">> \in stored'
    BY DEF BalancesFollowBookings
  <2>1. CASE <<a, "Balances">> \in stored
    BY <1>4, <2>1 DEF IInv, BalancesFollowBookings
  <2>2. CASE <<a, "Balances">> \notin stored
    <3>1. write.by = "fetch" /\ write.part = <<a, "Balances">>
      BY <1>2, <2>2
    <3>2. OwnRunIsOut /\ phase # "None"
      BY <1>1, <3>1 DEF IInv, PhaseIsOwn, OwnRunIsOut
    <3>3. phase = "Balances" /\ Head(pending).of = a
      BY <3>1, <3>2 DEF IInv, RunIsTrue, HeadPart
    <3>4. pending \in Seq(Entries) /\ pending # <<>> /\ KnowsItsParts(pending, brought)
      BY <3>2 DEF IInv, Types, Placed, BookingsFirst
    <3>5. "Transactions" \in Head(pending).parts
      BY <3>3, <3>4, HeadOfQueue DEF KnowsItsParts
    <3> QED
      BY <1>4, <3>3, <3>5 DEF IInv, BookingsFirst, HeadPart
  <2> QED
    BY <2>1, <2>2
<1> QED
  BY <1>5, <1>7, <1>8, <1>9, <1>10 DEF IInv

-----------------------------------------------------------------------------
(* The end of a run.                                                       *)

LEMMA HandOnStep == IInv /\ HandOn => IInv'
<1> SUFFICES ASSUME IInv, HandOn PROVE IInv'
  OBVIOUS
<1> USE DEF HandOn, truth
<1>1. write \in WriteRuns /\ write # NoRun /\ write.by \in Writers /\ write.stage = "ended"
  BY DEF IInv, Types, NoRun, WriteRuns
<1>2. PICK kind \in {"result", "failed", "silent"} :
        /\ telling' = [kind |-> kind, by |-> write.by]
        /\ kind = "silent" => write.since # generation
        /\ kind = "result" => write.good
        /\ storeFailed' = (storeFailed \/ (phase # "None" /\ kind = "failed"))
  <2> DEFINE k == IF write.since # generation THEN "silent"
                  ELSE IF write.good THEN "result" ELSE "failed"
  <2>1. /\ k \in {"result", "failed", "silent"}
        /\ k = "silent" => write.since # generation
        /\ k = "result" => write.good
    OBVIOUS
  <2>2. /\ telling' = [kind |-> k, by |-> write.by]
        /\ storeFailed' = (storeFailed \/ (phase # "None" /\ k = "failed"))
    OBVIOUS
  <2> HIDE DEF k
  <2> QED
    BY <2>1, <2>2
<1>3. telling' \in Tellings /\ telling'.kind = kind /\ telling'.by = write.by
  BY <1>1, <1>2 DEF Tellings
<1>4. storeFailed' \in BOOLEAN /\ write' = NoRun /\ toHear' = Writers
  BY <1>2 DEF IInv, Types
<1>5. Types'
  BY <1>3, <1>4 DEF IInv, Types
<1>6. "fetch" \in Writers /\ NoRun.stage = "none"
  BY DEF Writers, NoRun
<1>7. OwnEndIsTold' <=> OwnRunIsOut
  BY <1>1, <1>3, <1>4, <1>6 DEF OwnEndIsTold, OwnRunIsOut
<1>8. ~OwnRunIsOut' /\ ~OwnEndIsTold
  BY <1>4 DEF OwnRunIsOut, OwnEndIsTold, InEventLoop
<1>9. Placed' /\ OneRun' /\ Emission' /\ PhaseIsOwn' /\ NothingYet'
  <2>1. telling' # Quiet
    BY <1>3 DEF Quiet
  <2> QED
    BY <1>4, <1>6, <1>7, <1>8, <2>1 DEF IInv, Placed, OneRun, Emission, PhaseIsOwn, NothingYet
<1>10. RunIsTrue'
  <2> SUFFICES ASSUME OwnRunIsOut
               PROVE  /\ kind = "result" => HeadPart(phase) \in stored
                      /\ kind = "failed" => storeFailed'
                      /\ kind = "silent" => ~open
    BY <1>3, <1>7, <1>8 DEF RunIsTrue, HeadPart
  <2>1. phase # "None"
    BY DEF IInv, PhaseIsOwn
  <2> QED
    BY <1>1, <1>2, <2>1 DEF IInv, RunIsTrue
<1>11. BookingsFirst' /\ BalancesFollowBookings'
  BY DEF IInv, BookingsFirst, HeadPart, BalancesFollowBookings
<1> QED
  BY <1>5, <1>9, <1>10, <1>11 DEF IInv

LEMMA WizardHearsStep == IInv /\ WizardHears => IInv'
<1> SUFFICES ASSUME IInv, WizardHears PROVE IInv'
  OBVIOUS
<1> USE DEF WizardHears, Heard, fetch, progress, truth
<1>1. Types'
  BY DEF IInv, Types
<1>2. ("fetch" \in toHear' <=> "fetch" \in toHear) /\ ("fetch" \in toHear => telling' = telling)
  OBVIOUS
<1>3. (OwnRunIsOut' <=> OwnRunIsOut) /\ (OwnEndIsTold' <=> OwnEndIsTold)
  BY <1>2 DEF OwnRunIsOut, OwnEndIsTold
<1>4. Placed' /\ OneRun' /\ Emission' /\ PhaseIsOwn' /\ NothingYet'
  BY <1>2, <1>3 DEF IInv, Placed, OneRun, Emission, PhaseIsOwn, NothingYet
<1>5. RunIsTrue' /\ BookingsFirst' /\ BalancesFollowBookings'
  BY <1>2, <1>3
     DEF IInv, RunIsTrue, OwnEndIsTold, BookingsFirst, HeadPart, BalancesFollowBookings
<1> QED
  BY <1>1, <1>4, <1>5 DEF IInv

(* The fetch takes the end of its own run and goes on: to the balance of   *)
(* the account whose bookings are in the file, or to the next account.     *)
LEMMA FetchHearsStep == IInv /\ FetchHears => IInv'
<1> SUFFICES ASSUME IInv, FetchHears PROVE IInv'
  OBVIOUS
<1> USE DEF FetchHears, Heard
<1>1. /\ "fetch" \in toHear /\ write = NoRun /\ ~OwnRunIsOut /\ Types /\ OneRun
      /\ storeFailed \in BOOLEAN
  BY DEF IInv, OneRun, OwnRunIsOut, Types
<1>2. /\ "fetch" \notin toHear' /\ toHear' \subseteq Writers /\ telling' \in Tellings \cup {Quiet}
      /\ UNCHANGED <<open, generation, wizard>> /\ asked' \subseteq Accounts
      /\ session' = session /\ stored' = stored /\ brought' = brought /\ BalancesFollowBookings'
      /\ Emission'
  BY <1>1 DEF Types, truth, IInv, Emission, BalancesFollowBookings
<1>3. CASE phase = "None"
  <2>1. UNCHANGED <<write, running, progress>>
    BY <1>3
  <2>2. Types'
    BY <1>2, <2>1 DEF IInv, Types, progress
  <2>3. Placed' /\ OneRun' /\ PhaseIsOwn' /\ NothingYet' /\ RunIsTrue' /\ BookingsFirst'
    BY <1>1, <1>2, <1>3, <2>1
       DEF IInv, Placed, OneRun, Emission, PhaseIsOwn, OwnRunIsOut, OwnEndIsTold, NothingYet, RunIsTrue,
           BookingsFirst, HeadPart, progress
  <2> QED
    BY <1>2, <2>2, <2>3 DEF IInv
<1>4. CASE phase # "None"
  <2>1. /\ running /\ session = "none" /\ pending # <<>> /\ pending \in Seq(Entries)
        /\ KnowsItsParts(pending, brought)
    BY <1>4 DEF IInv, Types, Placed, BookingsFirst
  <2>2. /\ Tail(pending) \in Seq(Entries) /\ KnowsItsParts(Tail(pending), brought')
        /\ KnowsItsParts(pending, brought')
    BY <1>2, <2>1, HeadOfQueue
  <2>3. CASE RunFailed
    <3>1. \E n : Ends("StoreFailed", n, summary)
      BY <1>4, <2>3
    <3>2. Closes
      BY <1>1, <3>1, EndsCloses
    <3>3. "Transactions" \in Parts
      BY DEF Parts
    <3> HIDE DEF FetchHears
    <3> QED
      BY <1>1, <1>2, <2>1, <2>2, <3>2, <3>3, GoesOnStep
  <2>4. CASE ~RunFailed /\ phase = "Transactions" /\ "Balances" \in Head(pending).parts
    <3>1. StartStoring("Balances", pending, storedCount, summary, phase)
      BY <1>4, <2>4
    <3>2. GoesOn("Balances", pending)
      BY <1>1, <2>1, <3>1, StartingGoesOn
    <3>3. open => HeadPart("Transactions") \in stored
      <4>1. OwnEndIsTold
        BY <1>1, <1>4 DEF IInv, PhaseIsOwn
      <4>2. telling.kind \in {"result", "failed", "silent"}
        BY <1>1 DEF IInv, Emission, Types, Tellings
      <4>3. ~storeFailed
        BY <2>4 DEF RunFailed
      <4> QED
        BY <2>4, <4>1, <4>2, <4>3 DEF IInv, RunIsTrue
    <3>4. Closes \/ open
      BY <1>1, <3>2 DEF GoesOn, Postpones, Stores
    <3>5. "Balances" \in Parts /\ "Transactions" \in Parts
      BY DEF Parts
    <3>6. CASE Closes
      BY <1>1, <1>2, <2>1, <2>2, <3>5, <3>6, GoesOnStep
    <3>7. CASE open
      <4>1. <<Head(pending).of, "Transactions">> \in stored'
        BY <1>2, <3>3, <3>7 DEF HeadPart
      <4> QED
        BY <1>1, <1>2, <2>1, <2>2, <3>2, <3>5, <4>1, GoesOnStep
    <3> QED
      BY <3>4, <3>6, <3>7
  <2>5. CASE ~RunFailed /\ ~(phase = "Transactions" /\ "Balances" \in Head(pending).parts)
    <3>1. BeginNextAccount(outcome, Tail(pending), storedCount, summary)
      BY <1>4, <2>5
    <3>2. Closes \/ (Tail(pending) # <<>> /\ GoesOn(FirstOf(Tail(pending)), Tail(pending)))
      BY <1>1, <2>2, <3>1, NextAccountGoesOn
    <3>3. /\ FirstOf(Tail(pending)) \in Parts
          /\ FirstOf(Tail(pending)) = "Balances" =>
               "Transactions" \notin Head(Tail(pending)).parts
      BY DEF FirstOf, Parts
    <3> HIDE DEF FetchHears, FirstOf
    <3> QED
      BY <1>1, <1>2, <2>1, <2>2, <3>2, <3>3, GoesOnStep
  <2> QED
    BY <2>3, <2>4, <2>5
<1> QED
  BY <1>3, <1>4

-----------------------------------------------------------------------------
(* Every step keeps the invariant.                                         *)
LEMMA NextIInv == IInv /\ [Next]_vars => IInv'
<1> SUFFICES ASSUME IInv, [Next]_vars PROVE IInv'
  OBVIOUS
<1>1. CASE UNCHANGED vars
  <2> USE <1>1 DEF vars, storage, fetch, progress, truth
  <2>1. Types' /\ Placed' /\ OneRun' /\ Emission' /\ PhaseIsOwn' /\ NothingYet'
    BY DEF IInv, Types, Placed, OneRun, Emission, PhaseIsOwn, OwnRunIsOut, OwnEndIsTold, NothingYet
  <2>2. RunIsTrue' /\ BookingsFirst' /\ BalancesFollowBookings'
    BY DEF IInv, RunIsTrue, OwnRunIsOut, OwnEndIsTold, BookingsFirst, HeadPart, BalancesFollowBookings
  <2> QED
    BY <2>1, <2>2 DEF IInv
<1> QED
  BY <1>1, OpenVaultStep, VaultFallsStep, WizardStoresStep, StartStep, FailLaterStep, SessionStep,
     ReturnsAborted, AnswerStep, RetryStep, CloneStep, WriteStep, HandOnStep, WizardHearsStep,
     FetchHearsStep DEF Next

(* The inductive invariant holds in every reachable state.                 *)
THEOREM AccountFetchHolds == Spec => []IInv
BY InitIInv, NextIInv, PTL DEF Spec

(* The phase of a fetch is set exactly while its own run is out or its end *)
(* still to be heard (startStoring, storeRunEnded).                        *)
THEOREM PhaseBelongs == Spec => []PhaseIsOwn
<1>1. IInv => PhaseIsOwn
  BY DEF IInv
<1> QED
  BY AccountFetchHolds, <1>1, PTL

(* Nothing of a fetch is in the file or on its way there while the session *)
(* is out or the question after a stop is open (answerAbort).              *)
THEOREM NothingIsEarly == Spec => []NothingBeforeTheAnswer
<1>1. IInv => NothingBeforeTheAnswer
  BY DEF IInv, NothingYet, Placed, PhaseIsOwn, NothingBeforeTheAnswer
<1> QED
  BY AccountFetchHolds, <1>1, PTL

(* No balance is written ahead of bookings that came with it, whatever     *)
(* fails and whenever the connection falls (storeRunEnded).                *)
THEOREM BookingsComeFirst == Spec => []BalancesFollowBookings
<1>1. IInv => BalancesFollowBookings
  BY DEF IInv
<1> QED
  BY AccountFetchHolds, <1>1, PTL

-----------------------------------------------------------------------------
(* The calls of the fetch and the wizard, as StorageRuns sees them.        *)

CallsNothing == write' = write /\ phase' = "None"

CallsOnce ==
  /\ open /\ write = NoRun /\ phase' \in Parts
  /\ \E part, fresh : write' = RunFor("fetch", part, fresh)

LEMMA EndsCalls ==
  ASSUME NEW o, NEW n, NEW s, Ends(o, n, s) PROVE CallsNothing
BY DEF Ends, Closed, CallsNothing

LEMMA StartingCalls ==
  ASSUME NEW next \in Parts, NEW queue, NEW n, NEW s, NEW before,
         before = "None" \/ write = NoRun,
         StartStoring(next, queue, n, s, before)
  PROVE  CallsNothing \/ CallsOnce
<1>1. CASE ~open
  BY <1>1 DEF StartStoring, Closed, CallsNothing
<1>2. CASE open /\ write = NoRun
  BY <1>2 DEF StartStoring, StorageBusy, PhaseAfter, CallsOnce
<1>3. CASE open /\ write # NoRun
  BY <1>3 DEF StartStoring, StorageBusy, PhaseAfter, CallsNothing
<1> QED
  BY <1>1, <1>2, <1>3

LEMMA NextAccountCalls ==
  ASSUME NEW o, NEW queue, NEW n, NEW s, BeginNextAccount(o, queue, n, s)
  PROVE  CallsNothing \/ CallsOnce
<1>1. CASE queue = <<>>
  BY <1>1, EndsCalls DEF BeginNextAccount
<1>2. CASE queue # <<>>
  <2>1. StartStoring(FirstOf(queue), queue, n, s, "None")
    BY <1>2 DEF BeginNextAccount, FirstOf
  <2>2. FirstOf(queue) \in Parts
    BY DEF FirstOf, Parts
  <2> QED
    BY <2>1, <2>2, StartingCalls
<1> QED
  BY <1>1, <1>2

(* A run that is started is one MayStart allows.                           *)
LEMMA RunStarts ==
  ASSUME open, write = NoRun, NEW c \in Writers, NEW part, NEW fresh,
         write' = RunFor(c, part, fresh)
  PROVE  Runs!StartRun(c)
<1>1. Runs!WayOf(c) = "write"
  BY DEF Runs!WayOf
<1>2. /\ write' # NoRun /\ write'.stage = "started" /\ write'.by = c
      /\ write'.since = generation /\ write'.good = FALSE
  BY DEF RunFor, NoRun
<1>3. Runs!MayStart("write")
  BY DEF Runs!MayStart
<1> QED
  BY <1>1, <1>2, <1>3 DEF Runs!StartRun

(* Nothing StorageRuns can see has changed.                                *)
LEMMA NothingSeen ==
  ASSUME UNCHANGED <<open, generation, write, telling, toHear, wizard>>,
         phase' = "None" <=> phase = "None"
  PROVE  UNCHANGED Runs!vars
BY DEF Runs!vars

(* Going on from the event loop is a call that is accepted, or none.       *)
LEMMA GoesOnAsks ==
  ASSUME phase = "None", InEventLoop,
         UNCHANGED <<open, generation, telling, toHear, wizard>>, CallsNothing \/ CallsOnce
  PROVE  [Runs!Next]_(Runs!vars)
<1>1. CASE CallsNothing
  BY <1>1, NothingSeen DEF CallsNothing
<1>2. CASE CallsOnce
  <2>1. Runs!StartRun("fetch")
    BY <1>2, RunStarts DEF CallsOnce, Writers
  <2>2. phase' # "None"
    BY <1>2 DEF CallsOnce, Parts
  <2>3. Runs!Ask("fetch")
    BY <2>1, <2>2 DEF Runs!Ask, InEventLoop
  <2> QED
    BY <2>3 DEF Runs!Next, Runs!Callers, Writers
<1> QED
  BY <1>1, <1>2

(* Hearing an end is one step, with or without the next call.              *)
LEMMA FetchHearsRuns == IInv /\ FetchHears => Runs!Next
<1> SUFFICES ASSUME IInv, FetchHears PROVE Runs!Next
  OBVIOUS
<1>1. /\ "fetch" \in toHear /\ write = NoRun /\ UNCHANGED <<open, generation, wizard>>
      /\ Heard("fetch")
  BY DEF FetchHears, Heard, IInv, OneRun
<1>2. Runs!Heard("fetch")
  <2>1. telling' = Quiet <=> toHear = {"fetch"}
    BY <1>1 DEF Heard, IInv, Emission
  <2> QED
    BY <1>1, <2>1 DEF Heard, Runs!Heard, Runs!Quiet, Quiet
<1>3. (write' = write /\ phase' = "None") \/ CallsOnce
  <2>1. CASE phase = "None"
    BY <2>1 DEF FetchHears, progress
  <2>2. CASE phase # "None"
    <3>1. "Balances" \in Parts
      BY DEF Parts
    <3> QED
      BY <1>1, <2>2, <3>1, EndsCalls, StartingCalls, NextAccountCalls DEF FetchHears, CallsNothing
  <2> QED
    BY <2>1, <2>2
<1>4. CASE write' = write /\ phase' = "None"
  <2>1. Runs!Hear("fetch")
    BY <1>1, <1>2, <1>4 DEF Runs!Hear
  <2> QED
    BY <2>1 DEF Runs!Next, Runs!Callers, Writers
<1>5. CASE CallsOnce
  <2>1. Runs!StartRun("fetch")
    BY <1>5, RunStarts DEF CallsOnce, Writers
  <2>2. phase' # "None"
    BY <1>5 DEF CallsOnce, Parts
  <2>3. Runs!HearAndAsk("fetch")
    BY <1>1, <1>2, <2>1, <2>2 DEF Runs!HearAndAsk
  <2> QED
    BY <2>3 DEF Runs!Next, Runs!Callers, Writers
<1> QED
  BY <1>3, <1>4, <1>5

(* What the fetch does from the event loop is no step, or a call.          *)
LEMMA FromTheLoop ==
  ASSUME IInv,
         \/ FailLater \/ SingleEndsEmpty \/ SingleDelivers
         \/ AllFail \/ AllDeliver \/ AllAborted
         \/ \E keep \in BOOLEAN : AnswerAbort(keep)
         \/ RetryFires
  PROVE  [Runs!Next]_(Runs!vars)
<1>1. /\ InEventLoop /\ UNCHANGED <<open, generation, telling, toHear, wizard>>
      /\ session # "none" \/ waitingForAbortAnswer \/ retry # "None"
  BY DEF FailLater, SingleEndsEmpty, SingleDelivers, AllFail, AllDeliver, AllAborted,
         AnswerAbort, RetryFires, SessionReturns
<1>2. phase = "None"
  BY <1>1 DEF IInv, Placed
<1>3. retry # "None" => retry \in Parts
  BY DEF IInv, Types, Phases, Parts
<1>4. CallsNothing \/ CallsOnce
  <2>1. CASE FailLater \/ SingleEndsEmpty \/ AllFail
    BY <2>1, EndsCalls DEF FailLater, SingleEndsEmpty, AllFail
  <2>2. CASE SingleDelivers \/ AllDeliver \/ \E keep \in BOOLEAN : AnswerAbort(keep)
    BY <2>2, EndsCalls, NextAccountCalls DEF SingleDelivers, AllDeliver, AnswerAbort
  <2>3. CASE AllAborted
    BY <1>2, <2>3, EndsCalls DEF AllAborted, CallsNothing
  <2>4. CASE RetryFires
    BY <1>2, <1>3, <2>4, StartingCalls DEF RetryFires
  <2> QED
    BY <2>1, <2>2, <2>3, <2>4
<1> QED
  BY <1>1, <1>2, <1>4, GoesOnAsks

(* The run in its thread and its end are those of StorageRuns.             *)
LEMMA RunGoesOn == IInv /\ (Clone \/ Write \/ HandOn) => Runs!Next
<1> SUFFICES ASSUME IInv, Clone \/ Write \/ HandOn PROVE Runs!Next
  OBVIOUS
<1>0. write # NoRun /\ write \in WriteRuns /\ UNCHANGED <<open, generation, phase, wizard>>
  <2>1. write.stage # "none" /\ UNCHANGED <<open, generation, phase, wizard>>
    BY DEF Clone, Write, HandOn, fetch, progress
  <2>2. write # NoRun
    BY <2>1 DEF NoRun
  <2> QED
    BY <2>1, <2>2 DEF IInv, Types
<1>1. /\ write.stage \in {"started", "working", "ended"}
      /\ write.by \in Writers /\ write.good \in BOOLEAN
  BY <1>0 DEF WriteRuns
<1>2. write.stage \in {"started", "working"} => write.good = FALSE
  BY DEF IInv, OneRun
<1>3. ASSUME NEW stage \in {"working", "ended"}, NEW good \in BOOLEAN,
             write' = [write EXCEPT !.stage = stage, !.good = good]
      PROVE  /\ write' # NoRun /\ write'.stage = stage /\ write'.good = good
             /\ write'.by = write.by /\ write'.since = write.since
  <2>1. /\ write'.stage = stage /\ write'.good = good
        /\ write'.by = write.by /\ write'.since = write.since
    BY <1>0, <1>3 DEF WriteRuns
  <2> QED
    BY <2>1 DEF NoRun
<1>4. ASSUME NEW stage \in {"working", "ended"}, write' = [write EXCEPT !.stage = stage],
             write.good = FALSE
      PROVE  write' = [write EXCEPT !.stage = stage, !.good = FALSE]
  BY <1>0, <1>4 DEF WriteRuns
<1>5. CASE Clone
  <2>1. /\ write.stage = "started" /\ UNCHANGED <<telling, toHear>>
        /\ \/ write.since = generation /\ write' = [write EXCEPT !.stage = "working"]
           \/ write' = [write EXCEPT !.stage = "ended"]
    BY <1>5 DEF Clone
  <2>2. CASE write.since = generation /\ write' = [write EXCEPT !.stage = "working"]
    <3>1. /\ write' # NoRun /\ write'.stage = "working" /\ write'.good = FALSE
          /\ write'.by = write.by /\ write'.since = write.since
      BY <1>2, <1>3, <1>4, <2>1, <2>2
    <3>2. Runs!CloneConnection("write")
      BY <1>0, <2>1, <2>2, <3>1 DEF Runs!CloneConnection, Runs!SourceStands, Runs!Staged
    <3> QED
      BY <3>2 DEF Runs!Next, Runs!Ways
  <2>3. CASE write' = [write EXCEPT !.stage = "ended"]
    <3>1. /\ write' # NoRun /\ write'.stage = "ended" /\ write'.good = FALSE
          /\ write'.by = write.by /\ write'.since = write.since
      BY <1>2, <1>3, <1>4, <2>1, <2>3
    <3>2. Runs!CloneFails("write")
      BY <1>0, <2>1, <3>1 DEF Runs!CloneFails, Runs!Staged
    <3> QED
      BY <3>2 DEF Runs!Next, Runs!Ways
  <2> QED
    BY <2>1, <2>2, <2>3
<1>6. CASE Write
  <2>1. write.stage = "working" /\ UNCHANGED <<telling, toHear>>
    BY <1>6 DEF Write
  <2>2. PICK good \in BOOLEAN : write' = [write EXCEPT !.stage = "ended", !.good = good]
    BY <1>6 DEF Write
  <2>3. /\ write' # NoRun /\ write'.stage = "ended" /\ write'.good = good
        /\ write'.by = write.by /\ write'.since = write.since
    BY <1>3, <2>2
  <2>4. Runs!Work("write")
    BY <1>0, <2>1, <2>3 DEF Runs!Work, Runs!Staged
  <2> QED
    BY <2>4 DEF Runs!Next, Runs!Ways
<1>7. CASE HandOn
  <2>1. /\ toHear = {} /\ write.stage = "ended" /\ write' = NoRun /\ toHear' = Writers
        /\ telling' = [kind |-> IF write.since # generation THEN "silent"
                                ELSE IF write.good THEN "result" ELSE "failed",
                       by |-> write.by]
    BY <1>7 DEF HandOn, InEventLoop
  <2>2. telling' # Quiet /\ telling'.by = write.by
        /\ telling'.kind = IF write.since # generation THEN "silent"
                           ELSE IF write.good THEN "result" ELSE "failed"
    BY <2>1 DEF Quiet
  <2>3. Runs!HandOn("write")
    BY <1>0, <2>1, <2>2 DEF Runs!HandOn, Runs!InEventLoop, Runs!CallersOf, Runs!NoRun, NoRun
  <2> QED
    BY <2>3 DEF Runs!Next, Runs!Ways
<1> QED
  BY <1>5, <1>6, <1>7

(* Every step of the fetch and the wizard is one of StorageRuns, or none.  *)
LEMMA CallsStep == IInv /\ [Next]_vars => [Runs!Next]_(Runs!vars)
<1> SUFFICES ASSUME IInv, [Next]_vars PROVE [Runs!Next]_(Runs!vars)
  OBVIOUS
<1>1. CASE OpenVault
  <2>1. generation \in 0..MaxGeneration /\ MaxGeneration \in Nat
    BY FetchAssumption DEF IInv, Types
  <2>2. Runs!Open("vault")
    BY <1>1, <2>1 DEF OpenVault, fetch, progress, Runs!Open, Runs!InEventLoop, InEventLoop, Runs!Dropped
  <2> QED
    BY <2>2 DEF Runs!Next
<1>2. CASE VaultFalls
  <2>1. generation \in 0..MaxGeneration /\ MaxGeneration \in Nat
    BY FetchAssumption DEF IInv, Types
  <2>2. Runs!Close
    BY <1>2, <2>1 DEF VaultFalls, fetch, progress, Runs!Close, Runs!InEventLoop, InEventLoop, Runs!Dropped
  <2> QED
    BY <2>2 DEF Runs!Next
<1>3. CASE WizardStores
  <2>1. "wizard" \in Writers
    BY DEF Writers
  <2>2. Runs!StartRun("wizard")
    BY <1>3, <2>1, RunStarts DEF WizardStores
  <2>3. Runs!Ask("wizard")
    BY <1>3, <2>2 DEF WizardStores, fetch, progress, Runs!Ask, InEventLoop
  <2> QED
    BY <2>1, <2>3 DEF Runs!Next, Runs!Callers
<1>4. CASE StartAll \/ \E a \in Accounts : Start(a)
  BY <1>4, NothingSeen DEF StartAll, Start, Begins, storage
<1>5. CASE WizardHears
  <2>1. "wizard" \in Writers /\ "wizard" \in toHear /\ UNCHANGED <<open, generation, write, phase>>
    BY <1>5 DEF WizardHears, Heard, Writers, fetch, progress
  <2>2. telling' = Quiet <=> toHear = {"wizard"}
    BY <1>5 DEF WizardHears, Heard, IInv, Emission
  <2>3. Runs!Hear("wizard")
    BY <1>5, <2>1, <2>2 DEF WizardHears, Heard, Runs!Heard, Runs!Quiet, Quiet, Runs!Hear
  <2> QED
    BY <2>1, <2>3 DEF Runs!Next, Runs!Callers
<1>6. CASE UNCHANGED vars
  BY <1>6, NothingSeen DEF vars, storage, fetch, progress
<1> QED
  BY <1>1, <1>2, <1>3, <1>4, <1>5, <1>6, FromTheLoop, RunGoesOn, FetchHearsRuns DEF Next

(* The fetch and the wizard call Storage as StorageRuns assumes of its     *)
(* callers: one run each, and the next only where the last was heard       *)
(* (storeItems, writeFinished).                                            *)
THEOREM CallsAreAssumed == Spec => CallsAsAssumed
<1>1. Init => Runs!Init
  BY DEF Init, Runs!Init, Runs!Ways, Runs!NoRun, Runs!Quiet, NoRun, Quiet
<1> QED
  BY AccountFetchHolds, <1>1, CallsStep, PTL DEF Spec, CallsAsAssumed, Runs!Spec

-----------------------------------------------------------------------------
(* A fetch that runs is somewhere, from where there is a way on.           *)

Engaged == running => session # "none" \/ phase # "None" \/ retry # "None" \/ waitingForAbortAnswer

LEMMA GoesOnEngaged ==
  ASSUME NEW next \in Parts, NEW queue, Closes \/ GoesOn(next, queue)
  PROVE  Engaged'
BY DEF Engaged, GoesOn, Closes, Postpones, Stores, Parts

(* Where the next account is gone on with.                                 *)
LEMMA NextAccountEngaged ==
  ASSUME Types, NEW o, NEW queue \in Seq(Entries), NEW n, NEW s, BeginNextAccount(o, queue, n, s)
  PROVE  Engaged'
<1>1. Closes \/ GoesOn(FirstOf(queue), queue)
  BY NextAccountGoesOn DEF Types
<1>2. FirstOf(queue) \in Parts
  BY DEF FirstOf, Parts
<1> QED
  BY <1>1, <1>2, GoesOnEngaged

LEMMA EndsEngaged ==
  ASSUME NEW o, NEW n, NEW s, Ends(o, n, s)
  PROVE  Engaged'
BY DEF Ends, Closed, Engaged

(* What a session brings is a queue, whoever it was asked about.           *)
LEMMA ReceivedType ==
  ASSUME Types, NEW S, NEW queue \in QueueReceived(asked \ S)
  PROVE  queue \in Seq(Entries)
<1>1. (asked \ S) \in SUBSET Accounts
  BY DEF Types
<1> QED
  BY <1>1, QueueType

LEMMA ReturnEngaged ==
  ASSUME Types, SingleEndsEmpty \/ SingleDelivers \/ AllFail \/ AllDeliver \/ AllAborted
  PROVE  Engaged'
<1>1. CASE SingleEndsEmpty \/ AllFail
  BY <1>1, EndsEngaged DEF SingleEndsEmpty, AllFail
<1>2. CASE SingleDelivers
  <2>1. PICK queue \in QueueReceived(asked) : \E o :
          Ends("Aborted", storedCount, summary) \/ BeginNextAccount(o, queue, storedCount, summary)
    BY <1>2 DEF SingleDelivers
  <2>2. queue \in Seq(Entries)
    BY QueueType DEF Types
  <2> QED
    BY <2>1, <2>2, EndsEngaged, NextAccountEngaged
<1>3. CASE AllDeliver
  <2>1. PICK S : \E queue \in QueueReceived(asked \ S) : \E s :
                   BeginNextAccount("Received", queue, storedCount, s)
    BY <1>3 DEF AllDeliver
  <2>2. PICK queue \in QueueReceived(asked \ S) : \E s : BeginNextAccount("Received", queue, storedCount, s)
    BY <2>1
  <2>3. queue \in Seq(Entries)
    BY ReceivedType
  <2> QED
    BY <2>2, <2>3, NextAccountEngaged
<1>4. CASE AllAborted
  <2>1. (\E s : Ends("Aborted", storedCount, s)) \/ waitingForAbortAnswer' = TRUE
    BY <1>4 DEF AllAborted
  <2> QED
    BY <2>1, EndsEngaged DEF Engaged
<1> QED
  BY <1>1, <1>2, <1>3, <1>4

LEMMA FetchHearsEngaged ==
  ASSUME IInv, Engaged, FetchHears
  PROVE  Engaged'
<1>1. "fetch" \in toHear /\ write = NoRun /\ pending \in Seq(Entries) /\ Types /\ session' = session
  BY DEF FetchHears, Heard, IInv, OneRun, Types
<1>2. CASE phase = "None"
  BY <1>1, <1>2 DEF FetchHears, progress, Engaged
<1>3. CASE phase # "None"
  <2>1. pending # <<>> /\ Tail(pending) \in Seq(Entries)
    BY <1>1, <1>3, HeadOfQueue DEF IInv, Placed
  <2>2. \/ \E n : Ends("StoreFailed", n, summary)
        \/ StartStoring("Balances", pending, storedCount, summary, phase)
        \/ BeginNextAccount(outcome, Tail(pending), storedCount, summary)
    BY <1>3 DEF FetchHears
  <2>3. ASSUME StartStoring("Balances", pending, storedCount, summary, phase) PROVE Engaged'
    <3>1. GoesOn("Balances", pending) /\ "Balances" \in Parts
      BY <1>1, <2>1, <2>3, StartingGoesOn DEF Parts
    <3> QED
      BY <3>1, GoesOnEngaged
  <2> QED
    BY <1>1, <2>1, <2>2, <2>3, EndsEngaged, NextAccountEngaged
<1> QED
  BY <1>2, <1>3

LEMMA InitEngaged == Init => Engaged
BY DEF Init, Engaged

LEMMA NextEngaged == IInv /\ Engaged /\ [Next]_vars => Engaged'
<1> SUFFICES ASSUME IInv, Engaged, [Next]_vars PROVE Engaged'
  OBVIOUS
<1>1. ASSUME UNCHANGED fetch PROVE Engaged'
  BY <1>1 DEF fetch, progress, Engaged
<1>2. ASSUME UNCHANGED <<running, session, phase, retry, waitingForAbortAnswer>> PROVE Engaged'
  BY <1>2 DEF Engaged
<1>3. CASE OpenVault \/ VaultFalls \/ WizardStores \/ Clone \/ Write \/ WizardHears
  BY <1>1, <1>3 DEF OpenVault, VaultFalls, WizardStores, Clone, Write, WizardHears
<1>4. CASE HandOn
  BY <1>2, <1>4 DEF HandOn
<1>5. CASE UNCHANGED vars
  BY <1>1, <1>5 DEF vars
<1>6. ASSUME NEW all, NEW unreadable, NEW S, NEW sent, Begins(all, unreadable, S, sent) PROVE Engaged'
  BY <1>6 DEF Begins, Engaged
<1>7. CASE FailLater
  BY <1>7, EndsEngaged DEF FailLater
<1>8. ASSUME NEW keep \in BOOLEAN, AnswerAbort(keep) PROVE Engaged'
  BY <1>8, EndsEngaged, NextAccountEngaged DEF AnswerAbort, IInv, Types
<1>9. CASE RetryFires
  <2>1. pending # <<>> /\ pending \in Seq(Entries) /\ phase = "None" /\ retry \in Parts
    BY <1>9 DEF RetryFires, IInv, Types, Placed, Phases, Parts
  <2>2. GoesOn(retry, pending)
    BY <1>9, <2>1, StartingGoesOn DEF RetryFires
  <2> QED
    BY <2>1, <2>2, GoesOnEngaged
<1> QED
  BY <1>3, <1>4, <1>5, <1>6, <1>7, <1>8, <1>9, ReturnEngaged, FetchHearsEngaged
     DEF Next, Start, StartAll, IInv

(* A fetch that runs never waits for nothing: whatever the storage did to  *)
(* its runs, some signal, thread, timer or answer is still to come         *)
(* (startStoring, storeRunEnded, sessionEnded).                            *)
THEOREM NothingIsForgotten == Spec => []SomethingIsDue
<1>1. IInv /\ Engaged => SomethingIsDue
  <2> SUFFICES ASSUME IInv, Engaged, running, session = "none", ~waitingForAbortAnswer, InEventLoop
               PROVE  \/ write.stage \in {"started", "working", "ended"}
                      \/ retry # "None" /\ (~open \/ ~StorageBusy)
    BY DEF SomethingIsDue
  <2>1. write # NoRun => write.stage \in {"started", "working", "ended"}
    BY DEF IInv, Types, WriteRuns
  <2>2. CASE phase # "None"
    BY <2>1, <2>2 DEF IInv, PhaseIsOwn, OwnRunIsOut, OwnEndIsTold, InEventLoop
  <2>3. CASE retry # "None"
    BY <2>1, <2>3 DEF StorageBusy
  <2> QED
    BY <2>2, <2>3 DEF Engaged
<1>2. IInv /\ Engaged /\ [Next]_vars => (IInv /\ Engaged)'
  BY NextIInv, NextEngaged
<1> QED
  BY <1>1, <1>2, InitIInv, InitEngaged, PTL DEF Spec
=============================================================================
