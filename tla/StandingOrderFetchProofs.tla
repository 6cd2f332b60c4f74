---------------------- MODULE StandingOrderFetchProofs ----------------------
(***************************************************************************)
(* What a fetch of standing orders guarantees for any number of accounts,  *)
(* fetches, runs of the wizard and connections that fall: it knows its own *)
(* run from the wizard's, only an answer of the bank ends a standing       *)
(* order, its calls keep the contract of Storage, and what it reports is   *)
(* what it did as long as the storage stood: the orders it counts were     *)
(* added, and the figures of a run over all accounts are what became of    *)
(* each of them.  A fetch that runs always has something due, and every    *)
(* step brings it closer to its end.                                       *)
(***************************************************************************)
EXTENDS StandingOrderFetch, TLAPS, WellFoundedInduction, SequenceTheorems, FiniteSetTheorems

Calls == [Writers -> Contract!UnderWay \cup Contract!Told \cup {"idle"}]

Types ==
  /\ file \in {"vault", "none"} /\ call \in Calls
  /\ working \in {"none", "busy", "good", "bad"}
  /\ session \in {"none", "out", "doomed"}
  /\ asked \subseteq Accounts /\ fate \in [Accounts -> Fates]
  /\ pending \in Seq(Entries)

(* One call at a time, and a worker for it until its end is told.          *)
Single(calls) == \A c, d \in Writers : calls[c] # "idle" /\ calls[d] # "idle" => c = d
Worked(calls) == working # "none" <=> \E c \in Writers : calls[c] \in Contract!UnderWay

(* A fetch is in one place at a time: in its session, in a run, before a   *)
(* retry or before a question.                                             *)
Placed ==
  /\ session # "none" => running /\ ~storing /\ ~retry /\ ~waitingForAbortAnswer
  /\ storing => running /\ ~retry /\ ~waitingForAbortAnswer
  /\ retry => running /\ ~waitingForAbortAnswer
  /\ waitingForAbortAnswer => running
  /\ storing \/ retry \/ waitingForAbortAnswer => pending # <<>>

(* An entry that is to mark comes from an answer.                          *)
Marks ==
  /\ session # "none" => marked = {}
  /\ \A i \in DOMAIN pending :
       pending[i].succeeded => fate[pending[i].of] = "answered" /\ ~stopped

IInv ==
  /\ Types /\ Single(call) /\ Worked(call) /\ Placed /\ StoringIsOwn
  /\ Marks /\ OnlyAnswersMark

-----------------------------------------------------------------------------
(* The queue.                                                              *)

Ordered(q, S) ==
  /\ \A i, j \in DOMAIN q : i < j => q[i] < q[j]
  /\ \A a \in S : \E i \in DOMAIN q : q[i] = a

(* A set of accounts has an order, by the least number of accounts it      *)
(* could fail for.                                                         *)
LEMMA OrderExists ==
  ASSUME NEW S \in SUBSET Accounts
  PROVE  \E q \in UNION {[1..n -> S] : n \in 0..MaxAccount} : Ordered(q, S)
<1> DEFINE Upto(m) == {a \in S : a <= m}
           Has(m) == \E n \in 0..m : \E q \in [1..n -> Upto(m)] : Ordered(q, Upto(m))
<1>0. MaxAccount \in Nat /\ \A a \in S : a \in Nat /\ a > 0 /\ a <= MaxAccount
  BY FetchAssumption DEF Accounts
<1>1. Has(0)
  <2>1. Upto(0) = {}
    BY <1>0
  <2> DEFINE q == [i \in 1..0 |-> 0]
  <2>2. q \in [1..0 -> Upto(0)] /\ DOMAIN q = {}
    OBVIOUS
  <2>3. Ordered(q, Upto(0))
    BY <2>1, <2>2 DEF Ordered
  <2>4. 0 \in 0..0
    OBVIOUS
  <2> HIDE DEF q
  <2> QED
    BY <2>2, <2>3, <2>4
<1>2. ASSUME NEW m \in Nat, Has(m) PROVE Has(m + 1)
  <2>1. PICK n \in 0..m : \E q \in [1..n -> Upto(m)] : Ordered(q, Upto(m))
    BY <1>2
  <2>2. PICK q \in [1..n -> Upto(m)] : Ordered(q, Upto(m))
    BY <2>1
  <2>3. Upto(m + 1) = Upto(m) \cup (S \cap {m + 1})
    BY <1>0
  <2>4. CASE m + 1 \notin S
    <3>1. Upto(m + 1) = Upto(m) /\ n \in 0..(m + 1)
      BY <2>1, <2>3, <2>4
    <3> HIDE DEF Upto
    <3> QED
      BY <2>2, <3>1
  <2>5. CASE m + 1 \in S
    <3> DEFINE p == [i \in 1..(n + 1) |-> IF i = n + 1 THEN m + 1 ELSE q[i]]
    <3>1. \A i \in 1..n : q[i] \in Upto(m) /\ q[i] < m + 1 /\ q[i] \in Nat
      <4>1. \A i \in 1..n : q[i] \in Upto(m)
        BY <2>2
      <4> QED
        BY <1>0, <4>1
    <3>2. p \in [1..(n + 1) -> Upto(m + 1)]
      BY <2>1, <2>3, <2>5, <3>1
    <3>3. \A i, j \in 1..(n + 1) : i < j => p[i] < p[j]
      <4> SUFFICES ASSUME NEW i \in 1..(n + 1), NEW j \in 1..(n + 1), i < j
                   PROVE  p[i] < p[j]
        OBVIOUS
      <4>1. i \in 1..n /\ p[i] = q[i]
        BY <2>1
      <4>2. CASE j = n + 1
        BY <3>1, <4>1, <4>2
      <4>3. CASE j # n + 1
        <5>1. j \in 1..n /\ p[j] = q[j]
          BY <2>1, <4>3
        <5>2. \A k, l \in 1..n : k < l => q[k] < q[l]
          BY <2>2 DEF Ordered
        <5> QED
          BY <4>1, <5>1, <5>2
      <4> QED
        BY <4>2, <4>3
    <3>4. \A a \in Upto(m + 1) : \E i \in 1..(n + 1) : p[i] = a
      <4> SUFFICES ASSUME NEW a \in Upto(m + 1) PROVE \E i \in 1..(n + 1) : p[i] = a
        OBVIOUS
      <4>1. CASE a = m + 1
        <5>1. n + 1 \in 1..(n + 1) /\ p[n + 1] = m + 1
          BY <2>1
        <5> QED
          BY <4>1, <5>1
      <4>2. CASE a # m + 1
        <5>1. PICK i \in 1..n : q[i] = a
          BY <2>2, <2>3, <4>2 DEF Ordered
        <5>2. i \in 1..(n + 1) /\ p[i] = a
          BY <2>1, <5>1
        <5> QED
          BY <5>2
      <4> QED
        BY <4>1, <4>2
    <3>5. Ordered(p, Upto(m + 1)) /\ n + 1 \in 0..(m + 1)
      BY <2>1, <3>2, <3>3, <3>4 DEF Ordered
    <3> QED
      BY <3>2, <3>5
  <2> QED
    BY <2>4, <2>5
<1> DEFINE bad == {m \in Nat : ~Has(m)}
           R == OpToRel(<, Nat)
<1>3. IsWellFoundedOn(R, Nat)
  BY NatLessThanWellFounded, Zenon
<1>4. \A y, x \in Nat : y < x => <<y, x>> \in R
  BY DEF OpToRel
<1> HIDE DEF R, Has
<1>5. bad = {}
  <2> SUFFICES ASSUME bad # {} PROVE FALSE
    OBVIOUS
  <2>1. PICK m \in bad : \A y \in bad : ~(<<y, m>> \in R)
    BY <1>3, WFMin
  <2>2. m # 0
    BY <1>1, <2>1
  <2>3. m - 1 \in Nat /\ m - 1 < m /\ (m - 1) + 1 = m
    BY <2>2
  <2>4. Has(m - 1)
    BY <1>4, <2>1, <2>3
  <2> QED
    BY <1>2, <2>1, <2>3, <2>4
<1>6. Has(MaxAccount)
  BY <1>0, <1>5
<1>7. Upto(MaxAccount) = S
  BY <1>0
<1> QED
  BY <1>6, <1>7 DEF Has

(* So the order of a set of accounts is a sequence of them.                *)
LEMMA InOrderType ==
  ASSUME NEW S \in SUBSET Accounts
  PROVE  InOrder(S) \in Seq(S)
<1> DEFINE Q == UNION {[1..n -> S] : n \in 0..MaxAccount}
<1>1. \E q \in Q : Ordered(q, S)
  BY OrderExists
<1>2. InOrder(S) = CHOOSE q \in Q : Ordered(q, S)
  BY DEF InOrder, Ordered
<1>3. InOrder(S) \in Q
  BY <1>1, <1>2
<1>4. PICK n \in 0..MaxAccount : InOrder(S) \in [1..n -> S]
  BY <1>3
<1>5. n \in Nat
  BY FetchAssumption
<1> QED
  BY <1>4, <1>5, SeqDef

(* The entries of a queue are of accounts that were heard from, and        *)
(* succeeded as the session did.                                           *)
LEMMA QueueType ==
  ASSUME NEW heard \in SUBSET Accounts, NEW orders \in [Accounts -> Answers],
         NEW succeeded \in BOOLEAN
  PROVE  LET queue == QueueReceived(heard, orders, succeeded)
         IN  /\ queue \in Seq(Entries)
             /\ \A i \in DOMAIN queue :
                  queue[i].of \in heard /\ queue[i].succeeded = succeeded
<1> DEFINE S == {a \in heard : succeeded \/ orders[a] # "none"}
           q == InOrder(S)
           e(i) == [of |-> q[i], succeeded |-> succeeded, orders |-> orders[q[i]]]
<1>1. q \in Seq(S) /\ S \subseteq heard
  BY InOrderType
<1> HIDE DEF S, q
<1>2. DOMAIN q = 1..Len(q) /\ Len(q) \in Nat /\ \A i \in DOMAIN q : q[i] \in heard
  BY <1>1
<1>3. QueueReceived(heard, orders, succeeded) = [i \in DOMAIN q |-> e(i)]
  BY Zenon DEF QueueReceived, S, q
<1>4. \A i \in DOMAIN q : e(i) \in Entries /\ e(i).of \in heard /\ e(i).succeeded = succeeded
  BY <1>2 DEF Entries
<1>5. [i \in DOMAIN q |-> e(i)] \in [1..Len(q) -> Entries]
  BY <1>2, <1>4
<1> HIDE DEF e
<1> QED
  BY <1>2, <1>3, <1>4, <1>5, SeqDef

-----------------------------------------------------------------------------
(* The ways on.                                                            *)

Closes(calls) ==
  /\ running' = FALSE /\ storing' = FALSE /\ retry' = FALSE /\ waitingForAbortAnswer' = FALSE
  /\ pending' = <<>> /\ asked' = {} /\ call' = calls /\ working' = working

Postpones(calls, queue) ==
  /\ ~Accepted(calls)
  /\ storing' = FALSE /\ retry' = TRUE /\ waitingForAbortAnswer' = FALSE
  /\ pending' = queue /\ call' = calls /\ UNCHANGED <<working, running, asked>>

Stores(calls, queue) ==
  /\ Accepted(calls) /\ file # "none"
  /\ storing' = TRUE /\ retry' = FALSE /\ waitingForAbortAnswer' = FALSE
  /\ pending' = queue /\ call' = [calls EXCEPT !["fetch"] = "out"] /\ working' = "busy"
  /\ UNCHANGED <<running, asked>>

GoesOn(calls, queue) == Closes(calls) \/ Postpones(calls, queue) \/ Stores(calls, queue)

(* What is left of the bookkeeping once the figures are put aside.         *)
LEMMA WaysOn ==
  ASSUME NEW calls, NEW queue, NEW o, NEW n, NEW s
  PROVE  /\ Finish(calls, o, n, s) => Closes(calls)
         /\ FinishWithoutRun(o, n, s) => Closes(call)
         /\ StartStoring(calls, queue, n, s) => GoesOn(calls, queue)
         /\ BeginNextAccount(o, queue, n, s) => Closes(call) \/ (queue # <<>> /\ GoesOn(call, queue))
<1>1. Finish(calls, o, n, s) => Closes(calls)
  BY DEF Finish, Closes
<1>2. FinishWithoutRun(o, n, s) => Closes(call)
  BY DEF FinishWithoutRun, Finish, Closes
<1>3. ASSUME NEW c, StartStoring(c, queue, n, s) PROVE GoesOn(c, queue)
  <2>1. CASE file = "none"
    BY <1>3, <2>1 DEF StartStoring, Finish, Closes, GoesOn
  <2>2. CASE file # "none" /\ Accepted(c)
    BY <1>3, <2>2 DEF StartStoring, Stores, GoesOn, StoringAfter, RetryAfter
  <2>3. CASE file # "none" /\ ~Accepted(c)
    <3>1. Accepted(c) = FALSE
      BY <2>3 DEF Accepted
    <3>2. /\ storing' = Accepted(c) /\ retry' = ~Accepted(c) /\ waitingForAbortAnswer' = FALSE
          /\ pending' = queue /\ call' = c /\ UNCHANGED <<working, running, asked>>
      BY <1>3, <2>3 DEF StartStoring, StoringAfter, RetryAfter
    <3> QED
      BY <2>3, <3>1, <3>2, Zenon DEF Postpones, GoesOn
  <2> QED
    BY <2>1, <2>2, <2>3
<1> QED
  BY <1>1, <1>2, <1>3 DEF BeginNextAccount

(* A fetch that ends or goes on is in one place, and knows its run.        *)
LEMMA GoesOnStep ==
  ASSUME NEW calls \in Calls, calls["fetch"] = "idle", Single(calls), Worked(calls),
         \A c \in Writers : calls[c] \notin Contract!Told,
         working \in {"none", "busy", "good", "bad"},
         NEW queue \in Seq(Entries), running,
         Closes(calls) \/ (queue # <<>> /\ GoesOn(calls, queue)),
         file \in {"vault", "none"}, file' = file, session' = "none",
         asked \subseteq Accounts, fate' \in [Accounts -> Fates],
         \A i \in DOMAIN queue :
           queue[i].succeeded => fate'[queue[i].of] = "answered" /\ ~stopped',
         \A a \in marked' : fate'[a] = "answered" /\ ~stopped'
  PROVE  IInv'
<1>1. "fetch" \in Writers /\ "wizard" \in Writers /\ \A c \in Writers : c = "fetch" \/ c = "wizard"
  BY DEF Writers
<1>2. CASE Closes(calls)
  <2>1. Types'
    BY <1>2 DEF Types, Closes, Calls
  <2>2. Single(call)' /\ Worked(call)' /\ Placed' /\ StoringIsOwn' /\ Marks' /\ OnlyAnswersMark'
    BY <1>2 DEF Closes, Single, Worked, Placed, StoringIsOwn, Marks, OnlyAnswersMark
  <2> QED
    BY <2>1, <2>2 DEF IInv
<1>3. CASE queue # <<>> /\ Postpones(calls, queue)
  <2>1. Types'
    BY <1>3 DEF Types, Postpones, Calls
  <2>2. Single(call)' /\ Worked(call)' /\ Placed' /\ StoringIsOwn' /\ Marks' /\ OnlyAnswersMark'
    BY <1>3 DEF Postpones, Single, Worked, Placed, StoringIsOwn, Marks, OnlyAnswersMark
  <2> QED
    BY <2>1, <2>2 DEF IInv
<1>4. CASE queue # <<>> /\ Stores(calls, queue)
  <2>1. \A c \in Writers : calls[c] = "idle"
    BY <1>4 DEF Stores, Accepted, Calls
  <2>2. /\ call' \in Calls /\ call'["fetch"] = "out"
        /\ \A c \in Writers : c # "fetch" => call'[c] = "idle"
    BY <1>1, <1>4, <2>1 DEF Stores, Calls, Contract!UnderWay
  <2>3. Types'
    BY <1>4, <2>2 DEF Types, Stores
  <2>4. Single(call)' /\ Worked(call)' /\ StoringIsOwn'
    BY <1>1, <1>4, <2>2 DEF Stores, Single, Worked, StoringIsOwn, Contract!UnderWay
  <2>5. Placed' /\ Marks' /\ OnlyAnswersMark'
    BY <1>4 DEF Stores, Placed, Marks, OnlyAnswersMark
  <2> QED
    BY <2>3, <2>4, <2>5 DEF IInv
<1> QED
  BY <1>2, <1>3, <1>4 DEF GoesOn

-----------------------------------------------------------------------------
(* The session comes back.                                                 *)

LEMMA WritersAre ==
  /\ "fetch" \in Writers /\ "wizard" \in Writers
  /\ \A c \in Writers : c = "fetch" \/ c = "wizard"
  /\ InEventLoop <=> \A c \in Writers : call[c] \notin Contract!Told
BY DEF Writers, InEventLoop, Contract!NobodyIsTold, Contract!Callers

(* Where a fetch stands when its session comes back.                       *)
LEMMA Returning ==
  ASSUME IInv, NEW fates \in SUBSET Fates, SessionReturns(fates)
  PROVE  /\ running /\ call["fetch"] = "idle" /\ session' = "none" /\ file' = file
         /\ \A c \in Writers : call[c] \notin Contract!Told
         /\ sent' \in [Accounts -> Answers]
         /\ fate' \in [Accounts -> Fates] /\ \A a \in asked : fate'[a] \in fates
         /\ marked = {} /\ marked' = marked /\ asked \subseteq Accounts
<1>1. /\ session = "out" /\ session' = "none" /\ file' = file /\ marked' = marked /\ InEventLoop
      /\ sent' \in [Accounts -> Answers]
      /\ \E f \in [asked -> fates] : fate' = [a \in Accounts |-> IF a \in asked THEN f[a] ELSE "none"]
  BY DEF SessionReturns, effects
<1>2. running /\ ~storing /\ marked = {} /\ call["fetch"] = "idle"
  BY <1>1 DEF IInv, Placed, Marks, StoringIsOwn
<1>3. asked \subseteq Accounts /\ "none" \in Fates
  BY DEF IInv, Types, Fates
<1>4. PICK f \in [asked -> fates] : fate' = [a \in Accounts |-> IF a \in asked THEN f[a] ELSE "none"]
  BY <1>1
<1>5. fate' \in [Accounts -> Fates] /\ \A a \in asked : fate'[a] \in fates
  BY <1>3, <1>4
<1> QED
  BY <1>1, <1>2, <1>3, <1>5, WritersAre

(* What follows a session leaves the fetch in one place.                   *)
LEMMA ReturnStep ==
  ASSUME IInv, NEW fates \in SUBSET Fates, SessionReturns(fates),
         NEW queue \in Seq(Entries),
         Closes(call) \/ (queue # <<>> /\ GoesOn(call, queue)),
         \A i \in DOMAIN queue :
           queue[i].succeeded => fate'[queue[i].of] = "answered" /\ ~stopped'
  PROVE  IInv'
<1>1. Types /\ Single(call) /\ Worked(call)
  BY DEF IInv
<1> QED
  BY <1>1, Returning, GoesOnStep DEF Types

LEMMA NoQueue == <<>> \in Seq(Entries) /\ DOMAIN <<>> = {}
OBVIOUS

(* A session that leaves nothing to store.                                 *)
LEMMA EmptyReturnStep ==
  ASSUME IInv, SinglePassedOver \/ SingleFails \/ AllFail
  PROVE  IInv'
<1>1. PICK fates \in SUBSET Fates : SessionReturns(fates)
  <2>1. {"offline", "notOffered"} \in SUBSET Fates /\ {"refused", "cut"} \in SUBSET Fates
        /\ {"offline", "notOffered", "cut"} \in SUBSET Fates
    BY DEF Fates
  <2> QED
    BY <2>1 DEF SinglePassedOver, SingleFails, AllFail
<1>2. Closes(call)
  BY WaysOn DEF SinglePassedOver, SingleFails, AllFail
<1> QED
  BY <1>1, <1>2, NoQueue, ReturnStep

LEMMA SingleReceivedStep ==
  ASSUME IInv, SingleReceived
  PROVE  IInv'
<1> DEFINE fates == {"cut", "answered"}
           queue == QueueReceived(asked, sent', TRUE)
<1>1. fates \in SUBSET Fates /\ SessionReturns(fates)
  BY DEF Fates, SingleReceived
<1>2. /\ sent' \in [Accounts -> Answers] /\ asked \in SUBSET Accounts
      /\ \A a \in asked : fate'[a] \in fates
  BY <1>1, Returning
<1>3. CASE StopHeard(stopped')
  BY <1>1, <1>3, WaysOn, NoQueue, ReturnStep DEF SingleReceived
<1>4. CASE ~StopHeard(stopped')
  <2>1. ~stopped' /\ Became({"cut"}) = {}
    BY <1>4 DEF StopHeard, SingleReceived
  <2>2. \A a \in asked : fate'[a] = "answered"
    BY <1>2, <2>1 DEF Became
  <2>3. queue \in Seq(Entries) /\ \A i \in DOMAIN queue : queue[i].of \in asked
    BY <1>2, QueueType
  <2>4. Closes(call) \/ (queue # <<>> /\ GoesOn(call, queue))
    BY <1>4, WaysOn DEF SingleReceived
  <2> HIDE DEF queue, fates
  <2> QED
    BY <1>1, <2>1, <2>2, <2>3, <2>4, ReturnStep
<1> QED
  BY <1>3, <1>4

LEMMA AllReceivedStep ==
  ASSUME IInv, AllReceived
  PROVE  IInv'
<1> DEFINE fates == {"offline", "notOffered", "refused", "answered"}
           heard == HeardFrom({})
           queue == QueueReceived(heard, sent', TRUE)
<1>1. fates \in SUBSET Fates /\ SessionReturns(fates)
  BY DEF Fates, AllReceived
<1>2. /\ sent' \in [Accounts -> Answers] /\ asked \in SUBSET Accounts
      /\ \A a \in asked : fate'[a] \in fates
  BY <1>1, Returning
<1>3. heard \in SUBSET Accounts /\ \A a \in heard : fate'[a] = "answered"
  BY <1>2 DEF HeardFrom, Became
<1>4. ~stopped'
  BY DEF AllReceived
<1> HIDE DEF heard, fates
<1>5. queue \in Seq(Entries) /\ \A i \in DOMAIN queue : queue[i].of \in heard
  BY <1>2, <1>3, QueueType
<1>6. Closes(call) \/ (queue # <<>> /\ GoesOn(call, queue))
  BY WaysOn DEF AllReceived, heard
<1> HIDE DEF queue
<1> QED
  BY <1>1, <1>3, <1>4, <1>5, <1>6, ReturnStep

(* Stopped: no entry marks, and what came in waits for an answer.          *)
LEMMA AllAbortedStep ==
  ASSUME IInv, AllAborted
  PROVE  IInv'
<1> DEFINE fates == {"offline", "notOffered", "refused", "cut", "answered"}
<1>1. fates \in SUBSET Fates /\ SessionReturns(fates)
  BY DEF Fates, AllAborted
<1>2. /\ sent' \in [Accounts -> Answers] /\ asked \in SUBSET Accounts
      /\ running /\ call["fetch"] = "idle" /\ session' = "none" /\ file' = file
      /\ fate' \in [Accounts -> Fates] /\ marked' = {}
  BY <1>1, Returning
<1>3. PICK smoothed \in BOOLEAN, flagged \in SUBSET Became({"cut"}) :
        LET heard == HeardFrom(flagged)
            queue == IF smoothed THEN QueueReceived(heard, sent', FALSE) ELSE <<>>
        IN  IF queue = <<>> THEN FinishWithoutRun("Aborted", storedCount, CountsOf({}))
            ELSE /\ pending' = queue /\ waitingForAbortAnswer' = TRUE
                 /\ UNCHANGED <<call, working, running, asked, storing, retry>>
  BY DEF AllAborted, StopHeard, counting
<1> DEFINE heard == HeardFrom(flagged)
           queue == IF smoothed THEN QueueReceived(heard, sent', FALSE) ELSE <<>>
<1>4. queue \in Seq(Entries) /\ \A i \in DOMAIN queue : ~queue[i].succeeded
  <2>1. heard \in SUBSET Accounts
    BY <1>2 DEF HeardFrom
  <2> HIDE DEF heard
  <2>2. /\ QueueReceived(heard, sent', FALSE) \in Seq(Entries)
        /\ \A i \in DOMAIN QueueReceived(heard, sent', FALSE) :
             ~QueueReceived(heard, sent', FALSE)[i].succeeded
    BY <1>2, <2>1, QueueType
  <2> QED
    BY <2>2, NoQueue
<1> HIDE DEF heard, queue, fates
<1>5. CASE FinishWithoutRun("Aborted", storedCount, CountsOf({}))
  BY <1>1, <1>5, WaysOn, NoQueue, ReturnStep
<1>6. CASE /\ queue # <<>> /\ pending' = queue /\ waitingForAbortAnswer' = TRUE
           /\ UNCHANGED <<call, working, running, asked, storing, retry>>
  <2>1. Types'
    BY <1>2, <1>4, <1>6 DEF IInv, Types
  <2>2. Single(call)' /\ Worked(call)' /\ StoringIsOwn'
    BY <1>6 DEF IInv, Single, Worked, StoringIsOwn
  <2>3. session = "out"
    BY <1>1 DEF SessionReturns
  <2>4. Placed'
    BY <1>2, <1>6, <2>3 DEF IInv, Placed
  <2>5. Marks' /\ OnlyAnswersMark'
    BY <1>2, <1>4, <1>6 DEF Marks, OnlyAnswersMark
  <2> QED
    BY <2>1, <2>2, <2>4, <2>5 DEF IInv
<1> QED
  BY <1>3, <1>5, <1>6 DEF heard, queue

-----------------------------------------------------------------------------
(* The other steps.                                                        *)

(* A step that leaves the fetch alone.                                     *)
LEMMA FetchAlone ==
  ASSUME IInv, UNCHANGED <<fetch, fate, stopped, marked>>,
         file' \in {"vault", "none"}, call' \in Calls,
         working' \in {"none", "busy", "good", "bad"},
         Single(call)', Worked(call)',
         call'["fetch"] = "idle" <=> call["fetch"] = "idle"
  PROVE  IInv'
<1>1. UNCHANGED <<running, session, asked, pending, storing, retry, waitingForAbortAnswer>>
  BY DEF fetch, progress, counting
<1>2. Types'
  BY <1>1 DEF IInv, Types
<1>3. Placed' /\ StoringIsOwn' /\ Marks' /\ OnlyAnswersMark'
  BY <1>1 DEF IInv, Placed, StoringIsOwn, Marks, OnlyAnswersMark
<1> QED
  BY <1>2, <1>3 DEF IInv

(* The storage is opened or falls, and the calls that are out outlive it.  *)
LEMMA SwitchStep ==
  ASSUME IInv, OpenVault \/ VaultFalls
  PROVE  IInv'
<1>1. /\ file' \in {"vault", "none"} /\ UNCHANGED <<working, fetch, fate, stopped, marked>>
      /\ call' = [c \in Writers |-> IF call[c] = "out" THEN "stale" ELSE call[c]]
  BY DEF OpenVault, VaultFalls, Contract!Switch, Contract!Callers, truth, effects
<1>2. call \in Calls /\ Single(call) /\ Worked(call) /\ working \in {"none", "busy", "good", "bad"}
  BY DEF IInv, Types
<1>3. \A c \in Writers : /\ call'[c] = "idle" <=> call[c] = "idle"
                         /\ call'[c] \in Contract!UnderWay <=> call[c] \in Contract!UnderWay
  BY <1>1, <1>2 DEF Calls, Contract!UnderWay
<1>4. call' \in Calls
  BY <1>1, <1>2 DEF Calls, Contract!UnderWay
<1>5. Single(call)' /\ Worked(call)'
  BY <1>1, <1>2, <1>3 DEF Single, Worked
<1> QED
  BY <1>1, <1>2, <1>3, <1>4, <1>5, WritersAre, FetchAlone

LEMMA WizardStep ==
  ASSUME IInv, WizardStores
  PROVE  IInv'
<1>1. /\ UNCHANGED <<file, fetch, fate, stopped, marked>> /\ working' = "busy" /\ InEventLoop
      /\ call' = [call EXCEPT !["wizard"] = "out"]
      /\ \A c \in Writers : call[c] \notin Contract!UnderWay
  BY DEF WizardStores, Contract!Accept, Contract!Callers, Contract!SameWay, truth, effects
<1>2. call \in Calls /\ file \in {"vault", "none"}
  BY DEF IInv, Types
<1>3. \A c \in Writers : call[c] = "idle"
  BY <1>1, <1>2, WritersAre DEF Calls
<1>4. call' \in Calls /\ call'["wizard"] = "out" /\ call'["fetch"] = "idle"
  BY <1>1, <1>2, <1>3, WritersAre DEF Calls, Contract!UnderWay
<1>5. Single(call)' /\ Worked(call)'
  BY <1>1, <1>4, WritersAre DEF Single, Worked, Contract!UnderWay
<1> QED
  BY <1>1, <1>2, <1>3, <1>4, <1>5, WritersAre, FetchAlone

LEMMA BeginsStep ==
  ASSUME IInv, NEW all \in BOOLEAN, NEW S \in SUBSET Accounts, NEW up \in BOOLEAN,
         Begins(all, S, up)
  PROVE  IInv'
<1>1. /\ session' \in {"out", "doomed"} /\ asked' \subseteq Accounts /\ pending' = <<>>
      /\ fate' = [a \in Accounts |-> "none"] /\ marked' = {} /\ running' /\ ~running
      /\ UNCHANGED <<file, call, working, storing, retry, waitingForAbortAnswer>>
  BY DEF Begins, storage
<1>2. Types'
  BY <1>1, NoQueue DEF IInv, Types, Fates
<1>3. Single(call)' /\ Worked(call)' /\ Placed' /\ StoringIsOwn' /\ Marks' /\ OnlyAnswersMark'
  BY <1>1 DEF IInv, Single, Worked, Placed, StoringIsOwn, Marks, OnlyAnswersMark
<1> QED
  BY <1>2, <1>3 DEF IInv

(* A fetch that fails, is answered, or tries again.                        *)
LEMMA GoingOnStep ==
  ASSUME IInv, NEW keep \in BOOLEAN, FailLater \/ AnswerAbort(keep) \/ RetryFires
  PROVE  IInv'
<1>1. /\ file' = file /\ session' = "none" /\ UNCHANGED <<fate, stopped, marked>> /\ InEventLoop
  <2>1. RetryFires \/ AnswerAbort(keep) => session = "none"
    BY DEF IInv, Types, Placed, RetryFires, AnswerAbort
  <2> QED
    BY <2>1 DEF FailLater, AnswerAbort, RetryFires, truth, effects
<1>2. running /\ call["fetch"] = "idle"
  BY DEF IInv, Placed, StoringIsOwn, FailLater, AnswerAbort, RetryFires
<1>3. /\ Types /\ Single(call) /\ Worked(call) /\ OnlyAnswersMark
      /\ \A i \in DOMAIN pending :
           pending[i].succeeded => fate[pending[i].of] = "answered" /\ ~stopped
  BY DEF IInv, Marks
<1>4. Closes(call) \/ (pending # <<>> /\ GoesOn(call, pending))
  <2>1. CASE FailLater
    BY <2>1, WaysOn DEF FailLater
  <2>2. CASE AnswerAbort(keep)
    BY <2>2, WaysOn DEF AnswerAbort
  <2>3. CASE RetryFires
    <3>1. pending # <<>> /\ StartStoring(call, pending, storedCount, summary)
      BY <2>3 DEF RetryFires, IInv, Placed
    <3> QED
      BY <3>1, WaysOn
  <2> QED
    BY <2>1, <2>2, <2>3
<1> QED
  BY <1>1, <1>2, <1>3, <1>4, WritersAre, GoesOnStep DEF Types, OnlyAnswersMark

(* The run in its thread: it marks what its entry says.                    *)
LEMMA WorkStep ==
  ASSUME IInv, Work
  PROVE  IInv'
<1>1. /\ working = "busy" /\ working' \in {"good", "bad"}
      /\ UNCHANGED <<file, call, fetch, fate, stopped>>
  BY DEF Work
<1>2. UNCHANGED <<running, session, asked, pending, storing, retry, waitingForAbortAnswer>>
  BY <1>1 DEF fetch, progress, counting
<1>3. /\ Types' /\ Single(call)' /\ Worked(call)' /\ Placed' /\ StoringIsOwn'
  BY <1>1, <1>2 DEF IInv, Types, Single, Worked, Placed, StoringIsOwn
<1>4. CASE UNCHANGED effects
  BY <1>1, <1>2, <1>3, <1>4 DEF IInv, Marks, OnlyAnswersMark, effects
<1>5. CASE /\ call["fetch"] \in Contract!UnderWay
           /\ marked' = IF Head(pending).succeeded THEN marked \cup {Head(pending).of} ELSE marked
  <2>1. pending # <<>> /\ session = "none"
    BY <1>5 DEF IInv, Placed, StoringIsOwn, Types, Contract!UnderWay
  <2>2. 1 \in DOMAIN pending /\ Head(pending) = pending[1]
    BY <2>1 DEF IInv, Types
  <2>3. Head(pending).succeeded => fate[Head(pending).of] = "answered" /\ ~stopped
    BY <2>2 DEF IInv, Marks
  <2>4. Marks' /\ OnlyAnswersMark'
    BY <1>1, <1>2, <1>5, <2>1, <2>3 DEF IInv, Marks, OnlyAnswersMark
  <2> QED
    BY <1>3, <2>4 DEF IInv
<1> QED
  BY <1>4, <1>5 DEF Work

(* The end is told.                                                        *)
LEMMA HandOnStep ==
  ASSUME IInv, NEW c \in Writers, HandOn(c)
  PROVE  IInv'
<1>1. /\ UNCHANGED <<file, running, session, asked, storing, pending, retry,
                     waitingForAbortAnswer, fate, stopped, marked>>
      /\ working' = "none" /\ call[c] \in Contract!UnderWay
      /\ \E kind \in Contract!Told : call' = [call EXCEPT ![c] = kind]
  BY DEF HandOn, truth, effects, Contract!Told
<1>2. call \in Calls /\ Single(call) /\ call[c] # "idle"
  BY <1>1 DEF IInv, Types, Contract!UnderWay
<1>3. /\ call' \in Calls /\ call'[c] \in Contract!Told
      /\ \A d \in Writers : d # c => call'[d] = "idle" /\ call[d] = "idle"
  BY <1>1, <1>2 DEF Calls, Single
<1>4. call'[c] # "idle" /\ call'[c] \notin Contract!UnderWay
  BY <1>3 DEF Contract!Told, Contract!UnderWay
<1>5. Types'
  BY <1>1, <1>3 DEF IInv, Types
<1>6. Single(call)' /\ Worked(call)' /\ StoringIsOwn'
  BY <1>1, <1>2, <1>3, <1>4, WritersAre
     DEF IInv, Single, Worked, StoringIsOwn, Contract!UnderWay
<1>7. Placed' /\ Marks' /\ OnlyAnswersMark'
  BY <1>1 DEF IInv, Placed, Marks, OnlyAnswersMark
<1> QED
  BY <1>5, <1>6, <1>7 DEF IInv

(* The end is heard, and the fetch goes on from the slot if it was its own. *)
LEMMA HearsStep ==
  ASSUME IInv, NEW c \in Writers, Hears(c)
  PROVE  IInv'
<1> DEFINE calls == [call EXCEPT ![c] = "idle"]
<1>1. /\ call[c] \in Contract!Told /\ StoreRunEnded(calls)
      /\ UNCHANGED <<file, fate, stopped, marked>>
  BY DEF Hears, truth, effects
<1>2. call \in Calls /\ Single(call) /\ call[c] # "idle" /\ call[c] \notin Contract!UnderWay
  BY <1>1 DEF IInv, Types, Contract!Told, Contract!UnderWay
<1>3. calls \in Calls /\ \A d \in Writers : calls[d] = "idle"
  BY <1>2 DEF Calls, Single
<1>4. \A d \in Writers : d # c => call[d] = "idle"
  BY <1>2 DEF Single
<1>5. working = "none" /\ working \in {"none", "busy", "good", "bad"}
  BY <1>2, <1>4 DEF IInv, Worked, Contract!UnderWay
<1>6. Single(calls) /\ Worked(calls) /\ \A d \in Writers : calls[d] \notin Contract!Told
  BY <1>3, <1>5 DEF Single, Worked, Contract!UnderWay, Contract!Told
<1> HIDE DEF calls
<1>7. CASE ~storing
  <2>1. call' = calls /\ UNCHANGED <<working, fetch>>
    BY <1>1, <1>7 DEF StoreRunEnded
  <2>2. Single(call)' /\ Worked(call)'
    BY <1>6, <2>1 DEF Single, Worked
  <2>3. call["fetch"] = "idle"
    BY <1>7, WritersAre DEF IInv, StoringIsOwn
  <2> QED
    BY <1>1, <1>3, <1>5, <2>1, <2>2, <2>3, WritersAre, FetchAlone DEF IInv, Types
<1>8. CASE storing
  <2>1. pending \in Seq(Entries) /\ pending # <<>> /\ running /\ session = "none"
    BY <1>8 DEF IInv, Types, Placed
  <2>2. /\ Tail(pending) \in Seq(Entries)
        /\ \A i \in DOMAIN Tail(pending) : i + 1 \in DOMAIN pending /\ Tail(pending)[i] = pending[i + 1]
    BY <2>1
  <2>3. session' = "none"
    BY <1>1, <1>8, <2>1 DEF StoreRunEnded
  <2>4. Closes(calls) \/ (Tail(pending) # <<>> /\ GoesOn(calls, Tail(pending)))
    BY <1>1, <1>8, WaysOn DEF StoreRunEnded
  <2>5. \A i \in DOMAIN Tail(pending) :
          Tail(pending)[i].succeeded => fate'[Tail(pending)[i].of] = "answered" /\ ~stopped'
    BY <1>1, <2>2 DEF IInv, Marks
  <2>6. Types /\ OnlyAnswersMark
    BY DEF IInv
  <2>7. \A a \in marked' : fate'[a] = "answered" /\ ~stopped'
    BY <1>1, <2>6 DEF OnlyAnswersMark
  <2>8. file' = file /\ fate' \in [Accounts -> Fates]
    BY <1>1, <2>6 DEF Types
  <2>9. calls["fetch"] = "idle"
    BY <1>3, WritersAre
  <2> QED
    BY <1>3, <1>5, <1>6, <2>1, <2>2, <2>3, <2>4, <2>5, <2>6, <2>7, <2>8, <2>9, GoesOnStep DEF Types
<1> QED
  BY <1>7, <1>8

-----------------------------------------------------------------------------
(* At the start nothing is fetched.                                        *)
LEMMA InitIInv == Init => IInv
<1> SUFFICES ASSUME Init PROVE IInv
  OBVIOUS
<1>1. Types
  BY NoQueue DEF Init, Types, Calls, Fates, Accounts
<1> QED
  BY <1>1 DEF Init, IInv, Single, Worked, Placed, StoringIsOwn, Marks, OnlyAnswersMark,
              Writers, Contract!UnderWay

(* Every step keeps the invariant.                                         *)
LEMMA NextIInv == IInv /\ [Next]_vars => IInv'
<1> SUFFICES ASSUME IInv, [Next]_vars PROVE IInv'
  OBVIOUS
<1>1. ASSUME NEW a \in Accounts, Start(a) PROVE IInv'
  BY <1>1, BeginsStep DEF Start
<1>2. CASE StartAll
  BY <1>2, BeginsStep DEF StartAll
<1>3. CASE UNCHANGED vars
  <2>1. UNCHANGED <<file, call, working, fetch, fate, stopped, marked>>
    BY <1>3 DEF vars, storage, truth, effects
  <2> QED
    BY <2>1, FetchAlone DEF IInv, Types, Single, Worked
<1> QED
  BY <1>1, <1>2, <1>3, SwitchStep, WizardStep, GoingOnStep, EmptyReturnStep, SingleReceivedStep,
     AllReceivedStep, AllAbortedStep, WorkStep, HandOnStep, HearsStep DEF Next

(* The inductive invariant holds in every reachable state.                 *)
THEOREM FetchHolds == Spec => []IInv
BY InitIInv, NextIInv, PTL DEF Spec

(* The mark of an own run stands exactly while that run is out or its end  *)
(* to be heard, however often the way was taken (startStoring,             *)
(* storeRunEnded).                                                         *)
THEOREM StoringBelongs == Spec => []StoringIsOwn
<1>1. IInv => StoringIsOwn
  BY DEF IInv
<1> QED
  BY FetchHolds, <1>1, PTL

(* Only an account the bank answered for, in a session nobody stopped, has *)
(* its missing orders marked as ended (queueReceived, noteUnreachable,     *)
(* userAborted).                                                           *)
THEOREM NoOrderEndsUnanswered == Spec => []OnlyAnswersMark
<1>1. IInv => OnlyAnswersMark
  BY DEF IInv
<1> QED
  BY FetchHolds, <1>1, PTL

-----------------------------------------------------------------------------
(* The contract of Storage.                                                *)

(* Going on from the event loop is a call that is accepted, or none.       *)
LEMMA GoesOnCalls ==
  ASSUME NEW queue, Closes(call) \/ GoesOn(call, queue), file' = file
  PROVE  Contract!Next \/ UNCHANGED <<file, call>>
<1>1. CASE Stores(call, queue)
  <2>1. Contract!Accept("fetch")
    BY <1>1, WritersAre DEF Stores, Accepted, Contract!Accept, Contract!Callers
  <2> QED
    BY <2>1, WritersAre DEF Contract!Next, Contract!Callers
<1>2. CASE Closes(call) \/ Postpones(call, queue)
  BY <1>2 DEF Closes, Postpones
<1> QED
  BY <1>1, <1>2 DEF GoesOn

(* Hearing an end takes it, or takes it and asks again.                    *)
LEMMA HearsCalls ==
  ASSUME IInv, NEW c \in Writers, Hears(c)
  PROVE  Contract!Next
<1> DEFINE calls == [call EXCEPT ![c] = "idle"]
<1>1. call[c] \in Contract!Told /\ StoreRunEnded(calls) /\ file' = file
  BY DEF Hears
<1>2. call \in Calls /\ Single(call) /\ call[c] # "idle"
  BY <1>1 DEF IInv, Types, Contract!Told
<1>3. CASE call' = calls
  BY <1>1, <1>3 DEF Contract!Next, Contract!Take, Contract!Callers
<1>4. CASE storing /\ Stores(calls, Tail(pending))
  <2>1. c = "fetch"
    BY <1>2, <1>4, WritersAre DEF IInv, StoringIsOwn, Single
  <2>2. /\ file # "none" /\ call[c] \notin Contract!UnderWay
        /\ \A d \in Writers : call[d] \notin Contract!UnderWay
    BY <1>1, <1>2, <1>4 DEF Stores, Single, Contract!Told, Contract!UnderWay
  <2>3. call' = [call EXCEPT !["fetch"] = "out"]
    BY <1>2, <1>4, <2>1 DEF Stores, Calls
  <2>4. Contract!Accept("fetch")
    BY <1>1, <2>1, <2>2, <2>3 DEF Contract!Accept, Contract!Callers
  <2> QED
    BY <2>4, WritersAre DEF Contract!Next, Contract!Callers
<1> HIDE DEF calls
<1>5. call' = calls \/ (storing /\ Stores(calls, Tail(pending)))
  <2>1. CASE ~storing
    BY <1>1, <2>1 DEF StoreRunEnded
  <2>2. CASE storing
    <3>1. Closes(calls) \/ GoesOn(calls, Tail(pending))
      BY <1>1, <2>2, WaysOn DEF StoreRunEnded
    <3> QED
      BY <2>2, <3>1 DEF GoesOn, Closes, Postpones
  <2> QED
    BY <2>1, <2>2
<1> QED
  BY <1>3, <1>4, <1>5

LEMMA CallsStep == IInv /\ [Next]_vars => [Contract!Next]_(Contract!cvars)
<1> SUFFICES ASSUME IInv, [Next]_vars PROVE Contract!Next \/ UNCHANGED <<file, call>>
  BY DEF Contract!cvars
<1>1. CASE OpenVault \/ VaultFalls
  BY <1>1 DEF OpenVault, VaultFalls, Contract!Next
<1>2. CASE WizardStores
  BY <1>2, WritersAre DEF WizardStores, Contract!Next, Contract!Callers
<1>3. ASSUME NEW all, NEW S, NEW up, Begins(all, S, up) PROVE UNCHANGED <<file, call>>
  BY <1>3 DEF Begins, storage
<1>4. ASSUME FailLater \/ SinglePassedOver \/ SingleFails \/ AllFail PROVE UNCHANGED <<file, call>>
  <2>1. Closes(call) /\ file' = file
    BY <1>4, WaysOn DEF FailLater, SinglePassedOver, SingleFails, AllFail, SessionReturns
  <2> QED
    BY <2>1 DEF Closes
<1>5. ASSUME SingleReceived \/ AllReceived \/ \E keep \in BOOLEAN : AnswerAbort(keep)
      PROVE  file' = file /\ \E queue : Closes(call) \/ GoesOn(call, queue)
  BY <1>5, WaysOn DEF SingleReceived, AllReceived, AnswerAbort, SessionReturns
<1>6. CASE AllAborted
  <2>1. file' = file
    BY <1>6 DEF AllAborted, SessionReturns
  <2>2. call' = call
    <3>1. \/ FinishWithoutRun("Aborted", storedCount, CountsOf({}))
          \/ UNCHANGED call
      BY <1>6 DEF AllAborted, StopHeard
    <3> QED
      BY <3>1, WaysOn DEF Closes
  <2> QED
    BY <2>1, <2>2
<1>7. CASE RetryFires
  BY <1>7, WaysOn, GoesOnCalls DEF RetryFires
<1>8. CASE Work
  BY <1>8 DEF Work
<1>9. ASSUME NEW c \in Writers, HandOn(c) PROVE Contract!Next
  <2>1. /\ Contract!NobodyIsTold /\ file' = file
        /\ call[c] \in {"out", "stale"}
        /\ call' = [call EXCEPT ![c] = IF call[c] = "stale" THEN "silent"
                                       ELSE IF working = "good" THEN "result" ELSE "failed"]
    BY <1>9 DEF HandOn, InEventLoop, Contract!UnderWay
  <2>2. Contract!Answer(c)
    BY <2>1 DEF Contract!Answer
  <2> QED
    BY <2>2 DEF Contract!Next, Contract!Callers
<1>10. CASE UNCHANGED vars
  BY <1>10 DEF vars, storage
<1> QED
  BY <1>1, <1>2, <1>3, <1>4, <1>5, <1>6, <1>7, <1>8, <1>9, <1>10, HearsCalls, GoesOnCalls
     DEF Next, Start, StartAll

(* Every behaviour of the fetch and the wizard towards Storage is one      *)
(* StorageContract allows to its callers (storeItems, writeFinished).      *)
THEOREM CallsKeepTheContract == Spec => KeepsTheContract
<1>1. Init => Contract!Init
  BY DEF Init, Contract!Init, Contract!Callers
<1> QED
  BY FetchHolds, <1>1, CallsStep, PTL DEF Spec, KeepsTheContract, Contract!Spec
-----------------------------------------------------------------------------
(* What a fetch reports.                                                   *)

Reports == [outcome : Outcomes, count : Count, all : BOOLEAN, fetched : Count, summary : Summaries]

(* What happened at the bank and in the file.                              *)
Facts ==
  /\ stopped \in BOOLEAN /\ stood \in BOOLEAN /\ outcome \in Outcomes
  /\ sent \in [Accounts -> Answers]
  /\ written \subseteq Accounts /\ marked \subseteq Accounts
  /\ added \in Nat /\ added <= Cardinality(written)
  /\ fetches \in 0..MaxFetches /\ setups \in 0..MaxSetups /\ falls \in 0..MaxFalls

Flags ==
  /\ running \in BOOLEAN /\ overAllAccounts \in BOOLEAN /\ storing \in BOOLEAN
  /\ storeFailed \in BOOLEAN /\ retry \in BOOLEAN /\ waitingForAbortAnswer \in BOOLEAN

Figures ==
  /\ storedCount \in Count /\ storedBeforeRun \in Count /\ attempted \in Count
  /\ summary \in Summaries
  /\ report = NoReport \/ report \in Reports

(* A queue goes in the order of the accounts, and marks unless the session *)
(* was stopped.                                                            *)
QueueFits(queue, stop) ==
  /\ Len(queue) <= MaxAccount
  /\ \A i, j \in DOMAIN queue : i < j => queue[i].of < queue[j].of
  /\ \A i \in DOMAIN queue : queue[i].succeeded = ~stop

Ofs(queue) == {queue[i].of : i \in DOMAIN queue}

(* Of the accounts that are due, those before the queue are done.          *)
Ledger(queue, done, due) ==
  /\ done \cup Ofs(queue) = due
  /\ \A a \in done, b \in Ofs(queue) : a < b

Marked(done, stop) == IF stop THEN {} ELSE done

(* What is written and counted between the runs, while a run is out, and   *)
(* when its end is told.                                                   *)
BetweenRuns ==
  running /\ session = "none" /\ call["fetch"] = "idle" =>
    Ledger(pending, written, Answered) /\ added = storedCount

RunBooked ==
  call["fetch"] \in Contract!UnderWay =>
    /\ storedCount = storedBeforeRun /\ storeFailed = FALSE
    /\ working = "good" => /\ Ledger(Tail(pending), written, Answered)
                           /\ added = storedBeforeRun + Fresh(Head(pending).orders)
    /\ working # "good" => Ledger(pending, written, Answered) /\ added = storedBeforeRun

EndBooked ==
  /\ call["fetch"] = "result" =>
       Ledger(Tail(pending), written, Answered) /\ added = storedCount /\ storeFailed = FALSE
  /\ call["fetch"] = "failed" =>
       Ledger(pending, written, Answered) /\ added = storedBeforeRun /\ storeFailed = TRUE
  /\ call["fetch"] = "silent" => storeFailed = FALSE

Booked ==
  /\ BetweenRuns /\ RunBooked /\ EndBooked
  /\ marked = Marked(written, stopped)

(* A run that outlived its storage leaves none behind.                     *)
Gone == call["fetch"] \in {"stale", "silent"} => file = "none"

InSession ==
  session # "none" =>
    /\ written = {} /\ added = 0 /\ storedCount = 0 /\ pending = <<>> /\ summary = NoSummary
    /\ session = "out" /\ overAllAccounts => asked = Accounts /\ attempted = MaxAccount

Standing == stood /\ running => file # "none"

(* An answer to keep what came in stands in the summary from then on.      *)
OutcomeFits ==
  running /\ session = "none" =>
    /\ outcome \in {"Received", "Aborted"} /\ (outcome = "Aborted" <=> stopped)
    /\ waitingForAbortAnswer => stopped /\ summary.kept = FALSE /\ written = {}
    /\ ~waitingForAbortAnswer => (stopped <=> summary.kept = TRUE)

Fated(fates, of) == {a \in Accounts : of[a] \in fates}

(* The figures s of n accounts that were tried are what became of them.    *)
FiguresOf(of, s, n) ==
  /\ s.skipped = Cardinality(Fated({"offline"}, of))
  /\ s.failed = Cardinality(Fated({"refused"}, of))
  /\ s.notOffered = Cardinality(Fated({"notOffered"}, of))
  /\ n = Cardinality(Fated({"answered"}, of)) + s.skipped + s.failed + s.notOffered

FiguresKept ==
  running /\ session = "none" /\ overAllAccounts /\ ~stopped => FiguresOf(fate, summary, attempted)

FInv ==
  /\ Facts /\ Flags /\ Figures /\ QueueFits(pending, stopped) /\ Booked /\ Gone
  /\ InSession /\ Standing /\ OutcomeFits /\ FiguresKept
  /\ TellsTheTruth /\ FiguresAddUp

-----------------------------------------------------------------------------
(* Counting accounts.                                                      *)

LEMMA Counting ==
  /\ MaxAccount \in Nat /\ IsFiniteSet(Accounts) /\ Cardinality(Accounts) = MaxAccount
  /\ \A S \in SUBSET Accounts : IsFiniteSet(S) /\ Cardinality(S) \in Count
<1>1. MaxAccount \in Nat /\ MaxAccount > 0
  BY FetchAssumption
<1>2. IsFiniteSet(Accounts) /\ Cardinality(Accounts) = MaxAccount
  BY <1>1, FS_Interval DEF Accounts
<1>3. ASSUME NEW S \in SUBSET Accounts PROVE IsFiniteSet(S) /\ Cardinality(S) \in Count
  <2>1. IsFiniteSet(S) /\ Cardinality(S) <= MaxAccount
    BY <1>2, FS_Subset
  <2>2. Cardinality(S) \in Nat
    BY <2>1, FS_CardinalityType
  <2> QED
    BY <1>1, <2>1, <2>2 DEF Count
<1> QED
  BY <1>1, <1>2, <1>3

(* Sets of accounts that have none in common add up.                       *)
LEMMA Apart ==
  ASSUME NEW S \in SUBSET Accounts, NEW T \in SUBSET Accounts, S \cap T = {}
  PROVE  Cardinality(S \cup T) = Cardinality(S) + Cardinality(T)
<1>1. IsFiniteSet(S) /\ IsFiniteSet(T)
  BY Counting
<1>2. Cardinality(S) \in Nat /\ Cardinality(T) \in Nat
  BY <1>1, FS_CardinalityType
<1>3. Cardinality(S \cup T) = Cardinality(S) + Cardinality(T) - Cardinality(S \cap T)
  BY <1>1, FS_Union
<1>4. Cardinality(S \cap T) = 0
  BY FS_EmptySet
<1> QED
  BY <1>2, <1>3, <1>4

(* What became of the accounts of a session over all of them that nobody   *)
(* stopped is one of four things.                                          *)
LEMMA FourFates ==
  ASSUME NEW of \in [Accounts -> {"offline", "notOffered", "refused", "answered"}]
  PROVE  MaxAccount = Cardinality(Fated({"answered"}, of)) + Cardinality(Fated({"offline"}, of))
                      + Cardinality(Fated({"refused"}, of)) + Cardinality(Fated({"notOffered"}, of))
<1> DEFINE A == Fated({"answered"}, of)
           O == Fated({"offline"}, of)
           R == Fated({"refused"}, of)
           N == Fated({"notOffered"}, of)
<1>1. /\ A \in SUBSET Accounts /\ O \in SUBSET Accounts /\ R \in SUBSET Accounts
      /\ N \in SUBSET Accounts
      /\ A \cap O = {} /\ (A \cup O) \cap R = {} /\ (A \cup O \cup R) \cap N = {}
      /\ A \cup O \cup R \cup N = Accounts
  BY DEF Fated
<1> HIDE DEF A, O, R, N
<1>2. Cardinality(A \cup O) = Cardinality(A) + Cardinality(O)
  BY <1>1, Apart
<1>3. Cardinality(A \cup O \cup R) = Cardinality(A \cup O) + Cardinality(R)
  <2>1. A \cup O \in SUBSET Accounts
    BY <1>1
  <2> QED
    BY <1>1, <2>1, Apart
<1>4. Cardinality(Accounts) = Cardinality(A \cup O \cup R) + Cardinality(N)
  <2>1. A \cup O \cup R \in SUBSET Accounts
    BY <1>1
  <2> QED
    BY <1>1, <2>1, Apart
<1>5. Cardinality(Accounts) = MaxAccount
  BY Counting
<1> QED
  BY <1>2, <1>3, <1>4, <1>5 DEF A, O, R, N

(* What is left over of the accounts that were tried is what answered.     *)
LEMMA FiguresLeave ==
  ASSUME NEW of \in [Accounts -> Fates], NEW s \in Summaries, NEW n \in Count,
         FiguresOf(of, s, n)
  PROVE  LET passed == s.skipped + s.failed + s.notOffered
         IN  (IF n > passed THEN n - passed ELSE 0) = Cardinality(Fated({"answered"}, of))
<1>1. Fated({"answered"}, of) \in SUBSET Accounts
  BY DEF Fated
<1>2. /\ Cardinality(Fated({"answered"}, of)) \in Nat /\ n \in Nat
      /\ s.skipped \in Nat /\ s.failed \in Nat /\ s.notOffered \in Nat
  BY <1>1, Counting DEF Count, Summaries
<1> QED
  BY <1>2 DEF FiguresOf

-----------------------------------------------------------------------------
(* The queue and what is done of it.                                       *)

(* The accounts of a queue are that of its head and those of its tail, and *)
(* they come later.                                                        *)
LEMMA HeadAndTail ==
  ASSUME NEW queue \in Seq(Entries), queue # <<>>, NEW stop, QueueFits(queue, stop)
  PROVE  /\ Tail(queue) \in Seq(Entries) /\ QueueFits(Tail(queue), stop)
         /\ Head(queue) \in Entries /\ Head(queue).succeeded = ~stop
         /\ Ofs(queue) = {Head(queue).of} \cup Ofs(Tail(queue))
         /\ \A b \in Ofs(Tail(queue)) : Head(queue).of < b
<1>1. /\ Tail(queue) \in Seq(Entries) /\ Head(queue) = queue[1] /\ 1 \in DOMAIN queue
      /\ Len(Tail(queue)) = Len(queue) - 1
      /\ DOMAIN queue = 1..Len(queue) /\ DOMAIN Tail(queue) = 1..(Len(queue) - 1)
      /\ Len(queue) \in Nat /\ Len(queue) > 0
  BY HeadTailProperties, LenProperties
<1>2. \A i \in DOMAIN Tail(queue) :
        Tail(queue)[i] = queue[i + 1] /\ i + 1 \in DOMAIN queue /\ 1 < i + 1
  BY <1>1, HeadTailProperties
<1>3. \A i \in DOMAIN queue : i # 1 => i - 1 \in DOMAIN Tail(queue) /\ queue[i] = Tail(queue)[i - 1]
  BY <1>1, <1>2
<1>4. Head(queue) \in Entries
  BY <1>1, ElementOfSeq
<1>5. QueueFits(Tail(queue), stop)
  <2>1. Len(Tail(queue)) <= MaxAccount
    BY <1>1, Counting DEF QueueFits
  <2>2. ASSUME NEW i \in DOMAIN Tail(queue), NEW j \in DOMAIN Tail(queue), i < j
        PROVE  Tail(queue)[i].of < Tail(queue)[j].of
    <3>1. i + 1 < j + 1
      BY <1>1, <2>2
    <3> QED
      BY <1>2, <3>1 DEF QueueFits
  <2>3. \A i \in DOMAIN Tail(queue) : Tail(queue)[i].succeeded = ~stop
    BY <1>2 DEF QueueFits
  <2> QED
    BY <2>1, <2>2, <2>3 DEF QueueFits
<1>6. Ofs(queue) = {Head(queue).of} \cup Ofs(Tail(queue))
  <2>1. ASSUME NEW i \in DOMAIN queue
        PROVE  queue[i].of \in {Head(queue).of} \cup Ofs(Tail(queue))
    BY <1>1, <1>3 DEF Ofs
  <2>2. ASSUME NEW a \in {Head(queue).of} \cup Ofs(Tail(queue)) PROVE a \in Ofs(queue)
    BY <1>1, <1>2 DEF Ofs
  <2> QED
    BY <2>1, <2>2 DEF Ofs
<1>7. \A b \in Ofs(Tail(queue)) : Head(queue).of < b
  BY <1>1, <1>2 DEF Ofs, QueueFits
<1>8. Head(queue).succeeded = ~stop
  BY <1>1 DEF QueueFits
<1> QED
  BY <1>1, <1>4, <1>5, <1>6, <1>7, <1>8

(* The accounts of a queue are accounts.                                   *)
LEMMA OfsAreAccounts ==
  ASSUME NEW queue \in Seq(Entries)
  PROVE  Ofs(queue) \subseteq Accounts
<1>1. \A i \in DOMAIN queue : queue[i] \in Entries
  BY ElementOfSeq, LenProperties
<1> QED
  BY <1>1 DEF Ofs, Entries

(* The head is done, and the next one is due.                              *)
LEMMA Advance ==
  ASSUME NEW queue \in Seq(Entries), queue # <<>>, NEW stop, QueueFits(queue, stop),
         NEW done \in SUBSET Accounts, NEW due, Ledger(queue, done, due)
  PROVE  /\ Ledger(Tail(queue), done \cup {Head(queue).of}, due)
         /\ Head(queue).of \in Accounts \ done
         /\ Head(queue).of \in due /\ done = {a \in due : a < Head(queue).of}
<1> DEFINE h == Head(queue).of
<1>1. /\ Ofs(queue) = {h} \cup Ofs(Tail(queue)) /\ \A b \in Ofs(Tail(queue)) : h < b
      /\ Head(queue) \in Entries
  BY HeadAndTail
<1>2. h \in Accounts /\ Accounts \subseteq Nat
  BY <1>1 DEF Entries, Accounts
<1>3. Ofs(Tail(queue)) \subseteq Accounts
  BY HeadAndTail, OfsAreAccounts
<1> HIDE DEF h
<1>4. \A a \in Nat : a < h => ~(h < a) /\ a # h
  BY <1>2
<1>5. \A a \in done : a < h
  BY <1>1 DEF Ledger
<1>6. h \notin done /\ ~(h < h) /\ \A b \in Ofs(Tail(queue)) : ~(b < h)
  BY <1>1, <1>2, <1>3, <1>4, <1>5
<1>7. done \cup {h} \cup Ofs(Tail(queue)) = due
  BY <1>1 DEF Ledger
<1>8. done = {a \in due : a < h}
  BY <1>5, <1>6, <1>7
<1>9. Ledger(Tail(queue), done \cup {h}, due)
  BY <1>1, <1>7 DEF Ledger
<1> QED
  BY <1>2, <1>6, <1>7, <1>8, <1>9 DEF h

(* The accounts a queue stands for, in their order.                        *)
LEMMA InOrderFits ==
  ASSUME NEW S \in SUBSET Accounts
  PROVE  InOrder(S) \in Seq(S) /\ Ordered(InOrder(S), S) /\ Len(InOrder(S)) <= MaxAccount
<1> DEFINE Q == UNION {[1..n -> S] : n \in 0..MaxAccount}
<1>1. \E q \in Q : Ordered(q, S)
  BY OrderExists
<1>2. InOrder(S) = CHOOSE q \in Q : Ordered(q, S)
  BY DEF InOrder, Ordered
<1>3. InOrder(S) \in Q /\ Ordered(InOrder(S), S)
  BY <1>1, <1>2
<1>4. PICK n \in 0..MaxAccount : InOrder(S) \in [1..n -> S]
  BY <1>3
<1>5. n \in Nat /\ n <= MaxAccount
  BY FetchAssumption
<1>6. Len(InOrder(S)) = n
  BY <1>4, <1>5
<1> QED
  BY <1>3, <1>5, <1>6, InOrderType

(* A queue of what a session brought fits, and holds who is due.           *)
LEMMA ReceivedFits ==
  ASSUME NEW heard \in SUBSET Accounts, NEW orders \in [Accounts -> Answers],
         NEW succeeded \in BOOLEAN
  PROVE  LET queue == QueueReceived(heard, orders, succeeded)
         IN  /\ queue \in Seq(Entries) /\ QueueFits(queue, ~succeeded)
             /\ Ofs(queue) = {a \in heard : succeeded \/ orders[a] # "none"}
<1> DEFINE S == {a \in heard : succeeded \/ orders[a] # "none"}
           q == InOrder(S)
           queue == QueueReceived(heard, orders, succeeded)
<1>1. S \in SUBSET Accounts
  OBVIOUS
<1>2. q \in Seq(S) /\ Ordered(q, S) /\ Len(q) <= MaxAccount
  BY <1>1, InOrderFits
<1>3. queue \in Seq(Entries)
  BY QueueType
<1>4. queue = [i \in DOMAIN q |-> [of |-> q[i], succeeded |-> succeeded, orders |-> orders[q[i]]]]
  BY Zenon DEF QueueReceived
<1> HIDE DEF S, q, queue
<1>5. /\ DOMAIN queue = DOMAIN q
      /\ \A i \in DOMAIN q : queue[i].of = q[i] /\ queue[i].succeeded = succeeded
  BY <1>4
<1>6. Len(queue) = Len(q)
  BY <1>2, <1>3, <1>5, LenProperties
<1>7. QueueFits(queue, ~succeeded)
  BY <1>2, <1>5, <1>6 DEF QueueFits, Ordered
<1>8. Ofs(queue) = S
  <2>1. \A i \in DOMAIN q : q[i] \in S
    BY <1>2, ElementOfSeq
  <2> QED
    BY <1>2, <1>5, <2>1 DEF Ofs, Ordered
<1> QED
  BY <1>3, <1>7, <1>8 DEF S, queue

(* Nothing is done yet, and nothing is left when the queue is empty.       *)
LEMMA EndsOfLedger ==
  ASSUME NEW queue \in Seq(Entries), NEW due
  PROVE  /\ Ofs(queue) = due => Ledger(queue, {}, due)
         /\ \A done : Ledger(<<>>, done, due) => done = due
         /\ \A stop : QueueFits(<<>>, stop)
<1>1. DOMAIN <<>> = {} /\ Len(<<>>) = 0 /\ MaxAccount \in Nat
  BY Counting
<1>2. Ofs(<<>>) = {}
  BY <1>1 DEF Ofs
<1>3. \A stop : QueueFits(<<>>, stop)
  BY <1>1 DEF QueueFits
<1>4. Ofs(queue) = due => Ledger(queue, {}, due)
  BY DEF Ledger
<1>5. \A done : Ledger(<<>>, done, due) => done = due
  BY <1>2 DEF Ledger
<1> QED
  BY <1>3, <1>4, <1>5

-----------------------------------------------------------------------------
(* The ways on, with their figures.                                        *)

(* A report of the outcome o and of n orders is true of what was done.     *)
SaysTruly(o, n, kept, due, done, mark, ad) ==
  /\ n = ad
  /\ CASE o = "Received" -> done = due /\ mark = due
       [] o = "StoreFailed" -> \E failed \in due : done = {a \in due : a < failed}
       [] o = "Aborted" -> done = (IF kept THEN due ELSE {}) /\ mark = {}
       [] OTHER -> done = {}

(* A fetch that ends with a true report leaves nothing behind.             *)
LEMMA Closing ==
  ASSUME IInv', Facts', marked' = Marked(written', stopped'), session' = "none",
         NEW calls, NEW o \in Outcomes, NEW n \in Count, NEW s \in Summaries,
         Finish(calls, o, n, s), storeFailed' \in BOOLEAN,
         overAllAccounts \in BOOLEAN, storedBeforeRun \in Count, attempted \in Count,
         stood' => SaysTruly(o, n, s.kept, Answered', written', marked', added'),
         overAllAccounts /\ ~stopped' /\ o \in {"Received", "StoreFailed"} =>
           FiguresOf(fate', s, attempted)
  PROVE  FInv'
<1> DEFINE left == LeftOver(s)
<1>1. /\ running' = FALSE /\ storing' = FALSE /\ retry' = FALSE
      /\ waitingForAbortAnswer' = FALSE /\ pending' = <<>>
      /\ storedCount' = 0 /\ attempted' = 0 /\ summary' = NoSummary /\ overAllAccounts' = FALSE
      /\ storedBeforeRun' = storedBeforeRun
      /\ report' = [outcome |-> o, count |-> n, all |-> overAllAccounts, fetched |-> left,
                    summary |-> s]
  BY DEF Finish
<1>2. call'["fetch"] = "idle"
  BY <1>1 DEF IInv, StoringIsOwn
<1>3. 0 \in Count /\ left \in Count
  <2>1. attempted \in 0..MaxAccount /\ s.skipped \in Nat /\ s.failed \in Nat /\ s.notOffered \in Nat
        /\ MaxAccount \in Nat
    BY Counting DEF Count, Summaries
  <2> QED
    BY <2>1 DEF LeftOver, Count
<1>4. NoSummary \in Summaries
  BY <1>3 DEF NoSummary, Summaries
<1>5. report' \in Reports
  <2> HIDE DEF left
  <2> QED
    BY <1>1, <1>3, Zenon DEF Reports
<1>6. Flags' /\ Figures'
  BY <1>1, <1>3, <1>4, <1>5 DEF Flags, Figures
<1>7. QueueFits(pending, stopped)'
  <2>1. QueueFits(<<>>, stopped')
    BY NoQueue, EndsOfLedger
  <2> QED
    BY <1>1, <2>1 DEF QueueFits
<1>8. Booked' /\ Gone' /\ InSession' /\ Standing' /\ OutcomeFits' /\ FiguresKept'
  BY <1>1, <1>2
     DEF Booked, BetweenRuns, RunBooked, EndBooked, Gone, InSession, Standing, OutcomeFits,
         FiguresKept, Contract!UnderWay
<1>9. TellsTheTruth'
  <2>1. report'.outcome = o /\ report'.count = n /\ report'.summary.kept = s.kept
    BY <1>1
  <2> HIDE DEF left
  <2> QED
    BY <2>1 DEF TellsTheTruth, SaysTruly
<1>10. FiguresAddUp'
  <2>1. report'.outcome = o /\ report'.all = overAllAccounts /\ report'.fetched = left
        /\ report'.summary = s
    BY <1>1
  <2> SUFFICES ASSUME overAllAccounts, ~stopped', o \in {"Received", "StoreFailed"}
               PROVE  /\ left = Cardinality(With("answered"))'
                      /\ s.skipped = Cardinality(With("offline"))'
                      /\ s.failed = Cardinality(With("refused"))'
                      /\ s.notOffered = Cardinality(With("notOffered"))'
    <3> HIDE DEF left
    <3> QED
      BY <2>1 DEF FiguresAddUp
  <2>2. FiguresOf(fate', s, attempted) /\ fate' \in [Accounts -> Fates]
    BY DEF IInv, Types
  <2>3. \A f : With(f)' = Fated({f}, fate')
    BY DEF With, Fated
  <2>4. left = Cardinality(Fated({"answered"}, fate'))
    BY <2>2, FiguresLeave DEF LeftOver
  <2> HIDE DEF left
  <2> QED
    BY <2>2, <2>3, <2>4 DEF FiguresOf
<1> QED
  BY <1>6, <1>7, <1>8, <1>9, <1>10 DEF FInv

(* Where a fetch stands that has the queue before it, n orders counted and *)
(* the summary s.                                                          *)
Settled(queue, n, s) ==
  /\ IInv' /\ Facts' /\ marked' = Marked(written', stopped') /\ session' = "none"
  /\ running = TRUE /\ overAllAccounts \in BOOLEAN /\ file' = file /\ (stood' => file # "none")
  /\ queue \in Seq(Entries) /\ QueueFits(queue, stopped')
  /\ Ledger(queue, written', Answered') /\ added' = n
  /\ n \in Count /\ s \in Summaries /\ attempted \in Count /\ storedBeforeRun \in Count
  /\ report = NoReport \/ report \in Reports
  /\ outcome' \in {"Received", "Aborted"} /\ (outcome' = "Aborted" <=> stopped')
  /\ stopped' <=> s.kept = TRUE
  /\ overAllAccounts /\ ~stopped' => FiguresOf(fate', s, attempted)

(* startStoring from there: a run, a retry, or the end of it.              *)
LEMMA Starting ==
  ASSUME NEW calls, NEW queue, NEW n, NEW s, Settled(queue, n, s), queue # <<>>,
         StartStoring(calls, queue, n, s)
  PROVE  FInv'
<1>1. CASE file = "none"
  <2>1. Finish(calls, "StoreFailed", n, s) /\ storeFailed' = FALSE /\ ~stood'
    BY <1>1 DEF StartStoring, Settled, Facts
  <2>2. "StoreFailed" \in Outcomes
    BY DEF Outcomes
  <2> QED
    BY <2>1, <2>2, Closing DEF Settled
<1>2. CASE file # "none"
  <2>1. /\ storeFailed' = FALSE /\ pending' = queue /\ storedCount' = n /\ storedBeforeRun' = n
        /\ summary' = s /\ waitingForAbortAnswer' = FALSE
        /\ UNCHANGED <<running, overAllAccounts, attempted, report>>
    BY <1>2 DEF StartStoring
  <2>2. Postpones(calls, queue) \/ Stores(calls, queue)
    <3>1. GoesOn(calls, queue)
      BY WaysOn
    <3> QED
      BY <2>1, <3>1 DEF GoesOn, Closes, Settled
  <2>3. /\ storing' \in BOOLEAN /\ retry' \in BOOLEAN
        /\ call'["fetch"] # "idle" => call'["fetch"] = "out" /\ working' = "busy"
    <3>1. CASE Postpones(calls, queue)
      BY <3>1 DEF Postpones, IInv, StoringIsOwn, Settled
    <3>2. CASE Stores(calls, queue)
      <4>1. storing' = TRUE /\ retry' = FALSE /\ working' = "busy"
        BY <3>2 DEF Stores
      <4>2. call' = [calls EXCEPT !["fetch"] = "out"] /\ call' \in Calls
        BY <3>2 DEF Stores, IInv, Types, Settled
      <4>3. "fetch" \in DOMAIN call'
        BY <4>2, WritersAre DEF Calls
      <4> QED
        BY <4>1, <4>2, <4>3
    <3> QED
      BY <2>2, <3>1, <3>2
  <2>4. Flags' /\ Figures' /\ Facts'
    BY <2>1, <2>3 DEF Flags, Figures, Settled
  <2>5. QueueFits(pending, stopped)'
    BY <2>1 DEF QueueFits, Settled
  <2>6. Ledger(pending, written, Answered)' /\ added' = n
    BY <2>1 DEF Ledger, Ofs, Settled
  <2>7. Booked' /\ Gone'
    BY <2>1, <2>3, <2>6
       DEF Booked, BetweenRuns, RunBooked, EndBooked, Gone, Contract!UnderWay, Settled
  <2>8. InSession' /\ Standing' /\ OutcomeFits' /\ FiguresKept'
    BY <1>2, <2>1 DEF InSession, Standing, OutcomeFits, FiguresKept, Settled
  <2>9. TellsTheTruth' /\ FiguresAddUp'
    BY <2>1 DEF TellsTheTruth, FiguresAddUp, Over, Settled
  <2> QED
    BY <2>4, <2>5, <2>7, <2>8, <2>9 DEF FInv
<1> QED
  BY <1>1, <1>2

(* beginNextAccount from there.                                            *)
LEMMA Beginning ==
  ASSUME NEW queue, NEW n, NEW s, Settled(queue, n, s), NEW o, o = outcome',
         storeFailed \in BOOLEAN, BeginNextAccount(o, queue, n, s)
  PROVE  FInv'
<1>1. CASE queue = <<>>
  <2>1. Finish(call, o, n, s) /\ storeFailed' = storeFailed
    BY <1>1 DEF BeginNextAccount, FinishWithoutRun
  <2>2. written' = Answered'
    BY <1>1, NoQueue, EndsOfLedger DEF Settled
  <2>3. SaysTruly(o, n, s.kept, Answered', written', marked', added')
    BY <2>2 DEF SaysTruly, Settled, Marked, Facts
  <2>4. o \in Outcomes
    BY DEF Facts, Settled
  <2>5. overAllAccounts /\ ~stopped' /\ o \in {"Received", "StoreFailed"} =>
          FiguresOf(fate', s, attempted)
    BY DEF Settled
  <2> QED
    BY <2>1, <2>3, <2>4, <2>5, Closing DEF Settled
<1>2. CASE queue # <<>>
  BY <1>2, Starting DEF BeginNextAccount
<1> QED
  BY <1>1, <1>2

-----------------------------------------------------------------------------
(* The session comes back.                                                 *)

(* Nothing is stored yet when it does.                                     *)
LEMMA Returned ==
  ASSUME IInv, FInv, NEW fates \in SUBSET Fates, SessionReturns(fates),
         stopped' \in BOOLEAN, outcome' \in Outcomes
  PROVE  /\ Facts' /\ marked' = Marked(written', stopped') /\ session' = "none"
         /\ written' = {} /\ marked' = {} /\ added' = 0 /\ storedCount = 0
         /\ running = TRUE /\ file' = file /\ (stood' => file # "none")
         /\ overAllAccounts \in BOOLEAN /\ storeFailed \in BOOLEAN /\ retry \in BOOLEAN
         /\ storing = FALSE /\ call["fetch"] = "idle" /\ summary = NoSummary
         /\ attempted \in Count /\ storedBeforeRun \in Count
         /\ report = NoReport \/ report \in Reports
         /\ overAllAccounts => asked = Accounts /\ attempted = MaxAccount
         /\ asked \subseteq Accounts /\ sent' \in [Accounts -> Answers]
         /\ \A a \in Accounts : fate'[a] # "answered" => sent'[a] = "none"
         /\ \A a \in Accounts : a \notin asked => fate'[a] = "none"
         /\ \A a \in asked : fate'[a] \in fates
<1>1. /\ session = "out" /\ UNCHANGED <<file, effects, stood, bounds>>
      /\ sent' \in [Accounts -> Answers]
      /\ \A a \in Accounts : fate'[a] # "answered" => sent'[a] = "none"
      /\ \E f \in [asked -> fates] : fate' = [a \in Accounts |-> IF a \in asked THEN f[a] ELSE "none"]
  BY DEF SessionReturns
<1>2. \A a \in Accounts : a \notin asked => fate'[a] = "none"
  BY <1>1
<1>3. /\ running = TRUE /\ session' = "none" /\ file' = file /\ asked \subseteq Accounts
      /\ call["fetch"] = "idle" /\ \A a \in asked : fate'[a] \in fates
  BY Returning DEF FInv, Flags
<1>4. /\ written = {} /\ added = 0 /\ storedCount = 0 /\ summary = NoSummary
      /\ overAllAccounts => asked = Accounts /\ attempted = MaxAccount
  BY <1>1 DEF FInv, InSession
<1>5. marked = {}
  BY <1>4 DEF FInv, Booked, Marked
<1>6. Facts' /\ marked' = Marked(written', stopped')
  BY <1>1, <1>4, <1>5 DEF FInv, Facts, Marked, effects, bounds
<1>7. storing = FALSE
  BY <1>1 DEF IInv, Placed, FInv, Flags
<1>8. stood' => file # "none"
  BY <1>1, <1>3 DEF FInv, Standing
<1>9. /\ overAllAccounts \in BOOLEAN /\ storeFailed \in BOOLEAN /\ retry \in BOOLEAN
      /\ attempted \in Count /\ storedBeforeRun \in Count
      /\ report = NoReport \/ report \in Reports
  BY DEF FInv, Flags, Figures
<1> QED
  BY <1>1, <1>2, <1>3, <1>4, <1>5, <1>6, <1>7, <1>8, <1>9 DEF effects

(* A session that leaves nothing to store.                                 *)
LEMMA ReturnsEmpty ==
  ASSUME IInv, FInv, IInv', NEW fates \in SUBSET Fates, SessionReturns(fates),
         stopped' \in BOOLEAN, outcome' \in Outcomes,
         NEW o \in {"Skipped", "NotOffered", "Failed", "Aborted"},
         NEW s \in Summaries, s.kept = FALSE, FinishWithoutRun(o, storedCount, s)
  PROVE  FInv'
<1>1. PICK n : n = storedCount
  OBVIOUS
<1>2. Finish(call, o, n, s) /\ storeFailed' = storeFailed
  BY <1>1 DEF FinishWithoutRun
<1>3. /\ written' = {} /\ marked' = {} /\ added' = 0 /\ n = 0
      /\ storeFailed \in BOOLEAN
  BY <1>1, Returned
<1>4. SaysTruly(o, n, s.kept, Answered', written', marked', added')
  BY <1>3 DEF SaysTruly
<1>5. o \in Outcomes /\ n \in Count /\ o \notin {"Received", "StoreFailed"}
  BY <1>3, Counting DEF Outcomes, Count
<1>6. /\ Facts' /\ marked' = Marked(written', stopped') /\ session' = "none"
      /\ overAllAccounts \in BOOLEAN /\ storedBeforeRun \in Count /\ attempted \in Count
  BY Returned
<1> QED
  BY <1>2, <1>3, <1>4, <1>5, <1>6, Closing

(* The counts of a session over all accounts.                              *)
LEMMA CountsAre ==
  ASSUME asked \subseteq Accounts, NEW failed \in SUBSET Accounts
  PROVE  /\ CountsOf(failed) \in Summaries /\ CountsOf(failed).kept = FALSE
         /\ CountsOf(failed).skipped = Cardinality(Became({"offline"}))
         /\ CountsOf(failed).failed = Cardinality(failed)
         /\ CountsOf(failed).notOffered = Cardinality(Became({"notOffered"}))
<1> DEFINE off == Cardinality(Became({"offline"}))
           not == Cardinality(Became({"notOffered"}))
           bad == Cardinality(failed)
<1>1. Became({"offline"}) \in SUBSET Accounts /\ Became({"notOffered"}) \in SUBSET Accounts
  BY DEF Became
<1>2. off \in Count /\ not \in Count /\ bad \in Count
  BY <1>1, Counting
<1>3. CountsOf(failed) = [skipped |-> off, failed |-> bad, notOffered |-> not, kept |-> FALSE]
  BY DEF CountsOf
<1> HIDE DEF off, not, bad
<1>4. [skipped |-> off, failed |-> bad, notOffered |-> not, kept |-> FALSE] \in Summaries
  BY <1>2 DEF Summaries
<1> QED
  BY <1>3, <1>4 DEF off, not, bad

(* A session that brings nothing leaves figures that hold.                 *)
LEMMA EmptyReturnFigures ==
  ASSUME IInv, FInv, IInv', SinglePassedOver \/ SingleFails \/ AllFail
  PROVE  FInv'
<1>1. asked \subseteq Accounts /\ {} \in SUBSET Accounts
  BY DEF IInv, Types
<1>2. summary = NoSummary /\ summary \in Summaries
  <2>1. session = "out"
    BY DEF SinglePassedOver, SingleFails, AllFail, SessionReturns
  <2> QED
    BY <2>1 DEF FInv, InSession, Figures
<1>3. summary.kept = FALSE
  BY <1>2 DEF NoSummary
<1>4. /\ {"offline", "notOffered"} \in SUBSET Fates /\ {"refused", "cut"} \in SUBSET Fates
      /\ {"offline", "notOffered", "cut"} \in SUBSET Fates
  BY DEF Fates
<1>5. CASE SinglePassedOver \/ SingleFails
  <2>1. /\ outcome' \in {"Skipped", "NotOffered", "Failed", "Aborted"} /\ stopped' \in BOOLEAN
        /\ FinishWithoutRun(outcome', storedCount, summary)
        /\ SessionReturns({"offline", "notOffered"}) \/ SessionReturns({"refused", "cut"})
    BY <1>5 DEF SinglePassedOver, SingleFails
  <2>2. outcome' \in Outcomes
    BY <2>1 DEF Outcomes
  <2> QED
    BY <1>2, <1>3, <1>4, <2>1, <2>2, ReturnsEmpty
<1>6. CASE AllFail
  <2>1. /\ outcome' = "Failed" /\ stopped' \in BOOLEAN
        /\ FinishWithoutRun("Failed", storedCount, CountsOf({}))
        /\ SessionReturns({"offline", "notOffered", "cut"})
    BY <1>6 DEF AllFail
  <2>2. CountsOf({}) \in Summaries /\ CountsOf({}).kept = FALSE
    BY <1>1, CountsAre
  <2>3. outcome' \in Outcomes
    BY <2>1 DEF Outcomes
  <2> QED
    BY <1>4, <2>1, <2>2, <2>3, ReturnsEmpty
<1> QED
  BY <1>5, <1>6

(* What came in is settled: the queue is that of the accounts whose orders *)
(* are due.                                                                *)
LEMMA ReturnsSettled ==
  ASSUME IInv, FInv, IInv', NEW fates \in SUBSET Fates, SessionReturns(fates),
         stopped' = FALSE, outcome' = "Received",
         NEW queue \in Seq(Entries), QueueFits(queue, FALSE), Ofs(queue) = Answered',
         NEW n, n = storedCount, NEW s \in Summaries, s.kept = FALSE,
         overAllAccounts => FiguresOf(fate', s, attempted)
  PROVE  Settled(queue, n, s)
<1>1. outcome' \in Outcomes /\ stopped' \in BOOLEAN
  BY DEF Outcomes
<1>2. /\ Facts' /\ marked' = Marked(written', stopped') /\ session' = "none"
      /\ written' = {} /\ added' = 0 /\ storedCount = 0
      /\ running = TRUE /\ file' = file /\ (stood' => file # "none")
      /\ overAllAccounts \in BOOLEAN /\ attempted \in Count /\ storedBeforeRun \in Count
      /\ report = NoReport \/ report \in Reports
  BY <1>1, Returned
<1>3. Ledger(queue, written', Answered')
  BY <1>2, EndsOfLedger
<1>4. n \in Count
  BY <1>2, Counting DEF Count
<1> QED
  BY <1>2, <1>3, <1>4 DEF Settled

(* So does one over an account that brings something,                      *)
LEMMA SingleReceivedFigures ==
  ASSUME IInv, FInv, IInv', SingleReceived
  PROVE  FInv'
<1> DEFINE fates == {"cut", "answered"}
           queue == QueueReceived(asked, sent', TRUE)
<1>1. /\ fates \in SUBSET Fates /\ SessionReturns(fates) /\ ~overAllAccounts
      /\ stopped' \in BOOLEAN /\ outcome' \in {"Received", "Aborted"}
  BY DEF Fates, SingleReceived
<1>2. outcome' \in Outcomes
  BY <1>1 DEF Outcomes
<1>3. /\ sent' \in [Accounts -> Answers] /\ asked \in SUBSET Accounts
      /\ \A a \in asked : fate'[a] \in fates
      /\ \A a \in Accounts : a \notin asked => fate'[a] = "none"
      /\ summary = NoSummary /\ storeFailed \in BOOLEAN
  BY <1>1, <1>2, Returned
<1>4. summary \in Summaries /\ summary.kept = FALSE
  BY <1>3 DEF FInv, Figures, NoSummary
<1>5. CASE StopHeard(stopped')
  <2>1. FinishWithoutRun("Aborted", storedCount, summary)
    BY <1>5 DEF SingleReceived
  <2> QED
    BY <1>1, <1>2, <1>4, <2>1, ReturnsEmpty
<1>6. CASE ~StopHeard(stopped')
  <2>1. /\ stopped' = FALSE /\ Became({"cut"}) = {} /\ outcome' = "Received"
        /\ BeginNextAccount("Received", queue, storedCount, summary)
    BY <1>1, <1>6 DEF StopHeard, SingleReceived
  <2>2. \A a \in asked : fate'[a] = "answered"
    BY <1>3, <2>1 DEF Became
  <2>3. Answered' = asked
    BY <1>3, <2>1, <2>2 DEF Answered, With
  <2>4. /\ queue \in Seq(Entries) /\ QueueFits(queue, ~TRUE)
        /\ Ofs(queue) = {a \in asked : TRUE \/ sent'[a] # "none"}
    BY <1>3, ReceivedFits
  <2>5. Ofs(queue) = Answered' /\ QueueFits(queue, FALSE)
    <3> HIDE DEF queue
    <3> QED
      BY <2>3, <2>4 DEF QueueFits
  <2> HIDE DEF queue, fates
  <2>6. PICK n, s : n = storedCount /\ s = summary
    OBVIOUS
  <2>7. Settled(queue, n, s)
    BY <1>1, <1>4, <2>1, <2>4, <2>5, <2>6, ReturnsSettled
  <2>8. BeginNextAccount("Received", queue, n, s)
    BY <2>1, <2>6
  <2> QED
    BY <1>3, <2>1, <2>7, <2>8, Beginning
<1> QED
  BY <1>5, <1>6

(* and one over all accounts, by the count of their fates.                 *)
LEMMA AllReceivedFigures ==
  ASSUME IInv, FInv, IInv', AllReceived
  PROVE  FInv'
<1> DEFINE fates == {"offline", "notOffered", "refused", "answered"}
           heard == HeardFrom({})
           queue == QueueReceived(heard, sent', TRUE)
           counts == CountsOf(Became({"refused"}))
<1>1. /\ fates \in SUBSET Fates /\ SessionReturns(fates) /\ overAllAccounts
      /\ stopped' = FALSE /\ outcome' = "Received"
      /\ BeginNextAccount("Received", queue, storedCount, counts)
  BY DEF Fates, AllReceived
<1>2. outcome' \in Outcomes /\ stopped' \in BOOLEAN
  BY <1>1 DEF Outcomes
<1>3. /\ sent' \in [Accounts -> Answers] /\ asked = Accounts /\ attempted = MaxAccount
      /\ \A a \in asked : fate'[a] \in fates
      /\ storeFailed \in BOOLEAN
  BY <1>1, <1>2, Returned
<1>4. heard \in SUBSET Accounts /\ heard = {a \in Accounts : fate'[a] = "answered"}
  BY <1>3 DEF HeardFrom, Became
<1>5. Answered' = heard
  BY <1>1, <1>4 DEF Answered, With
<1> HIDE DEF heard
<1>6. queue \in Seq(Entries) /\ QueueFits(queue, FALSE) /\ Ofs(queue) = Answered'
  <2>1. /\ queue \in Seq(Entries) /\ QueueFits(queue, ~TRUE)
        /\ Ofs(queue) = {a \in heard : TRUE \/ sent'[a] # "none"}
    BY <1>3, <1>4, ReceivedFits
  <2> HIDE DEF queue
  <2> QED
    BY <1>5, <2>1 DEF QueueFits
<1>7. /\ counts \in Summaries /\ counts.kept = FALSE /\ FiguresOf(fate', counts, attempted)
  <2>1. \A S : Became(S) = Fated(S, fate')
    BY <1>3 DEF Became, Fated
  <2>2. Became({"refused"}) \in SUBSET Accounts
    BY <1>3 DEF Became
  <2>3. /\ counts \in Summaries /\ counts.kept = FALSE
        /\ counts.skipped = Cardinality(Fated({"offline"}, fate'))
        /\ counts.failed = Cardinality(Fated({"refused"}, fate'))
        /\ counts.notOffered = Cardinality(Fated({"notOffered"}, fate'))
    BY <1>3, <2>1, <2>2, CountsAre
  <2>4. fate' \in [Accounts -> fates]
    <3>1. fate' \in [Accounts -> Fates]
      BY DEF IInv, Types
    <3> QED
      BY <1>3, <3>1
  <2>5. MaxAccount = Cardinality(Fated({"answered"}, fate')) + Cardinality(Fated({"offline"}, fate'))
                     + Cardinality(Fated({"refused"}, fate'))
                     + Cardinality(Fated({"notOffered"}, fate'))
    BY <2>4, FourFates
  <2> HIDE DEF counts
  <2> QED
    BY <1>3, <2>3, <2>5 DEF FiguresOf
<1> HIDE DEF queue, fates, counts
<1>8. PICK n, s : n = storedCount /\ s = counts
  OBVIOUS
<1>9. Settled(queue, n, s)
  BY <1>1, <1>6, <1>7, <1>8, ReturnsSettled
<1>10. BeginNextAccount("Received", queue, n, s)
  BY <1>1, <1>8
<1> QED
  BY <1>1, <1>3, <1>9, <1>10, Beginning

(* Stopped: what came in waits, and nothing is done before the answer.     *)
LEMMA AllAbortedFigures ==
  ASSUME IInv, FInv, IInv', AllAborted
  PROVE  FInv'
<1> DEFINE fates == {"offline", "notOffered", "refused", "cut", "answered"}
           counts == CountsOf({})
<1>1. /\ fates \in SUBSET Fates /\ SessionReturns(fates) /\ overAllAccounts /\ stopped' = TRUE
      /\ outcome' = "Aborted"
  BY DEF Fates, AllAborted, StopHeard
<1>2. outcome' \in Outcomes /\ stopped' \in BOOLEAN
  BY <1>1 DEF Outcomes
<1>3. /\ Facts' /\ marked' = Marked(written', stopped') /\ session' = "none"
      /\ written' = {} /\ added' = 0 /\ storedCount = 0 /\ running = TRUE /\ file' = file
      /\ (stood' => file # "none") /\ overAllAccounts \in BOOLEAN /\ storeFailed \in BOOLEAN
      /\ retry \in BOOLEAN /\ storing = FALSE /\ call["fetch"] = "idle"
      /\ attempted \in Count /\ storedBeforeRun \in Count
      /\ report = NoReport \/ report \in Reports
      /\ asked = Accounts /\ sent' \in [Accounts -> Answers]
      /\ \A a \in Accounts : fate'[a] # "answered" => sent'[a] = "none"
      /\ \A a \in Accounts : fate'[a] \in fates
  BY <1>1, <1>2, Returned
<1>4. counts \in Summaries /\ counts.kept = FALSE
  <2>1. asked \subseteq Accounts /\ {} \in SUBSET Accounts
    BY <1>3
  <2> QED
    BY <2>1, CountsAre
<1>5. PICK smoothed \in BOOLEAN, flagged \in SUBSET Became({"cut"}) :
        LET heard == HeardFrom(flagged)
            queue == IF smoothed THEN QueueReceived(heard, sent', FALSE) ELSE <<>>
        IN  IF queue = <<>> THEN FinishWithoutRun("Aborted", storedCount, counts)
            ELSE /\ pending' = queue /\ summary' = counts /\ waitingForAbortAnswer' = TRUE
                 /\ UNCHANGED <<call, working, running, overAllAccounts, asked, counting,
                                retry, attempted, report>>
  BY DEF AllAborted, StopHeard
<1> DEFINE heard == HeardFrom(flagged)
           queue == IF smoothed THEN QueueReceived(heard, sent', FALSE) ELSE <<>>
<1>6. CASE FinishWithoutRun("Aborted", storedCount, counts)
  <2> HIDE DEF fates, counts
  <2> QED
    BY <1>1, <1>2, <1>4, <1>6, ReturnsEmpty
<1>7. CASE /\ smoothed /\ pending' = QueueReceived(heard, sent', FALSE)
           /\ summary' = counts /\ waitingForAbortAnswer' = TRUE
           /\ UNCHANGED <<call, working, running, overAllAccounts, asked, counting,
                          retry, attempted, report>>
  <2>1. heard \in SUBSET Accounts
    BY <1>3 DEF HeardFrom
  <2>2. Answered' = {a \in heard : FALSE \/ sent'[a] # "none"}
    <3>1. \A a \in Accounts : fate'[a] = "answered" => a \in heard
      BY <1>3 DEF HeardFrom, Became
    <3> HIDE DEF heard
    <3> QED
      BY <1>1, <1>3, <2>1, <3>1 DEF Answered, With
  <2> HIDE DEF heard
  <2>3. PICK q : q = QueueReceived(heard, sent', FALSE)
    OBVIOUS
  <2>4. q \in Seq(Entries) /\ QueueFits(q, ~FALSE) /\ Ofs(q) = Answered'
    BY <1>3, <2>1, <2>2, <2>3, ReceivedFits
  <2>5. QueueFits(pending, stopped)'
    BY <1>1, <1>7, <2>3, <2>4 DEF QueueFits
  <2>6. Ledger(pending, written, Answered)'
    <3>1. Ledger(q, {}, Answered')
      BY <2>4, EndsOfLedger
    <3> QED
      BY <1>3, <1>7, <2>3, <3>1 DEF Ledger, Ofs
  <2>7. /\ call'["fetch"] = "idle" /\ storedCount' = 0 /\ storedBeforeRun' = storedBeforeRun
        /\ storing' = storing /\ storeFailed' = storeFailed
    BY <1>3, <1>7 DEF counting
  <2>8. Flags' /\ Figures'
    <3> HIDE DEF counts
    <3>1. 0 \in Count
      BY Counting DEF Count
    <3> QED
      BY <1>3, <1>4, <1>7, <2>7, <3>1 DEF Flags, Figures
  <2>9. Booked' /\ Gone'
    BY <1>3, <2>6, <2>7
       DEF Booked, BetweenRuns, RunBooked, EndBooked, Gone, Contract!UnderWay
  <2>10. InSession' /\ Standing' /\ OutcomeFits' /\ FiguresKept'
    <3> HIDE DEF counts
    <3> QED
      BY <1>1, <1>3, <1>4, <1>7 DEF InSession, Standing, OutcomeFits, FiguresKept
  <2>11. TellsTheTruth' /\ FiguresAddUp'
    BY <1>3, <1>7 DEF TellsTheTruth, FiguresAddUp, Over
  <2> QED
    BY <1>3, <2>5, <2>8, <2>9, <2>10, <2>11 DEF FInv
<1> QED
  BY <1>5, <1>6, <1>7

-----------------------------------------------------------------------------
(* The other steps.                                                        *)

(* A step that leaves the fetch and its books alone.                       *)
LEMMA BooksAlone ==
  ASSUME IInv, FInv, UNCHANGED <<fetch, fate, stopped, sent, effects, fetches>>,
         setups' \in 0..MaxSetups, falls' \in 0..MaxFalls,
         stood' \in BOOLEAN, stood' => stood, stood' /\ running => file' # "none",
         \/ call'["fetch"] = call["fetch"]
         \/ call["fetch"] = "out" /\ call'["fetch"] = "stale",
         working' = working \/ call["fetch"] = "idle",
         call'["fetch"] \in {"stale", "silent"} => file' = "none"
  PROVE  FInv'
<1>1. /\ UNCHANGED <<running, overAllAccounts, session, asked, outcome, storing, storeFailed,
                     storedCount, storedBeforeRun, pending, retry, waitingForAbortAnswer,
                     attempted, summary, report, fate, stopped, sent, written, marked, added,
                     fetches>>
  BY DEF fetch, progress, counting, effects
<1>2. Answered' = Answered
  BY <1>1 DEF Answered, With
<1>3. Facts' /\ Flags' /\ Figures' /\ QueueFits(pending, stopped)'
  BY <1>1 DEF FInv, Facts, Flags, Figures, QueueFits
<1>4. Gone' /\ InSession' /\ Standing' /\ OutcomeFits' /\ FiguresKept'
  BY <1>1 DEF FInv, Gone, InSession, Standing, OutcomeFits, FiguresKept
<1>5. /\ call["fetch"] = "idle" <=> call'["fetch"] = "idle"
      /\ call["fetch"] \in Contract!UnderWay <=> call'["fetch"] \in Contract!UnderWay
      /\ \A kind \in Contract!Told : call["fetch"] = kind <=> call'["fetch"] = kind
  BY DEF Contract!UnderWay, Contract!Told
<1>6. /\ Ledger(pending, written, Answered)' <=> Ledger(pending, written, Answered)
      /\ Ledger(Tail(pending), written, Answered)' <=> Ledger(Tail(pending), written, Answered)
  BY <1>1, <1>2 DEF Ledger, Ofs
<1>7. Booked'
  <2>1. BetweenRuns' /\ marked' = Marked(written', stopped')
    BY <1>1, <1>5, <1>6 DEF FInv, Booked, BetweenRuns, Marked
  <2>2. call'["fetch"] \in Contract!UnderWay => working' = working
    BY <1>5 DEF Contract!UnderWay
  <2>3. RunBooked'
    BY <1>1, <1>5, <1>6, <2>2 DEF FInv, Booked, RunBooked, Fresh
  <2>4. EndBooked'
    BY <1>1, <1>5, <1>6 DEF FInv, Booked, EndBooked, Contract!Told
  <2> QED
    BY <2>1, <2>3, <2>4 DEF Booked
<1>8. TellsTheTruth'
  BY <1>1, <1>2 DEF FInv, TellsTheTruth, Over
<1>9. FiguresAddUp'
  BY <1>1 DEF FInv, FiguresAddUp, Over, With
<1> QED
  BY <1>3, <1>4, <1>7, <1>8, <1>9 DEF FInv

(* A vault that opens or falls takes no figure with it.                    *)
LEMMA SwitchFigures ==
  ASSUME IInv, FInv, OpenVault \/ VaultFalls
  PROVE  FInv'
<1>1. /\ UNCHANGED <<working, fetch, fate, stopped, sent, effects, fetches, setups>>
      /\ call' = [c \in Writers |-> IF call[c] = "out" THEN "stale" ELSE call[c]]
      /\ \A c \in Writers : call[c] \notin Contract!Told
  BY WritersAre
     DEF OpenVault, VaultFalls, Contract!Switch, Contract!Callers, truth, bounds, InEventLoop
<1>2. /\ setups \in 0..MaxSetups /\ falls \in 0..MaxFalls /\ stood \in BOOLEAN
      /\ fetches \in 0..MaxFetches
  BY DEF FInv, Facts
<1>3. call'["fetch"] = call["fetch"] \/ (call["fetch"] = "out" /\ call'["fetch"] = "stale")
  BY <1>1, WritersAre
<1>4. CASE OpenVault
  <2>1. ~running /\ stood' = stood /\ falls' = falls
    BY <1>4 DEF OpenVault, truth, bounds
  <2>2. call["fetch"] = "idle"
    BY <2>1 DEF IInv, Placed, StoringIsOwn
  <2> QED
    BY <1>1, <1>2, <1>3, <2>1, <2>2, BooksAlone
<1>5. CASE VaultFalls
  <2>1. /\ file' = "none" /\ stood' = (stood /\ ~running) /\ falls' = falls + 1 /\ falls < MaxFalls
    BY <1>5 DEF VaultFalls, Contract!Switch
  <2>2. running \in BOOLEAN /\ MaxFalls \in Nat
    BY FetchAssumption DEF FInv, Flags
  <2>3. falls' \in 0..MaxFalls
    BY <1>2, <2>1, <2>2
  <2> QED
    BY <1>1, <1>2, <1>3, <2>1, <2>2, <2>3, BooksAlone
<1> QED
  BY <1>4, <1>5

(* A run of the wizard is none of the fetch.                               *)
LEMMA WizardFigures ==
  ASSUME IInv, FInv, WizardStores
  PROVE  FInv'
<1>1. /\ UNCHANGED <<file, fetch, fate, stopped, sent, effects, stood, fetches, falls>>
      /\ setups' = setups + 1 /\ setups < MaxSetups /\ ~running
      /\ call' = [call EXCEPT !["wizard"] = "out"]
  BY DEF WizardStores, Contract!Accept, truth
<1>2. call["fetch"] = "idle" /\ call'["fetch"] = "idle"
  <2>1. call["fetch"] = "idle" /\ call \in Calls
    BY <1>1 DEF IInv, Types, Placed, StoringIsOwn
  <2> QED
    BY <1>1, <2>1, WritersAre DEF Calls
<1>3. setups' \in 0..MaxSetups
  BY <1>1, FetchAssumption DEF FInv, Facts
<1> QED
  BY <1>1, <1>2, <1>3, BooksAlone DEF FInv, Facts

(* A fetch begins with figures of its own.                                 *)
LEMMA BeginsFigures ==
  ASSUME IInv, FInv, NEW all \in BOOLEAN, NEW S \in SUBSET Accounts, NEW up \in BOOLEAN,
         all => S = Accounts, Begins(all, S, up)
  PROVE  FInv'
<1>1. /\ running' = TRUE /\ overAllAccounts' = all /\ outcome' = "Received"
      /\ session' = (IF up THEN "out" ELSE "doomed") /\ asked' = (IF all /\ ~up THEN {} ELSE S)
      /\ attempted' = IF all /\ up THEN Cardinality(S) ELSE 0
      /\ storedCount' = 0 /\ summary' = NoSummary /\ pending' = <<>> /\ report' = NoReport
      /\ stopped' = FALSE /\ sent' = [a \in Accounts |-> "none"]
      /\ written' = {} /\ marked' = {} /\ added' = 0 /\ stood' = TRUE
      /\ fetches' = fetches + 1 /\ fetches < MaxFetches /\ file # "none" /\ ~running
      /\ UNCHANGED <<file, call, working, storing, storeFailed, storedBeforeRun, retry,
                     waitingForAbortAnswer, setups, falls>>
  BY DEF Begins, storage
<1>2. call["fetch"] = "idle"
  BY <1>1 DEF IInv, Placed, StoringIsOwn
<1>3. 0 \in Count /\ Cardinality(S) \in Count /\ Cardinality(Accounts) = MaxAccount
  BY Counting DEF Count
<1>4. Facts'
  <2>1. Cardinality({}) = 0 /\ "Received" \in Outcomes /\ "none" \in Answers
    BY FS_EmptySet DEF Outcomes, Answers
  <2>2. fetches' \in 0..MaxFetches
    BY <1>1, FetchAssumption DEF FInv, Facts
  <2>3. sent' \in [Accounts -> Answers]
    BY <1>1, <2>1
  <2>4. setups' \in 0..MaxSetups /\ falls' \in 0..MaxFalls
    BY <1>1 DEF FInv, Facts
  <2>5. stopped' \in BOOLEAN /\ stood' \in BOOLEAN /\ outcome' \in Outcomes
    BY <1>1, <2>1
  <2>6. /\ written' \subseteq Accounts /\ marked' \subseteq Accounts
        /\ added' \in Nat /\ added' <= Cardinality(written')
    BY <1>1, <2>1
  <2> QED
    BY <2>2, <2>3, <2>4, <2>5, <2>6 DEF Facts
<1>5. Flags'
  BY <1>1 DEF FInv, Flags
<1>6. Figures'
  <2>1. NoSummary \in Summaries
    BY <1>3 DEF NoSummary, Summaries
  <2> QED
    BY <1>1, <1>3, <2>1 DEF FInv, Figures
<1>7. QueueFits(pending, stopped)'
  <2>1. QueueFits(<<>>, FALSE)
    BY NoQueue, EndsOfLedger
  <2> QED
    BY <1>1, <2>1 DEF QueueFits
<1>8. Booked' /\ Gone'
  BY <1>1, <1>2
     DEF Booked, BetweenRuns, RunBooked, EndBooked, Marked, Gone, Contract!UnderWay
<1>9. InSession' /\ Standing' /\ OutcomeFits' /\ FiguresKept'
  BY <1>1, <1>3 DEF InSession, Standing, OutcomeFits, FiguresKept
<1>10. TellsTheTruth' /\ FiguresAddUp'
  BY <1>1 DEF TellsTheTruth, FiguresAddUp, Over
<1> QED
  BY <1>4, <1>5, <1>6, <1>7, <1>8, <1>9, <1>10 DEF FInv

(* Between its runs a fetch stands settled over its queue.                 *)
LEMMA SettledBetween ==
  ASSUME IInv, FInv, IInv', running, session = "none", session' = "none",
         call["fetch"] = "idle",
         UNCHANGED <<file, outcome, fate, stopped, sent, effects, stood, bounds>>,
         NEW n, n = storedCount, NEW s \in Summaries, stopped <=> s.kept = TRUE,
         s.skipped = summary.skipped, s.failed = summary.failed,
         s.notOffered = summary.notOffered
  PROVE  Settled(pending, n, s)
<1>1. UNCHANGED <<written, marked, added, fetches, setups, falls>>
  BY DEF effects, bounds
<1>2. Answered' = Answered
  BY DEF Answered, With
<1>3. Facts' /\ marked' = Marked(written', stopped')
  BY <1>1 DEF FInv, Facts, Booked, Marked
<1>4. Ledger(pending, written', Answered') /\ added' = n
  BY <1>1, <1>2 DEF FInv, Booked, BetweenRuns
<1>5. /\ running = TRUE /\ overAllAccounts \in BOOLEAN /\ (stood' => file # "none")
      /\ n \in Count /\ attempted \in Count /\ storedBeforeRun \in Count
      /\ report = NoReport \/ report \in Reports
  BY DEF FInv, Flags, Figures, Standing
<1>6. outcome' \in {"Received", "Aborted"} /\ (outcome' = "Aborted" <=> stopped')
  BY DEF FInv, OutcomeFits
<1>7. overAllAccounts /\ ~stopped' => FiguresOf(fate', s, attempted)
  BY DEF FInv, FiguresKept, FiguresOf
<1>8. pending \in Seq(Entries) /\ QueueFits(pending, stopped')
  BY DEF FInv, IInv, Types
<1> QED
  BY <1>3, <1>4, <1>5, <1>6, <1>7, <1>8 DEF Settled

(* A run that is asked for again starts where it was due.                  *)
LEMMA RetryFigures ==
  ASSUME IInv, FInv, IInv', RetryFires
  PROVE  FInv'
<1>1. /\ retry /\ StartStoring(call, pending, storedCount, summary)
      /\ UNCHANGED <<file, session, outcome, fate, stopped, sent, effects, stood, bounds>>
  BY DEF RetryFires, truth
<1>2. /\ running /\ session = "none" /\ call["fetch"] = "idle" /\ ~waitingForAbortAnswer
      /\ pending # <<>>
  BY <1>1 DEF IInv, Types, Placed, StoringIsOwn
<1>3. PICK n, s : n = storedCount /\ s = summary
  OBVIOUS
<1>4. s \in Summaries /\ (stopped <=> s.kept = TRUE)
  BY <1>2, <1>3 DEF FInv, Figures, OutcomeFits
<1>5. Settled(pending, n, s)
  BY <1>1, <1>2, <1>3, <1>4, SettledBetween
<1>6. StartStoring(call, pending, n, s)
  BY <1>1, <1>3
<1> QED
  BY <1>2, <1>5, <1>6, Starting

(* The answer to a question is what the summary says.                      *)
LEMMA AnswerFigures ==
  ASSUME IInv, FInv, IInv', NEW keep \in BOOLEAN, AnswerAbort(keep)
  PROVE  FInv'
<1>1. /\ waitingForAbortAnswer
      /\ UNCHANGED <<file, session, outcome, fate, stopped, sent, effects, stood, bounds>>
  BY DEF AnswerAbort, truth
<1>2. running /\ session = "none" /\ call["fetch"] = "idle"
  BY <1>1 DEF IInv, Types, Placed, StoringIsOwn
<1>3. /\ stopped /\ written = {} /\ outcome = "Aborted" /\ summary \in Summaries
      /\ storeFailed \in BOOLEAN /\ stopped \in BOOLEAN
  BY <1>1, <1>2 DEF FInv, OutcomeFits, Figures, Flags, Facts
<1>4. PICK n, s : n = storedCount /\ s = [summary EXCEPT !.kept = keep]
  OBVIOUS
<1>5. /\ s \in Summaries /\ s.kept = keep /\ s.skipped = summary.skipped
      /\ s.failed = summary.failed /\ s.notOffered = summary.notOffered
  <2>1. s \in Summaries
    BY ONLY <1>3, <1>4, keep \in BOOLEAN, Zenon DEF Summaries
  <2>2. summary \in [skipped : Count, failed : Count, notOffered : Count, kept : BOOLEAN]
    BY <1>3 DEF Summaries
  <2> QED
    BY <1>4, <2>1, <2>2
<1>6. CASE keep = TRUE
  <2>1. Settled(pending, n, s)
    BY <1>1, <1>2, <1>3, <1>4, <1>5, <1>6, SettledBetween
  <2>2. BeginNextAccount("Aborted", pending, n, s) /\ outcome' = "Aborted"
    BY <1>1, <1>3, <1>4, <1>6 DEF AnswerAbort
  <2> QED
    BY <1>3, <2>1, <2>2, Beginning
<1>7. CASE keep = FALSE
  <2>1. Finish(call, "Aborted", n, s) /\ storeFailed' = storeFailed
    BY <1>4, <1>7 DEF AnswerAbort, FinishWithoutRun
  <2>2. added = n /\ marked = Marked(written, stopped)
    BY <1>2, <1>4 DEF FInv, Booked, BetweenRuns
  <2>3. UNCHANGED <<written, marked, added, fetches, setups, falls>>
    BY <1>1 DEF effects, bounds
  <2>4. Facts' /\ marked' = Marked(written', stopped')
    BY <1>1, <2>2, <2>3 DEF FInv, Facts, Marked
  <2>5. SaysTruly("Aborted", n, s.kept, Answered', written', marked', added')
    BY <1>3, <1>5, <1>7, <2>2, <2>3 DEF SaysTruly, Marked
  <2>6. /\ n \in Count /\ attempted \in Count /\ storedBeforeRun \in Count
        /\ overAllAccounts \in BOOLEAN /\ "Aborted" \in Outcomes
    BY <1>4 DEF FInv, Figures, Flags, Outcomes
  <2> QED
    BY <1>1, <1>2, <1>3, <1>5, <2>1, <2>4, <2>5, <2>6, Closing
<1> QED
  BY <1>6, <1>7

(* A session that could not start has nothing to report.                   *)
LEMMA FailFigures ==
  ASSUME IInv, FInv, IInv', FailLater
  PROVE  FInv'
<1>1. /\ session = "doomed" /\ session' = "none"
      /\ UNCHANGED <<outcome, fate, stopped, sent, effects, stood, bounds>>
      /\ FinishWithoutRun("Failed", storedCount, summary)
  BY DEF FailLater, truth
<1>2. PICK n, s : n = storedCount /\ s = summary
  OBVIOUS
<1>3. written = {} /\ added = 0 /\ n = 0
  BY <1>1, <1>2 DEF FInv, InSession
<1>4. UNCHANGED <<written, marked, added, fetches, setups, falls>>
  BY <1>1 DEF effects, bounds
<1>5. Finish(call, "Failed", n, s) /\ storeFailed' = storeFailed
  BY <1>1, <1>2 DEF FinishWithoutRun
<1>6. Facts' /\ marked' = Marked(written', stopped')
  BY <1>1, <1>4 DEF FInv, Facts, Booked, Marked
<1>7. SaysTruly("Failed", n, s.kept, Answered', written', marked', added')
  BY <1>3, <1>4 DEF SaysTruly
<1>8. /\ n \in Count /\ s \in Summaries /\ attempted \in Count /\ storedBeforeRun \in Count
      /\ overAllAccounts \in BOOLEAN /\ "Failed" \in Outcomes /\ storeFailed \in BOOLEAN
  BY <1>2 DEF FInv, Figures, Flags, Outcomes
<1> QED
  BY <1>1, <1>5, <1>6, <1>7, <1>8, Closing

(* The run in its thread: the account at the head is done, or it is not.   *)
LEMMA WorkFigures ==
  ASSUME IInv, FInv, IInv', Work
  PROVE  FInv'
<1>1. /\ working = "busy" /\ working' \in {"good", "bad"}
      /\ UNCHANGED <<file, call, fetch, fate, stopped, sent, stood, bounds>>
  BY DEF Work
<1>2. /\ UNCHANGED <<running, overAllAccounts, session, asked, outcome, storing, storeFailed,
                     storedCount, storedBeforeRun, pending, retry, waitingForAbortAnswer,
                     attempted, summary, report, fetches, setups, falls>>
      /\ Answered' = Answered
  BY <1>1 DEF fetch, progress, counting, bounds, Answered, With
<1>3. CASE call["fetch"] \notin Contract!UnderWay
  <2>1. UNCHANGED effects
    BY <1>3 DEF Work
  <2>2. UNCHANGED <<written, marked, added>>
    BY <2>1 DEF effects
  <2>3. Facts' /\ Flags' /\ Figures' /\ QueueFits(pending, stopped)'
    BY <1>1, <1>2, <2>2 DEF FInv, Facts, Flags, Figures, QueueFits
  <2>4. Gone' /\ InSession' /\ Standing' /\ OutcomeFits' /\ FiguresKept'
    BY <1>1, <1>2, <2>2 DEF FInv, Gone, InSession, Standing, OutcomeFits, FiguresKept
  <2>5. /\ Ledger(pending, written, Answered)' <=> Ledger(pending, written, Answered)
        /\ Ledger(Tail(pending), written, Answered)' <=> Ledger(Tail(pending), written, Answered)
    BY <1>2, <2>2 DEF Ledger, Ofs
  <2>6. Booked'
    BY <1>1, <1>2, <1>3, <2>2, <2>5
       DEF FInv, Booked, BetweenRuns, RunBooked, EndBooked, Marked
  <2>7. TellsTheTruth' /\ FiguresAddUp'
    BY <1>1, <1>2, <2>2 DEF FInv, TellsTheTruth, FiguresAddUp, Over, With
  <2> QED
    BY <2>3, <2>4, <2>6, <2>7 DEF FInv
<1>4. CASE call["fetch"] \in Contract!UnderWay
  <2> DEFINE h == Head(pending)
             good == working' = "good"
  <2>1. /\ storing /\ running /\ session = "none" /\ ~waitingForAbortAnswer /\ pending # <<>>
        /\ pending \in Seq(Entries)
    BY <1>4 DEF IInv, Types, Placed, StoringIsOwn, Contract!UnderWay
  <2>2. /\ Ledger(pending, written, Answered) /\ added = storedBeforeRun
        /\ storedCount = storedBeforeRun /\ storeFailed = FALSE
        /\ marked = Marked(written, stopped)
    BY <1>1, <1>4 DEF FInv, Booked, RunBooked
  <2>3. /\ written \in SUBSET Accounts /\ marked \in SUBSET Accounts /\ QueueFits(pending, stopped)
        /\ added \in Nat /\ added <= Cardinality(written) /\ stopped \in BOOLEAN
    BY DEF FInv, Facts
  <2>4. h \in Entries /\ h.succeeded = ~stopped
    BY <2>1, <2>3, HeadAndTail
  <2>5. /\ Ledger(Tail(pending), written \cup {h.of}, Answered) /\ h.of \in Accounts \ written
    BY <2>1, <2>2, <2>3, Advance
  <2>6. /\ good => /\ written' = written \cup {h.of} /\ added' = added + Fresh(h.orders)
                   /\ marked' = IF h.succeeded THEN marked \cup {h.of} ELSE marked
        /\ ~good => UNCHANGED <<written, marked, added>>
    BY <1>4 DEF Work, effects
  <2> HIDE DEF h, good
  <2>7. Fresh(h.orders) \in 0..1
    BY DEF Fresh
  <2>8. Facts'
    <3>1. CASE good
      <4>1. IsFiniteSet(written) /\ Cardinality(written) \in Nat
        BY <2>3, Counting, FS_CardinalityType
      <4>2. Cardinality(written') = Cardinality(written) + 1
        BY <2>5, <2>6, <3>1, <4>1, FS_AddElement
      <4>3. added' \in Nat /\ added' <= Cardinality(written')
        BY <2>3, <2>6, <2>7, <3>1, <4>1, <4>2
      <4>4. written' \subseteq Accounts /\ marked' \subseteq Accounts
        BY <2>3, <2>5, <2>6, <3>1
      <4> QED
        BY <1>1, <1>2, <4>3, <4>4 DEF FInv, Facts
    <3>2. CASE ~good
      BY <1>1, <1>2, <2>6, <3>2 DEF FInv, Facts
    <3> QED
      BY <3>1, <3>2
  <2>9. marked' = Marked(written', stopped')
    BY <1>1, <2>2, <2>3, <2>4, <2>6 DEF Marked
  <2>10. /\ good => Ledger(Tail(pending'), written', Answered') /\ added' = added + Fresh(h.orders)
         /\ ~good => Ledger(pending', written', Answered') /\ added' = added
    BY <1>2, <2>2, <2>5, <2>6
  <2>11. Booked'
    <3>1. RunBooked'
      <4>1. CASE good
        <5>1. Ledger(Tail(pending), written, Answered)'
          BY <2>10, <4>1 DEF Ledger, Ofs
        <5>2. added' = storedBeforeRun' + Fresh(Head(pending').orders)
          BY <1>2, <2>2, <2>10, <4>1 DEF h
        <5> QED
          BY <1>2, <2>2, <4>1, <5>1, <5>2 DEF RunBooked, Fresh, good
      <4>2. CASE ~good
        <5>1. Ledger(pending, written, Answered)'
          BY <2>10, <4>2 DEF Ledger, Ofs
        <5> QED
          BY <1>2, <2>2, <2>10, <4>2, <5>1 DEF RunBooked, good
      <4> QED
        BY <4>1, <4>2
    <3>2. BetweenRuns' /\ EndBooked'
      BY <1>1, <1>4 DEF BetweenRuns, EndBooked, Contract!UnderWay
    <3> QED
      BY <2>9, <3>1, <3>2 DEF Booked
  <2>12. Flags' /\ Figures' /\ QueueFits(pending, stopped)'
    BY <1>1, <1>2 DEF FInv, Flags, Figures, QueueFits
  <2>13. Gone' /\ InSession' /\ Standing' /\ OutcomeFits' /\ FiguresKept'
    BY <1>1, <1>2, <2>1 DEF FInv, Gone, InSession, Standing, OutcomeFits, FiguresKept
  <2>14. TellsTheTruth' /\ FiguresAddUp'
    BY <1>2, <2>1 DEF TellsTheTruth, FiguresAddUp, Over
  <2> QED
    BY <2>8, <2>11, <2>12, <2>13, <2>14 DEF FInv
<1> QED
  BY <1>3, <1>4

(* The end of the own run is told, with what it counted.                   *)
LEMMA HandOnFigures ==
  ASSUME IInv, FInv, IInv', NEW c \in Writers, HandOn(c)
  PROVE  FInv'
<1>1. /\ call[c] \in Contract!UnderWay /\ working \in {"good", "bad"} /\ working' = "none"
      /\ call' = [call EXCEPT ![c] = IF call[c] = "stale" THEN "silent"
                                     ELSE IF working = "good" THEN "result" ELSE "failed"]
      /\ storeFailed' = (storeFailed \/ (storing /\ call'[c] = "failed"))
      /\ storedCount' =
           IF call'[c] = "silent" THEN storedCount
           ELSE TakeStoredCount(IF call'[c] = "result" /\ c = "fetch"
                                THEN Fresh(Head(pending).orders) ELSE 0)
      /\ UNCHANGED <<file, running, overAllAccounts, session, asked, outcome, storing,
                     storedBeforeRun, pending, retry, waitingForAbortAnswer, attempted, summary,
                     report, truth, bounds>>
  BY DEF HandOn
<1>2. /\ UNCHANGED <<fate, stopped, sent, written, marked, added, stood, fetches, setups, falls>>
      /\ Answered' = Answered
  BY <1>1 DEF truth, effects, bounds, Answered, With
<1>3. call \in Calls /\ Single(call)
  BY DEF IInv, Types
<1>4. call'[c] = IF call[c] = "stale" THEN "silent" ELSE IF working = "good" THEN "result" ELSE "failed"
  BY <1>1, <1>3 DEF Calls
<1>5. /\ Ledger(pending, written, Answered)' <=> Ledger(pending, written, Answered)
      /\ Ledger(Tail(pending), written, Answered)' <=> Ledger(Tail(pending), written, Answered)
      /\ QueueFits(pending, stopped)' <=> QueueFits(pending, stopped)
  BY <1>1, <1>2 DEF Ledger, Ofs, QueueFits
<1>6. Facts' /\ QueueFits(pending, stopped)' /\ marked' = Marked(written', stopped')
  BY <1>1, <1>2, <1>5 DEF FInv, Facts, Booked, Marked
<1>7. /\ storedCount' = storedCount \/ running
      /\ storedCount' = storedCount \/ storing
  BY <1>1 DEF TakeStoredCount, IInv, Placed
<1>8. storing => running /\ session = "none" /\ ~waitingForAbortAnswer
  BY DEF IInv, Types, Placed
<1>9. InSession' /\ Standing' /\ OutcomeFits' /\ FiguresKept'
  BY <1>1, <1>2, <1>7, <1>8 DEF FInv, InSession, Standing, OutcomeFits, FiguresKept
<1>10. TellsTheTruth' /\ FiguresAddUp'
  BY <1>1, <1>2 DEF FInv, TellsTheTruth, FiguresAddUp, Over, With
<1>11. CASE c = "wizard"
  <2>1. call["fetch"] = "idle" /\ call'["fetch"] = "idle"
    BY <1>1, <1>3, <1>11, WritersAre DEF Calls, Single, Contract!UnderWay
  <2>2. ~storing
    BY <2>1 DEF IInv, StoringIsOwn
  <2>3. storedCount' = storedCount /\ storeFailed' = storeFailed
    BY <1>1, <2>2 DEF TakeStoredCount, FInv, Flags
  <2>4. Flags' /\ Figures'
    BY <1>1, <2>3 DEF FInv, Flags, Figures
  <2>5. Booked' /\ Gone'
    BY <1>1, <1>2, <1>5, <1>6, <2>1, <2>3
       DEF FInv, Booked, BetweenRuns, RunBooked, EndBooked, Gone, Contract!UnderWay
  <2> QED
    BY <1>6, <1>9, <1>10, <2>4, <2>5 DEF FInv
<1>12. CASE c = "fetch"
  <2>1. storing
    BY <1>1, <1>12 DEF IInv, StoringIsOwn, Contract!UnderWay
  <2>2. /\ storedCount = storedBeforeRun /\ storeFailed = FALSE
        /\ working = "good" => /\ Ledger(Tail(pending), written, Answered)
                               /\ added = storedBeforeRun + Fresh(Head(pending).orders)
        /\ working # "good" => Ledger(pending, written, Answered) /\ added = storedBeforeRun
        /\ call["fetch"] = "stale" => file = "none"
    BY <1>1, <1>12 DEF FInv, Booked, RunBooked, Gone
  <2>3. call'["fetch"] = IF call["fetch"] = "stale" THEN "silent"
                         ELSE IF working = "good" THEN "result" ELSE "failed"
    BY <1>4, <1>12
  <2>4. storedBeforeRun \in Count /\ added \in Count /\ storedBeforeRun \in Nat
    <3>1. Cardinality(written) \in Count /\ added \in Nat /\ added <= Cardinality(written)
      BY Counting DEF FInv, Facts
    <3> QED
      BY <3>1, Counting DEF FInv, Figures, Count
  <2>5. storeFailed' = (storeFailed \/ (storing /\ call'["fetch"] = "failed"))
    BY <1>1, <1>12
  <2>6. storeFailed' = (call'["fetch"] = "failed")
    BY <2>1, <2>2, <2>5, Zenon
  <2>7. storedCount' = IF call'["fetch"] = "silent" THEN storedCount
                        ELSE storedBeforeRun + (IF call'["fetch"] = "result"
                                                THEN Fresh(Head(pending).orders) ELSE 0)
    <3>1. storedCount' =
            IF call'["fetch"] = "silent" THEN storedCount
            ELSE TakeStoredCount(IF call'["fetch"] = "result" THEN Fresh(Head(pending).orders)
                                 ELSE 0)
      BY <1>1, <1>12
    <3>2. \A n : TakeStoredCount(n) = storedBeforeRun + n
      BY <2>1 DEF TakeStoredCount
    <3> QED
      BY <3>1, <3>2
  <2>8. CASE call'["fetch"] = "result"
    <3>1. /\ working = "good" /\ storeFailed' = FALSE
          /\ storedCount' = storedBeforeRun + Fresh(Head(pending).orders)
      BY <2>3, <2>6, <2>7, <2>8
    <3>2. storedCount' = added /\ storedCount' \in Count
      BY <2>2, <2>4, <3>1
    <3>3. Flags' /\ Figures'
      BY <1>1, <3>1, <3>2 DEF FInv, Flags, Figures
    <3>4. Booked' /\ Gone'
      BY <1>2, <1>5, <1>6, <2>2, <2>8, <3>1, <3>2
         DEF Booked, BetweenRuns, RunBooked, EndBooked, Gone, Contract!UnderWay
    <3> QED
      BY <1>6, <1>9, <1>10, <3>3, <3>4 DEF FInv
  <2>9. CASE call'["fetch"] = "failed"
    <3>1. working # "good" /\ storeFailed' = TRUE /\ storedCount' = storedBeforeRun + 0
      BY <2>3, <2>6, <2>7, <2>9
    <3>2. storedCount' = storedBeforeRun
      BY <2>4, <3>1
    <3>3. Flags' /\ Figures'
      BY <1>1, <2>4, <3>1, <3>2 DEF FInv, Flags, Figures
    <3>4. Booked' /\ Gone'
      BY <1>1, <1>2, <1>5, <1>6, <2>2, <2>9, <3>1
         DEF Booked, BetweenRuns, RunBooked, EndBooked, Gone, Contract!UnderWay
    <3> QED
      BY <1>6, <1>9, <1>10, <3>3, <3>4 DEF FInv
  <2>10. CASE call'["fetch"] = "silent"
    <3>1. storeFailed' = FALSE /\ storedCount' = storedCount /\ file' = "none"
      <4>1. storeFailed' = FALSE /\ storedCount' = storedCount
        BY <2>6, <2>7, <2>10
      <4>2. file' = file /\ call["fetch"] = "stale"
        BY <1>1, <2>3, <2>10
      <4> QED
        BY <2>2, <4>1, <4>2
    <3>2. Flags' /\ Figures'
      BY <1>1, <3>1 DEF FInv, Flags, Figures
    <3>3. Booked' /\ Gone'
      BY <1>6, <2>10, <3>1
         DEF Booked, BetweenRuns, RunBooked, EndBooked, Gone, Contract!UnderWay
    <3> QED
      BY <1>6, <1>9, <1>10, <3>2, <3>3 DEF FInv
  <2> QED
    BY <2>3, <2>8, <2>9, <2>10
<1> QED
  BY <1>11, <1>12, WritersAre

(* The end is heard: the fetch ends with it or goes on behind its head.    *)
LEMMA HearsFigures ==
  ASSUME IInv, FInv, IInv', NEW c \in Writers, Hears(c)
  PROVE  FInv'
<1> DEFINE calls == [call EXCEPT ![c] = "idle"]
<1>1. /\ call[c] \in Contract!Told /\ StoreRunEnded(calls) /\ UNCHANGED <<file, truth, bounds>>
  BY DEF Hears
<1>2. /\ UNCHANGED <<fate, stopped, sent, written, marked, added, stood, fetches, setups, falls>>
      /\ Answered' = Answered
  BY <1>1 DEF truth, effects, bounds, Answered, With
<1>3. call \in Calls /\ Single(call)
  BY DEF IInv, Types
<1>4. UNCHANGED <<session, outcome>>
  BY <1>1 DEF StoreRunEnded, fetch
<1>5. Facts' /\ marked' = Marked(written', stopped')
  BY <1>2, <1>4 DEF FInv, Facts, Booked, Marked
<1>6. CASE ~storing
  <2>1. call' = calls /\ UNCHANGED <<working, fetch>>
    BY <1>1, <1>6 DEF StoreRunEnded
  <2>2. call["fetch"] = "idle" /\ call'["fetch"] = "idle"
    BY <1>3, <1>6, <2>1, WritersAre DEF IInv, StoringIsOwn, Calls
  <2>3. stood' /\ running => file' # "none"
    BY <1>1, <1>2 DEF FInv, Standing
  <2> QED
    BY <1>1, <1>2, <2>1, <2>2, <2>3, BooksAlone DEF FInv, Facts, effects
<1>7. CASE storing
  <2>1. /\ running = TRUE /\ session = "none" /\ ~waitingForAbortAnswer /\ pending # <<>>
        /\ pending \in Seq(Entries) /\ QueueFits(pending, stopped)
    BY <1>7 DEF IInv, Types, Placed, FInv, Flags
  <2>2. c = "fetch"
    <3>1. call["fetch"] # "idle" /\ call[c] # "idle"
      BY <1>1, <1>7 DEF IInv, StoringIsOwn, Contract!Told
    <3> QED
      BY <1>3, <3>1, WritersAre DEF Single
  <2>3. /\ call["fetch"] = "result" =>
             /\ Ledger(Tail(pending), written, Answered) /\ added = storedCount
             /\ storeFailed = FALSE
        /\ call["fetch"] = "failed" =>
             /\ Ledger(pending, written, Answered) /\ added = storedBeforeRun
             /\ storeFailed = TRUE
        /\ call["fetch"] = "silent" => storeFailed = FALSE /\ ~stood /\ file = "none"
    BY <2>1 DEF FInv, Booked, EndBooked, Gone, Standing
  <2>4. call["fetch"] \in {"result", "failed", "silent"}
    BY <1>1, <2>2 DEF Contract!Told
  <2>5. PICK n, m, s, o : n = storedCount /\ m = storedBeforeRun /\ s = summary /\ o = outcome
    OBVIOUS
  <2>6. /\ n \in Count /\ m \in Count /\ s \in Summaries /\ o \in {"Received", "Aborted"}
        /\ attempted \in Count /\ storedBeforeRun \in Count /\ overAllAccounts \in BOOLEAN
        /\ report = NoReport \/ report \in Reports
        /\ o = "Aborted" <=> stopped
        /\ stopped <=> s.kept = TRUE
        /\ stopped \in BOOLEAN
    BY <2>1, <2>5 DEF FInv, Figures, Flags, OutcomeFits, Facts
  <2>7. overAllAccounts /\ ~stopped' => FiguresOf(fate', s, attempted)
    BY <1>2, <2>1, <2>5 DEF FInv, FiguresKept
  <2>8. {"Received", "Aborted", "StoreFailed"} \subseteq Outcomes
    BY DEF Outcomes
  <2>9. session' = "none"
    BY <1>4, <2>1
  <2>10. IF storeFailed
         THEN Finish(calls, "StoreFailed", m, s) /\ UNCHANGED storeFailed
         ELSE IF Tail(pending) = <<>>
         THEN Finish(calls, o, n, s) /\ UNCHANGED storeFailed
         ELSE StartStoring(calls, Tail(pending), n, s)
    BY <1>1, <1>7, <2>5 DEF StoreRunEnded, RunFailed
  <2> HIDE DEF calls
  <2>11. CASE call["fetch"] = "failed"
    <3>1. Finish(calls, "StoreFailed", m, s) /\ storeFailed' \in BOOLEAN
      BY <2>3, <2>10, <2>11
    <3>2. \E failed \in Answered : written = {a \in Answered : a < failed}
      <4>1. written \in SUBSET Accounts
        BY DEF FInv, Facts
      <4> QED
        BY <2>1, <2>3, <2>11, <4>1, Advance
    <3>3. SaysTruly("StoreFailed", m, s.kept, Answered', written', marked', added')
      BY <1>2, <2>3, <2>5, <2>11, <3>2 DEF SaysTruly
    <3> QED
      BY <1>5, <2>6, <2>7, <2>8, <2>9, <3>1, <3>3, Closing
  <2>12. CASE call["fetch"] # "failed" /\ Tail(pending) = <<>>
    <3>1. Finish(calls, o, n, s) /\ storeFailed' \in BOOLEAN
      BY <2>3, <2>4, <2>10, <2>12
    <3>2. ASSUME stood' PROVE SaysTruly(o, n, s.kept, Answered', written', marked', added')
      <4>1. call["fetch"] = "result"
        BY <1>2, <2>3, <2>4, <2>12, <3>2
      <4>2. Ledger(<<>>, written, Answered) /\ added = n
        BY <2>3, <2>5, <2>12, <4>1
      <4>3. written = Answered
        BY <4>2, NoQueue, EndsOfLedger
      <4> QED
        BY <1>2, <1>5, <2>6, <4>2, <4>3 DEF SaysTruly, Marked
    <3> QED
      BY <1>5, <2>6, <2>7, <2>8, <2>9, <3>1, <3>2, Closing
  <2>13. CASE call["fetch"] = "silent" /\ Tail(pending) # <<>>
    <3>1. Finish(calls, "StoreFailed", n, s) /\ storeFailed' = FALSE
      BY <2>3, <2>10, <2>13 DEF StartStoring
    <3>2. ~stood'
      BY <1>2, <2>3, <2>13
    <3> QED
      BY <1>5, <2>6, <2>7, <2>8, <2>9, <3>1, <3>2, Closing
  <2>14. CASE call["fetch"] = "result" /\ Tail(pending) # <<>>
    <3>1. StartStoring(calls, Tail(pending), n, s)
      BY <2>3, <2>10, <2>14
    <3>2. PICK queue : queue = Tail(pending)
      OBVIOUS
    <3>3. queue \in Seq(Entries) /\ QueueFits(queue, stopped)
      BY <2>1, <3>2, HeadAndTail
    <3>4. Ledger(queue, written, Answered) /\ added = n
      BY <2>3, <2>5, <2>14, <3>2
    <3>5. file' = file /\ (stood' => file # "none")
      BY <1>1, <1>2, <2>1 DEF FInv, Standing
    <3>6. outcome' = o
      BY <1>4, <2>5
    <3>7. Settled(queue, n, s)
      BY <1>2, <1>5, <2>1, <2>6, <2>7, <2>9, <3>3, <3>4, <3>5, <3>6 DEF Settled
    <3> QED
      BY <2>14, <3>1, <3>2, <3>7, Starting
  <2> QED
    BY <2>4, <2>11, <2>12, <2>13, <2>14
<1> QED
  BY <1>6, <1>7

-----------------------------------------------------------------------------
(* The figures of every fetch.                                             *)

(* At the start nothing is fetched and nothing reported.                   *)
LEMMA InitFInv == Init => FInv
<1> SUFFICES ASSUME Init PROVE FInv
  OBVIOUS
<1> USE DEF Init
<1>1. 0 \in Count /\ 0 \in 0..MaxFetches /\ 0 \in 0..MaxSetups /\ 0 \in 0..MaxFalls
  BY FetchAssumption, Counting DEF Count
<1>2. Facts
  <2>1. Cardinality({}) = 0 /\ "Received" \in Outcomes /\ "none" \in Answers
    BY FS_EmptySet DEF Outcomes, Answers
  <2>2. sent \in [Accounts -> Answers]
    BY <2>1
  <2>3. stopped \in BOOLEAN /\ stood \in BOOLEAN /\ outcome \in Outcomes
    BY <2>1
  <2> QED
    BY <1>1, <2>1, <2>2, <2>3 DEF Facts
<1>3. Flags
  BY DEF Flags
<1>4. Figures
  <2>1. NoSummary \in Summaries
    BY <1>1 DEF NoSummary, Summaries
  <2> QED
    BY <1>1, <2>1 DEF Figures
<1>5. QueueFits(pending, stopped)
  BY NoQueue, EndsOfLedger
<1>6. call["fetch"] = "idle"
  BY WritersAre
<1>7. Booked /\ Gone
  BY <1>6 DEF Booked, BetweenRuns, RunBooked, EndBooked, Marked, Gone, Contract!UnderWay
<1>8. InSession /\ Standing /\ OutcomeFits /\ FiguresKept
  BY DEF InSession, Standing, OutcomeFits, FiguresKept
<1>9. TellsTheTruth /\ FiguresAddUp
  BY DEF TellsTheTruth, FiguresAddUp, Over
<1> QED
  BY <1>2, <1>3, <1>4, <1>5, <1>7, <1>8, <1>9 DEF FInv

(* Every step keeps the figures with what was done.                        *)
LEMMA NextFInv == IInv /\ FInv /\ [Next]_vars => FInv'
<1> SUFFICES ASSUME IInv, FInv, [Next]_vars PROVE FInv'
  OBVIOUS
<1>1. IInv'
  BY NextIInv
<1>2. ASSUME NEW a \in Accounts, Start(a) PROVE FInv'
  <2>1. PICK up \in BOOLEAN : Begins(FALSE, {a}, up)
    BY <1>2 DEF Start
  <2>2. {a} \in SUBSET Accounts
    OBVIOUS
  <2> QED
    BY <2>1, <2>2, BeginsFigures
<1>3. CASE StartAll
  <2>1. PICK up \in BOOLEAN : Begins(TRUE, Accounts, up)
    BY <1>3 DEF StartAll
  <2> QED
    BY <2>1, BeginsFigures
<1>4. CASE UNCHANGED vars
  <2>1. /\ UNCHANGED <<file, call, working, fetch, fate, stopped, sent, effects, stood,
                       fetches, setups, falls>>
    BY <1>4 DEF vars, storage, truth, bounds
  <2>2. /\ setups \in 0..MaxSetups /\ falls \in 0..MaxFalls /\ stood \in BOOLEAN
        /\ stood /\ running => file # "none"
        /\ call["fetch"] \in {"stale", "silent"} => file = "none"
    BY DEF FInv, Facts, Standing, Gone
  <2> QED
    BY <2>1, <2>2, BooksAlone
<1> QED
  BY <1>1, <1>2, <1>3, <1>4, SwitchFigures, WizardFigures, FailFigures, EmptyReturnFigures,
     SingleReceivedFigures, AllReceivedFigures, AllAbortedFigures, AnswerFigures,
     RetryFigures, WorkFigures, HandOnFigures, HearsFigures DEF Next

(* What was written, what was counted and what is still queued go together *)
(* in every reachable state.                                               *)
THEOREM BooksBalance == Spec => [](IInv /\ FInv)
<1>1. IInv /\ FInv /\ [Next]_vars => (IInv /\ FInv)'
  BY NextIInv, NextFInv
<1> QED
  BY <1>1, InitIInv, InitFInv, PTL DEF Spec

(* Every variable keeps its type: in particular no figure exceeds the      *)
(* number of accounts, and the queue never holds more of them.             *)
THEOREM FetchTypes == Spec => []TypeOK
<1>1. IInv /\ FInv => TypeOK
  <2> SUFFICES ASSUME IInv, FInv PROVE TypeOK
    OBVIOUS
  <2>1. added \in Count
    <3>1. /\ Cardinality(written) \in Count /\ added \in Nat /\ added <= Cardinality(written)
      BY Counting DEF FInv, Facts
    <3> QED
      BY <3>1, Counting DEF Count
  <2>2. /\ file \in {"vault", "none"} /\ working \in {"none", "busy", "good", "bad"}
        /\ call \in [Writers -> Contract!UnderWay \cup Contract!Told \cup {"idle"}]
        /\ session \in {"none", "out", "doomed"} /\ fate \in [Accounts -> Fates]
        /\ pending \in Seq(Entries) /\ asked \subseteq Accounts
    BY DEF IInv, Types, Calls
  <2>3. /\ {running, overAllAccounts, storing, storeFailed, retry, waitingForAbortAnswer, stopped,
            stood} \subseteq BOOLEAN
    BY Zenon DEF FInv, Flags, Facts
  <2>4. /\ {asked, written, marked} \subseteq SUBSET Accounts
        /\ {storedCount, storedBeforeRun, attempted, added} \subseteq Count
    BY <2>1, <2>2 DEF FInv, Facts, Figures
  <2>5. Len(pending) <= MaxAccount
    BY DEF FInv, QueueFits
  <2>6. /\ outcome \in Outcomes /\ summary \in Summaries /\ sent \in [Accounts -> Answers]
        /\ report = NoReport \/ report \in Reports
        /\ fetches \in 0..MaxFetches /\ setups \in 0..MaxSetups /\ falls \in 0..MaxFalls
    BY DEF FInv, Facts, Figures
  <2> QED
    BY <2>2, <2>3, <2>4, <2>5, <2>6 DEF TypeOK, Reports
<1> QED
  BY BooksBalance, <1>1, PTL

(* What a fetch reports is what it did, as long as the storage stood: who  *)
(* is written and marked, and how many orders were added (finishRun,       *)
(* takeStoredCount, storeRunEnded).                                        *)
THEOREM ReportsAreTrue == Spec => []TellsTheTruth
<1>1. FInv => TellsTheTruth
  BY DEF FInv
<1> QED
  BY BooksBalance, <1>1, PTL

(* The figures of a fetch over all accounts that was not stopped are what  *)
(* became of the accounts, and add up to all of them (startAll, finishAll).*)
THEOREM FiguresAreAll == Spec => []FiguresAddUp
<1>1. FInv => FiguresAddUp
  BY DEF FInv
<1> QED
  BY BooksBalance, <1>1, PTL

-----------------------------------------------------------------------------
(* Getting on: a fetch that runs is somewhere, from where there is a way   *)
(* on, and every step brings it closer to its end.                         *)

Engaged == running => session # "none" \/ storing \/ retry \/ waitingForAbortAnswer

LEMMA GoesOnEngaged ==
  ASSUME NEW calls, NEW queue, Closes(calls) \/ GoesOn(calls, queue)
  PROVE  Engaged'
BY DEF Engaged, GoesOn, Closes, Postpones, Stores

LEMMA InitEngaged == Init => Engaged
BY DEF Init, Engaged

LEMMA NextEngaged == Engaged /\ [Next]_vars => Engaged'
<1> SUFFICES ASSUME Engaged, [Next]_vars PROVE Engaged'
  OBVIOUS
<1>1. ASSUME UNCHANGED <<running, session, storing, retry, waitingForAbortAnswer>> PROVE Engaged'
  BY <1>1 DEF Engaged
<1>2. CASE OpenVault \/ VaultFalls \/ WizardStores \/ Work \/ UNCHANGED vars
  BY <1>1, <1>2 DEF OpenVault, VaultFalls, WizardStores, Work, vars, fetch, progress, counting
<1>3. ASSUME NEW all, NEW S, NEW up, Begins(all, S, up) PROVE Engaged'
  BY <1>3 DEF Begins, Engaged
<1>4. CASE FailLater \/ SinglePassedOver \/ SingleFails \/ AllFail
  BY <1>4, WaysOn, GoesOnEngaged DEF FailLater, SinglePassedOver, SingleFails, AllFail
<1>5. CASE SingleReceived \/ AllReceived \/ RetryFires
  BY <1>5, WaysOn, GoesOnEngaged DEF SingleReceived, AllReceived, RetryFires
<1>6. ASSUME NEW keep \in BOOLEAN, AnswerAbort(keep) PROVE Engaged'
  BY <1>6, WaysOn, GoesOnEngaged DEF AnswerAbort
<1>7. CASE AllAborted
  <2>1. FinishWithoutRun("Aborted", storedCount, CountsOf({})) \/ waitingForAbortAnswer' = TRUE
    BY <1>7 DEF AllAborted, StopHeard
  <2> QED
    BY <2>1, WaysOn, GoesOnEngaged DEF Engaged
<1>8. ASSUME NEW c \in Writers, HandOn(c) PROVE Engaged'
  BY <1>1, <1>8 DEF HandOn
<1>9. ASSUME NEW c \in Writers, Hears(c) PROVE Engaged'
  <2> DEFINE calls == [call EXCEPT ![c] = "idle"]
  <2>1. StoreRunEnded(calls)
    BY <1>9 DEF Hears
  <2> HIDE DEF calls
  <2>2. CASE storing
    BY <2>1, <2>2, WaysOn, GoesOnEngaged DEF StoreRunEnded
  <2>3. CASE ~storing
    BY <1>1, <2>1, <2>3 DEF StoreRunEnded, fetch, progress, counting
  <2> QED
    BY <2>2, <2>3
<1> QED
  BY <1>2, <1>3, <1>4, <1>5, <1>6, <1>7, <1>8, <1>9 DEF Next, Start, StartAll

(* A fetch that runs never waits for nothing: whatever the storage did to  *)
(* its calls, some signal, thread, timer or answer is still to come        *)
(* (startStoring, storeRunEnded, sessionEnded).                            *)
THEOREM NothingIsForgotten == Spec => []SomethingIsDue
<1>1. IInv /\ Engaged => SomethingIsDue
  <2> SUFFICES ASSUME IInv, Engaged, running, session = "none", ~waitingForAbortAnswer, InEventLoop
               PROVE  \/ working = "busy"
                      \/ working # "none" /\ \E c \in Writers : call[c] \in Contract!UnderWay
                      \/ retry /\ (file = "none" \/ Accepted(call))
    BY DEF SomethingIsDue
  <2>1. CASE storing
    <3>1. call["fetch"] \in Contract!UnderWay
      BY <2>1, WritersAre DEF IInv, StoringIsOwn, Types, Calls
    <3> QED
      BY <3>1, WritersAre DEF IInv, Worked
  <2>2. CASE retry
    BY <2>2 DEF IInv, Worked, Accepted
  <2> QED
    BY <2>1, <2>2 DEF Engaged
<1>2. IInv /\ Engaged /\ [Next]_vars => (IInv /\ Engaged)'
  BY NextIInv, NextEngaged
<1> QED
  BY <1>1, <1>2, InitIInv, InitEngaged, PTL DEF Spec

(* The stages of a run, and what is ahead of a fetch in each place.        *)
LEMMA RunIs ==
  /\ working = "busy" => RunLeft = 3
  /\ working \in {"good", "bad"} => RunLeft = 2
  /\ working = "none" /\ ~InEventLoop => RunLeft = 1
  /\ working = "none" /\ InEventLoop => RunLeft = 0
BY DEF RunLeft

LEMMA RunWillBe ==
  /\ working' = "busy" => RunLeft' = 3
  /\ working' \in {"good", "bad"} => RunLeft' = 2
  /\ working' = "none" /\ ~InEventLoop' => RunLeft' = 1
  /\ working' = "none" /\ InEventLoop' => RunLeft' = 0
BY DEF RunLeft

LEMMA RunKept == UNCHANGED <<call, working>> => RunLeft' = RunLeft
BY DEF RunLeft, InEventLoop, Contract!NobodyIsTold

LEMMA LeftIs ==
  /\ session # "none" => Left = RunLeft + (4 * MaxAccount + 6)
  /\ session = "none" /\ waitingForAbortAnswer => Left = RunLeft + (4 * MaxAccount + 5)
  /\ session = "none" /\ ~waitingForAbortAnswer /\ retry => Left = RunLeft + (4 * Len(pending) + 4)
  /\ session = "none" /\ ~waitingForAbortAnswer /\ ~retry => Left = RunLeft + (4 * Len(pending) + 0)
BY DEF Left

LEMMA LeftWillBe ==
  /\ session' # "none" => Left' = RunLeft' + (4 * MaxAccount + 6)
  /\ session' = "none" /\ waitingForAbortAnswer' => Left' = RunLeft' + (4 * MaxAccount + 5)
  /\ session' = "none" /\ ~waitingForAbortAnswer' /\ retry'
       => Left' = RunLeft' + (4 * Len(pending') + 4)
  /\ session' = "none" /\ ~waitingForAbortAnswer' /\ ~retry'
       => Left' = RunLeft' + (4 * Len(pending') + 0)
BY DEF Left

(* The numbers these come to.                                              *)
LEMMA Numbers ==
  /\ MaxAccount \in Nat
  /\ IInv => RunLeft \in 0..3 /\ Len(pending) \in Nat
  /\ TypeOK => Len(pending) <= MaxAccount
<1>1. IInv => RunLeft \in 0..3
  BY RunIs DEF IInv, Types
<1> QED
  BY <1>1, FetchAssumption DEF IInv, Types, TypeOK

(* From the event loop on: the session, the question or the timer is over. *)
LEMMA GoingOnLowers ==
  ASSUME IInv, IInv', TypeOK', InEventLoop, call["fetch"] = "idle", running', session' = "none",
         NEW queue, Closes(call) \/ GoesOn(call, queue),
         \/ session # "none"
         \/ session = "none" /\ waitingForAbortAnswer
         \/ /\ session = "none" /\ retry /\ ~waitingForAbortAnswer
            /\ Accepted(call) /\ queue = pending
  PROVE  Left' < Left
<1>1. /\ MaxAccount \in Nat /\ RunLeft \in 0..3 /\ Len(pending) \in Nat
      /\ Len(pending') \in Nat /\ Len(pending') <= MaxAccount
  BY Numbers DEF IInv, Types, TypeOK
<1>2. CASE Stores(call, queue)
  <2>1. RunLeft' = 3 /\ Left' = RunLeft' + (4 * Len(pending') + 0) /\ pending' = queue
    BY <1>2, RunWillBe, LeftWillBe DEF Stores
  <2> QED
    BY <1>1, <2>1, LeftIs
<1>3. CASE Postpones(call, queue)
  <2>1. /\ RunLeft' = RunLeft /\ Left' = RunLeft' + (4 * Len(pending') + 4) /\ ~Accepted(call)
    BY <1>3, RunKept, LeftWillBe DEF Postpones
  <2> QED
    BY <1>1, <2>1, LeftIs
<1> QED
  BY <1>2, <1>3 DEF GoesOn, Closes

(* The session comes back.                                                 *)
LEMMA ReturnLowers ==
  ASSUME IInv, IInv', TypeOK', running',
         SingleReceived \/ AllReceived \/ AllAborted
  PROVE  Left' < Left
<1>1. PICK fates \in SUBSET Fates : SessionReturns(fates)
  <2>1. /\ {"cut", "answered"} \in SUBSET Fates
        /\ {"offline", "notOffered", "refused", "answered"} \in SUBSET Fates
        /\ {"offline", "notOffered", "refused", "cut", "answered"} \in SUBSET Fates
    BY DEF Fates
  <2> QED
    BY <2>1 DEF SingleReceived, AllReceived, AllAborted
<1>2. session = "out" /\ session' = "none" /\ InEventLoop /\ call["fetch"] = "idle"
  BY <1>1, Returning DEF SessionReturns
<1>3. CASE SingleReceived \/ AllReceived
  <2>1. \E queue : Closes(call) \/ GoesOn(call, queue)
    BY <1>3, WaysOn DEF SingleReceived, AllReceived
  <2> QED
    BY <1>2, <2>1, GoingOnLowers
<1>4. CASE AllAborted
  <2>1. \/ FinishWithoutRun("Aborted", storedCount, CountsOf({}))
        \/ waitingForAbortAnswer' = TRUE /\ UNCHANGED <<call, working>>
    BY <1>4 DEF AllAborted, StopHeard
  <2>2. waitingForAbortAnswer' = TRUE /\ UNCHANGED <<call, working>>
    BY <2>1, WaysOn DEF Closes
  <2> QED
    BY <1>2, <2>2, Numbers, RunKept, LeftIs, LeftWillBe
<1> QED
  BY <1>3, <1>4

(* The question is answered, or the timer finds the way free.              *)
LEMMA AnswerLowers ==
  ASSUME IInv, IInv', TypeOK', running', NEW keep \in BOOLEAN, AnswerAbort(keep) \/ RetryFires
  PROVE  Left' < Left
<1>1. /\ InEventLoop /\ session = "none" /\ session' = "none" /\ call["fetch"] = "idle"
  BY WritersAre DEF AnswerAbort, RetryFires, IInv, Placed, StoringIsOwn
<1>2. CASE AnswerAbort(keep)
  <2>1. waitingForAbortAnswer /\ (Closes(call) \/ GoesOn(call, pending))
    BY <1>2, WaysOn DEF AnswerAbort
  <2> QED
    BY <1>1, <2>1, GoingOnLowers
<1>3. CASE RetryFires
  <2>1. /\ retry /\ ~waitingForAbortAnswer /\ StartStoring(call, pending, storedCount, summary)
        /\ file = "none" \/ Accepted(call)
    BY <1>3 DEF RetryFires, IInv, Placed
  <2>2. Accepted(call)
    BY <2>1 DEF StartStoring, Finish
  <2>3. Closes(call) \/ GoesOn(call, pending)
    BY <2>1, WaysOn
  <2> QED
    BY <1>1, <2>1, <2>2, <2>3, GoingOnLowers
<1> QED
  BY <1>2, <1>3

(* A run passes its stages.                                                *)
LEMMA PlaceKept ==
  ASSUME IInv, IInv', UNCHANGED <<session, waitingForAbortAnswer, retry, pending>>
  PROVE  /\ RunLeft' < RunLeft => Left' < Left
         /\ RunLeft' = RunLeft => Left' = Left
<1>1. /\ MaxAccount \in Nat /\ RunLeft \in 0..3 /\ Len(pending) \in Nat
  BY Numbers
<1>2. RunLeft' \in 0..3
  BY RunWillBe DEF IInv, Types
<1> QED
  BY <1>1, <1>2, LeftIs, LeftWillBe

LEMMA RunLowers ==
  ASSUME IInv, IInv', NEW c \in Writers, Work \/ HandOn(c)
  PROVE  Left' < Left
<1>1. UNCHANGED <<session, waitingForAbortAnswer, retry, pending>>
  BY DEF Work, HandOn, fetch, progress
<1>2. RunLeft' < RunLeft
  <2>1. CASE Work
    BY <2>1, RunIs, RunWillBe DEF Work
  <2>2. CASE HandOn(c)
    <3>1. /\ working' = "none" /\ working \in {"good", "bad"} /\ call \in Calls
          /\ \E kind \in Contract!Told : call' = [call EXCEPT ![c] = kind]
      BY <2>2 DEF HandOn, IInv, Types, Contract!Told
    <3>2. call'[c] \in Contract!Told
      BY <3>1 DEF Calls
    <3>3. ~InEventLoop'
      BY <3>2 DEF InEventLoop, Contract!NobodyIsTold, Contract!Callers
    <3> QED
      BY <3>1, <3>3, RunIs, RunWillBe
  <2> QED
    BY <2>1, <2>2
<1> QED
  BY <1>1, <1>2, PlaceKept

(* The end of a run is heard: the account it was for leaves the queue.     *)
LEMMA HearsLowers ==
  ASSUME IInv, IInv', TypeOK', running', NEW c \in Writers, Hears(c)
  PROVE  Left' < Left
<1> DEFINE calls == [call EXCEPT ![c] = "idle"]
<1>1. call[c] \in Contract!Told /\ StoreRunEnded(calls)
  BY DEF Hears
<1>2. call \in Calls /\ Single(call) /\ call[c] # "idle" /\ call[c] \notin Contract!UnderWay
  BY <1>1 DEF IInv, Types, Contract!Told, Contract!UnderWay
<1>3. calls \in Calls /\ \A d \in Writers : calls[d] = "idle"
  BY <1>2 DEF Calls, Single
<1>4. working = "none" /\ ~InEventLoop
  <2>1. \A d \in Writers : call[d] \notin Contract!UnderWay
    BY <1>2 DEF Single, Contract!UnderWay
  <2> QED
    BY <1>1, <2>1, WritersAre DEF IInv, Worked
<1> HIDE DEF calls
<1>5. CASE ~storing
  <2>1. call' = calls /\ UNCHANGED <<working, fetch>>
    BY <1>1, <1>5 DEF StoreRunEnded
  <2>2. InEventLoop'
    BY <1>3, <2>1 DEF InEventLoop, Contract!NobodyIsTold, Contract!Callers, Contract!Told
  <2>3. RunLeft' < RunLeft
    BY <1>4, <2>1, <2>2, RunIs, RunWillBe
  <2>4. UNCHANGED <<session, waitingForAbortAnswer, retry, pending>>
    BY <2>1 DEF fetch, progress
  <2> QED
    BY <2>3, <2>4, PlaceKept
<1>6. CASE storing
  <2>1. /\ pending \in Seq(Entries) /\ pending # <<>> /\ session = "none" /\ session' = "none"
        /\ ~retry /\ ~waitingForAbortAnswer
    BY <1>1, <1>6 DEF IInv, Types, Placed, StoreRunEnded
  <2>2. Closes(calls) \/ GoesOn(calls, Tail(pending))
    BY <1>1, <1>6, WaysOn DEF StoreRunEnded
  <2>3. Accepted(calls)
    BY <1>3 DEF Accepted, Contract!UnderWay
  <2>4. Stores(calls, Tail(pending))
    BY <2>2, <2>3 DEF Closes, GoesOn, Postpones
  <2>5. pending' = Tail(pending) /\ working' = "busy" /\ ~retry' /\ ~waitingForAbortAnswer'
    BY <2>4 DEF Stores
  <2>6. Len(pending') = Len(pending) - 1 /\ Len(pending) \in Nat
    BY <2>1, <2>5
  <2> QED
    BY <1>4, <2>1, <2>5, <2>6, RunIs, RunWillBe, LeftIs, LeftWillBe
<1> QED
  BY <1>5, <1>6

(* The storage falls: what is out goes on, and tells its bare end.         *)
LEMMA FallKeeps ==
  ASSUME IInv, IInv', falls \in Nat, VaultFalls
  PROVE  Left' = Left /\ falls' > falls
<1>1. /\ UNCHANGED <<working, fetch>> /\ InEventLoop /\ falls' = falls + 1
      /\ call' = [c \in Writers |-> IF call[c] = "out" THEN "stale" ELSE call[c]]
  BY DEF VaultFalls, Contract!Switch, Contract!Callers, InEventLoop
<1>2. InEventLoop'
  BY <1>1 DEF InEventLoop, Contract!NobodyIsTold, Contract!Callers, Contract!Told
<1>3. RunLeft' = RunLeft
  BY <1>1, <1>2, RunIs, RunWillBe DEF IInv, Types
<1> QED
  BY <1>1, <1>3, PlaceKept DEF fetch, progress

(* While a fetch runs, every step of the fetch, of its run, of the wizard  *)
(* or of the event loop brings it closer to its end, and a vault that      *)
(* falls does not set it back (startStoring, storeRunEnded, answerAbort).  *)
THEOREM EveryStepCounts == Spec => StepsCount
<1>1. /\ IInv /\ IInv' /\ TypeOK /\ TypeOK' /\ [Next]_vars
      => [running /\ running' => Left' < Left \/ (Left' = Left /\ falls' > falls)]_vars
  <2> SUFFICES ASSUME IInv, IInv', TypeOK, TypeOK', Next, running, running'
               PROVE  Left' < Left \/ (Left' = Left /\ falls' > falls)
    OBVIOUS
  <2>1. ~OpenVault /\ ~WizardStores /\ ~StartAll /\ \A a \in Accounts : ~Start(a)
    BY DEF OpenVault, WizardStores, StartAll, Start, Begins
  <2>2. ~FailLater /\ ~SinglePassedOver /\ ~SingleFails /\ ~AllFail
    BY WaysOn DEF FailLater, SinglePassedOver, SingleFails, AllFail, Closes
  <2>3. CASE VaultFalls
    <3>1. falls \in Nat
      BY FetchAssumption DEF TypeOK
    <3> QED
      BY <2>3, <3>1, FallKeeps
  <2>4. CASE SingleReceived \/ AllReceived \/ AllAborted
    BY <2>4, ReturnLowers
  <2>5. ASSUME NEW keep \in BOOLEAN, AnswerAbort(keep) \/ RetryFires PROVE Left' < Left
    BY <2>5, AnswerLowers
  <2>6. ASSUME NEW c \in Writers, Work \/ HandOn(c) PROVE Left' < Left
    BY <2>6, RunLowers
  <2>7. ASSUME NEW c \in Writers, Hears(c) PROVE Left' < Left
    BY <2>7, HearsLowers
  <2> QED
    BY <2>1, <2>2, <2>3, <2>4, <2>5, <2>6, <2>7, WritersAre DEF Next
<1> QED
  BY <1>1, FetchHolds, FetchTypes, PTL DEF Spec, StepsCount

(* A fetch of any number of accounts gets on, whatever the storage does to *)
(* it: something is due, and what comes takes it closer to its end.        *)
THEOREM FetchGetsOn == Spec => GetsOn
  BY NothingIsForgotten, EveryStepCounts, PTL DEF GetsOn

(* So a fetch is over within so many steps of its own and of those it has  *)
(* to wait for, whichever way it goes.                                     *)
THEOREM EndIsInSight == Spec => [](Left \in 0..(4 * MaxAccount + 9))
<1>1. IInv /\ TypeOK => Left \in 0..(4 * MaxAccount + 9)
  <2> SUFFICES ASSUME IInv, TypeOK PROVE Left \in 0..(4 * MaxAccount + 9)
    OBVIOUS
  <2>1. /\ MaxAccount \in Nat /\ RunLeft \in 0..3
        /\ Len(pending) \in Nat /\ Len(pending) <= MaxAccount
    BY Numbers
  <2>2. \/ Left = RunLeft + (4 * MaxAccount + 6) \/ Left = RunLeft + (4 * MaxAccount + 5)
        \/ Left = RunLeft + (4 * Len(pending) + 4) \/ Left = RunLeft + (4 * Len(pending) + 0)
    BY LeftIs
  <2> QED
    BY <2>1, <2>2
<1> QED
  BY <1>1, FetchHolds, FetchTypes, PTL
=============================================================================
