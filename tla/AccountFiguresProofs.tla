------------------------- MODULE AccountFiguresProofs -------------------------
(***************************************************************************)
(* That a fetch of bookings and balances reports what it did: the count of *)
(* stored bookings is the number of rows it added, the outcome says what   *)
(* became of the records the bank brought, and the figures of a fetch over *)
(* all accounts are what became of the accounts.  With them goes the type  *)
(* invariant, whose bounds on the figures are the same bookkeeping; and    *)
(* with its bound on the queue, how far a fetch is from its end.           *)
(***************************************************************************)
EXTENDS AccountFetchProofs

Summaries == [skipped : Count, failed : Count, kept : BOOLEAN]

BookedIn(parts) == {a \in Accounts : <<a, "Transactions">> \in parts}

(* What happened at the bank and in the file, and the run that is out.     *)
Facts ==
  /\ overAllAccounts \in BOOLEAN /\ stood \in BOOLEAN /\ outcome \in Outcomes
  /\ fate \in [Accounts -> Fates]
  /\ brought \subseteq Accounts \X Parts /\ stored \subseteq Accounts \X Parts
  /\ added \in Nat /\ added <= Cardinality(BookedIn(stored))
  /\ write # NoRun => write.since <= generation
  /\ fetches \in 0..MaxFetches /\ setups \in 0..MaxSetups

(* What the fetch counts and says.                                         *)
Counts ==
  /\ storedCount \in Nat /\ storedCount <= added
  /\ storedBeforeRun \in Nat /\ storedBeforeRun <= added
  /\ attempted \in {0, Cardinality(Accounts)}
  /\ summary \in Summaries
  /\ report = NoReport \/ report.outcome \in Outcomes

(* A queue has one entry at most of an account, and no entry is empty.     *)
QueueFits(queue, parts) ==
  /\ Len(queue) <= Cardinality(Accounts)
  /\ \A i \in DOMAIN queue : queue[i].parts # {}
  /\ \A i, j \in DOMAIN queue : queue[i].of = queue[j].of => i = j
  /\ PartsOf(queue) \subseteq parts

AtHead ==
  /\ phase # "None" => phase \in Head(pending).parts
  /\ retry # "None" => retry \in Head(pending).parts

(* What is still to be stored of a queue when its next part is due.        *)
Ahead(queue, next) ==
  {x \in PartsOf(queue) : next = "Balances" => x # <<Head(queue).of, "Transactions">>}

Before == brought \ Ahead(pending, phase)
Now == Before \cup {HeadPart(phase)}

(* What the file holds and what was counted, between the runs, while a run *)
(* is out, and when its end is told.                                       *)
BetweenRuns ==
  running /\ session = "none" /\ phase = "None" =>
    stored = brought \ PartsOf(pending) /\ added = storedCount

RunBooked ==
  OwnRunIsOut =>
    /\ storedCount = storedBeforeRun /\ storeFailed = FALSE
    /\ phase = "Balances" => write.fresh = 0
    /\ write.good => stored = Now /\ added = storedBeforeRun + write.fresh
    /\ ~write.good => stored = Before /\ added = storedBeforeRun

EndBooked ==
  OwnEndIsTold =>
    /\ telling.kind = "result" => stored = Now /\ storedCount = added /\ storeFailed = FALSE
    /\ telling.kind = "failed" =>
         stored = Before /\ storedBeforeRun = added /\ storedCount = added
    /\ telling.kind = "silent" => storeFailed = FALSE

Booked == BetweenRuns /\ RunBooked /\ EndBooked

Idle ==
  ~running => storedCount = 0 /\ storedBeforeRun = 0 /\ summary = NoSummary /\ attempted = 0

InSession ==
  session # "none" =>
    /\ stored = {} /\ added = 0 /\ storedCount = 0 /\ storedBeforeRun = 0
    /\ brought = {} /\ pending = <<>> /\ summary.kept = FALSE

Standing == stood /\ running /\ session # "doomed" => open

(* An answer to keep what came in stands in the summary from then on.      *)
OutcomeFits ==
  running /\ session = "none" =>
    /\ outcome \in {"Received", "BalanceOnly", "Aborted"}
    /\ overAllAccounts => outcome # "BalanceOnly"
    /\ waitingForAbortAnswer => outcome = "Aborted" /\ summary.kept = FALSE
    /\ ~waitingForAbortAnswer => (outcome = "Aborted" <=> summary.kept = TRUE)

Fated(fates, of) == {a \in Accounts : of[a] \in fates}

(* The figures s of n accounts that were tried are what became of them.    *)
FiguresOf(of, s, n) ==
  /\ s.skipped = Cardinality(Fated({"offline"}, of))
  /\ s.failed = Cardinality(Fated({"refused", "unreadable"}, of))
  /\ n = Cardinality(Fated({"answered", "nothing"}, of)) + s.skipped + s.failed

FiguresKept ==
  overAllAccounts =>
    /\ session = "out" =>
         /\ attempted = Cardinality(Accounts)
         /\ summary = [skipped |-> 0, failed |-> Cardinality(Accounts \ asked), kept |-> FALSE]
         /\ fate = [a \in Accounts |-> IF a \in asked THEN "none" ELSE "unreadable"]
    /\ running /\ session = "none" /\ outcome = "Received" => FiguresOf(fate, summary, attempted)

FInv ==
  /\ Facts /\ Counts /\ QueueFits(pending, brought) /\ AtHead /\ Booked
  /\ Idle /\ InSession /\ Standing /\ OutcomeFits /\ FiguresKept
  /\ TellsTheTruth /\ FiguresAreTrue

-----------------------------------------------------------------------------
(* The queue.                                                              *)

LEMMA PartsIn ==
  ASSUME NEW queue \in Seq(Entries)
  PROVE  /\ \A a, p : <<a, p>> \in PartsOf(queue) <=>
                        \E i \in DOMAIN queue : queue[i].of = a /\ p \in queue[i].parts
         /\ PartsOf(queue) \subseteq Accounts \X Parts
<1>1. ASSUME NEW a, NEW p, <<a, p>> \in PartsOf(queue)
      PROVE  \E i \in DOMAIN queue : queue[i].of = a /\ p \in queue[i].parts
  BY <1>1 DEF PartsOf, ToSet
<1>2. ASSUME NEW a, NEW p, NEW i \in DOMAIN queue, queue[i].of = a, p \in queue[i].parts
      PROVE  <<a, p>> \in PartsOf(queue)
  BY <1>2 DEF PartsOf, ToSet
<1>3. ASSUME NEW x \in PartsOf(queue) PROVE x \in Accounts \X Parts
  <2>1. PICK i \in DOMAIN queue : x \in {<<queue[i].of, p>> : p \in queue[i].parts}
    BY <1>3 DEF PartsOf, ToSet
  <2>2. queue[i] \in Entries
    BY ElementOfSeq
  <2> QED
    BY <2>1, <2>2 DEF Entries
<1> QED
  BY <1>1, <1>2, <1>3

(* The empty queue holds nothing.                                          *)
LEMMA NoParts == PartsOf(<<>>) = {}
<1>1. <<>> \in Seq(Entries) /\ DOMAIN <<>> = {}
  OBVIOUS
<1>2. \A x \in PartsOf(<<>>) : FALSE
  BY DEF PartsOf, ToSet
<1> QED
  BY <1>2

(* The parts of a queue are those of its head and those of its tail, and   *)
(* no account is in both.                                                  *)
LEMMA HeadAndTail ==
  ASSUME NEW queue \in Seq(Entries), queue # <<>>, NEW parts, QueueFits(queue, parts)
  PROVE  /\ \A a, p : <<a, p>> \in PartsOf(queue) <=>
                        \/ a = Head(queue).of /\ p \in Head(queue).parts
                        \/ <<a, p>> \in PartsOf(Tail(queue))
         /\ \A p : <<Head(queue).of, p>> \notin PartsOf(Tail(queue))
         /\ Head(queue).parts # {} /\ Head(queue).parts \subseteq Parts
         /\ QueueFits(Tail(queue), parts)
<1>1. /\ Tail(queue) \in Seq(Entries) /\ Head(queue) = queue[1] /\ 1 \in DOMAIN queue
      /\ Len(Tail(queue)) = Len(queue) - 1
      /\ DOMAIN queue = 1..Len(queue) /\ DOMAIN Tail(queue) = 1..(Len(queue) - 1)
      /\ Len(queue) \in Nat /\ Len(queue) > 0
  BY HeadTailProperties, LenProperties
<1>2. \A i \in DOMAIN Tail(queue) : Tail(queue)[i] = queue[i + 1] /\ i + 1 \in DOMAIN queue
  BY <1>1, HeadTailProperties
<1>3. \A i \in DOMAIN queue : i # 1 => i - 1 \in DOMAIN Tail(queue) /\ queue[i] = Tail(queue)[i - 1]
  BY <1>1, <1>2
<1>4. \A a, p : <<a, p>> \in PartsOf(Tail(queue)) <=>
                 \E i \in DOMAIN Tail(queue) :
                   Tail(queue)[i].of = a /\ p \in Tail(queue)[i].parts
  <2> DEFINE tail == Tail(queue)
  <2>1. tail \in Seq(Entries)
    BY <1>1
  <2> HIDE DEF tail
  <2>2. \A a, p : <<a, p>> \in PartsOf(tail) <=>
                  \E i \in DOMAIN tail : tail[i].of = a /\ p \in tail[i].parts
    BY <2>1, PartsIn
  <2> QED
    BY <2>2 DEF tail
<1>5. Head(queue).parts # {} /\ Head(queue).parts \subseteq Parts
  <2>1. queue[1] \in Entries
    BY <1>1, ElementOfSeq
  <2> QED
    BY <1>1, <2>1 DEF QueueFits, Entries
<1>6. \A p : <<Head(queue).of, p>> \notin PartsOf(Tail(queue))
  <2> SUFFICES ASSUME NEW p, <<Head(queue).of, p>> \in PartsOf(Tail(queue)) PROVE FALSE
    OBVIOUS
  <2>1. PICK i \in DOMAIN Tail(queue) : Tail(queue)[i].of = Head(queue).of
    BY <1>4
  <2>2. i + 1 \in DOMAIN queue /\ queue[i + 1].of = queue[1].of /\ i + 1 # 1
    BY <1>1, <1>2, <2>1
  <2> QED
    BY <1>1, <2>2 DEF QueueFits
<1>7. ASSUME NEW a, NEW p
      PROVE  <<a, p>> \in PartsOf(queue) <=>
               \/ a = Head(queue).of /\ p \in Head(queue).parts
               \/ <<a, p>> \in PartsOf(Tail(queue))
  <2>1. ASSUME <<a, p>> \in PartsOf(queue)
        PROVE  \/ a = Head(queue).of /\ p \in Head(queue).parts
               \/ <<a, p>> \in PartsOf(Tail(queue))
    <3>1. PICK i \in DOMAIN queue : queue[i].of = a /\ p \in queue[i].parts
      BY <2>1, PartsIn
    <3>2. CASE i = 1
      BY <1>1, <3>1, <3>2
    <3>3. CASE i # 1
      BY <1>3, <1>4, <3>1, <3>3
    <3> QED
      BY <3>2, <3>3
  <2>2. ASSUME a = Head(queue).of, p \in Head(queue).parts PROVE <<a, p>> \in PartsOf(queue)
    BY <1>1, <2>2, PartsIn
  <2>3. ASSUME <<a, p>> \in PartsOf(Tail(queue)) PROVE <<a, p>> \in PartsOf(queue)
    <3>1. PICK i \in DOMAIN Tail(queue) : Tail(queue)[i].of = a /\ p \in Tail(queue)[i].parts
      BY <1>4, <2>3
    <3> QED
      BY <1>2, <3>1, PartsIn
  <2> QED
    BY <2>1, <2>2, <2>3
<1>8. QueueFits(Tail(queue), parts)
  <2>1. PartsOf(Tail(queue)) \subseteq parts
    <3> SUFFICES ASSUME NEW x \in PartsOf(Tail(queue)) PROVE x \in parts
      OBVIOUS
    <3>1. x \in Accounts \X Parts
      BY <1>1, PartsIn
    <3>2. PICK a \in Accounts, p \in Parts : x = <<a, p>>
      BY <3>1
    <3> QED
      BY <1>7, <3>2 DEF QueueFits
  <2>2. Len(Tail(queue)) <= Cardinality(Accounts)
    <3>1. Cardinality(Accounts) \in Nat
      BY FetchAssumption, FS_CardinalityType
    <3> QED
      BY <1>1, <3>1 DEF QueueFits
  <2>3. \A i \in DOMAIN Tail(queue) : Tail(queue)[i].parts # {}
    BY <1>2 DEF QueueFits
  <2>4. ASSUME NEW i \in DOMAIN Tail(queue), NEW j \in DOMAIN Tail(queue),
               Tail(queue)[i].of = Tail(queue)[j].of
        PROVE  i = j
    <3>1. i + 1 = j + 1
      BY <1>2, <2>4 DEF QueueFits
    <3> QED
      BY <1>1, <3>1
  <2> QED
    BY <2>1, <2>2, <2>3, <2>4 DEF QueueFits
<1> QED
  BY <1>5, <1>6, <1>7, <1>8

(* What a session brought is such a queue, of the accounts it asked about. *)
LEMMA ReceivedFits ==
  ASSUME NEW S \in SUBSET Accounts, NEW queue \in QueueReceived(S)
  PROVE  queue \in Seq(Entries) /\ QueueFits(queue, PartsOf(queue))
<1>1. PICK T \in SUBSET S : queue \in QueuesOver(T)
  BY DEF QueueReceived
<1>2. PICK order \in SetToSeqs(T), parts \in [T -> (SUBSET Parts) \ {{}}], new \in [T -> 0..1] :
        queue = [i \in DOMAIN order |-> Entry(order[i], parts[order[i]], new[order[i]])]
  BY <1>1 DEF QueuesOver
<1>3. /\ Cardinality(T) \in Nat /\ Cardinality(Accounts) \in Nat
      /\ Cardinality(T) <= Cardinality(Accounts)
  <2>1. T \in SUBSET Accounts
    BY <1>1
  <2>2. IsFiniteSet(T) /\ Cardinality(T) <= Cardinality(Accounts)
    BY <2>1, FetchAssumption, FS_Subset
  <2> QED
    BY <2>2, FetchAssumption, FS_CardinalityType
<1>4. /\ order \in [1..Cardinality(T) -> T]
      /\ \A i, j \in 1..Cardinality(T) : i # j => order[i] # order[j]
  BY DEF SetToSeqs
<1>5. DOMAIN queue = 1..Cardinality(T)
  BY <1>2, <1>4
<1>6. \A i \in 1..Cardinality(T) : queue[i].of = order[i] /\ queue[i].parts # {}
  <2> SUFFICES ASSUME NEW i \in 1..Cardinality(T)
               PROVE  queue[i].of = order[i] /\ queue[i].parts # {}
    OBVIOUS
  <2>1. order[i] \in T
    BY <1>4
  <2>2. parts[order[i]] # {}
    BY <2>1
  <2>3. queue[i] = [of |-> order[i], parts |-> parts[order[i]], fresh |-> new[order[i]]]
    BY <1>2, <1>4 DEF Entry
  <2> QED
    BY <2>2, <2>3
<1>7. queue \in Seq(Entries)
  BY QueueType
<1>8. Len(queue) = Cardinality(T)
  BY <1>3, <1>5, <1>7, LenProperties
<1> QED
  BY <1>3, <1>4, <1>5, <1>6, <1>7, <1>8 DEF QueueFits

-----------------------------------------------------------------------------
(* Counting.                                                               *)

LEMMA Counting ==
  /\ IsFiniteSet(Accounts) /\ Cardinality(Accounts) \in Nat
  /\ \A S \in SUBSET Accounts :
       IsFiniteSet(S) /\ Cardinality(S) \in Nat /\ Cardinality(S) <= Cardinality(Accounts)
<1>1. IsFiniteSet(Accounts)
  BY FetchAssumption
<1>2. ASSUME NEW S \in SUBSET Accounts
      PROVE  IsFiniteSet(S) /\ Cardinality(S) \in Nat /\ Cardinality(S) <= Cardinality(Accounts)
  <2>1. IsFiniteSet(S) /\ Cardinality(S) <= Cardinality(Accounts)
    BY <1>1, FS_Subset
  <2> QED
    BY <2>1, FS_CardinalityType
<1> QED
  BY <1>1, <1>2, FS_CardinalityType

(* Sets of accounts that have none in common add up.                       *)
LEMMA Apart ==
  ASSUME NEW S \in SUBSET Accounts, NEW T \in SUBSET Accounts, S \cap T = {}
  PROVE  Cardinality(S \cup T) = Cardinality(S) + Cardinality(T)
<1>1. IsFiniteSet(S) /\ IsFiniteSet(T) /\ Cardinality(S) \in Nat /\ Cardinality(T) \in Nat
  BY Counting
<1>2. Cardinality(S \cup T) = Cardinality(S) + Cardinality(T) - Cardinality(S \cap T)
  BY <1>1, FS_Union
<1>3. Cardinality(S \cap T) = 0
  BY FS_EmptySet
<1> QED
  BY <1>1, <1>2, <1>3

(* Bookings of one more account in the file are one more to count.         *)
LEMMA OneMoreBooked ==
  ASSUME NEW parts \in SUBSET (Accounts \X Parts), NEW a \in Accounts,
         <<a, "Transactions">> \notin parts
  PROVE  Cardinality(BookedIn(parts \cup {<<a, "Transactions">>})) = Cardinality(BookedIn(parts)) + 1
<1>1. BookedIn(parts \cup {<<a, "Transactions">>}) = BookedIn(parts) \cup {a}
  BY DEF BookedIn
<1>2. a \notin BookedIn(parts) /\ BookedIn(parts) \in SUBSET Accounts
  BY DEF BookedIn
<1>3. IsFiniteSet(BookedIn(parts))
  BY <1>2, Counting
<1> QED
  BY <1>1, <1>2, <1>3, FS_AddElement

-----------------------------------------------------------------------------
(* The ways on.                                                            *)

(* A report of the outcome o and of n bookings is true of what was stored. *)
SaysTruly(o, n, kept, st, br, ad) ==
  /\ n = ad
  /\ CASE o = "StoreFailed" -> st # br
       [] o \in {"Received", "BalanceOnly"} -> st = br
       [] o = "Aborted" -> st = IF kept THEN br ELSE {}
       [] OTHER -> st = {}

(* A fetch that ends with a true report leaves nothing behind.             *)
LEMMA Closing ==
  ASSUME IInv', Facts', NEW o \in Outcomes, NEW n, NEW s \in Summaries, Closed(o, n, s),
         session' = "none", overAllAccounts' = overAllAccounts,
         attempted \in {0, Cardinality(Accounts)},
         stood' => SaysTruly(o, n, s.kept, stored', brought', added'),
         overAllAccounts /\ ~s.kept /\ o \in {"Received", "StoreFailed"} =>
           FiguresOf(fate', s, attempted)
  PROVE  FInv'
<1>1. /\ running' = FALSE /\ phase' = "None" /\ retry' = "None" /\ pending' = <<>>
      /\ storedCount' = 0 /\ storedBeforeRun' = 0 /\ summary' = NoSummary /\ attempted' = 0
      /\ report'.outcome = o /\ report'.count = n /\ report'.all = overAllAccounts
      /\ report'.kept = s.kept /\ report'.skipped = s.skipped /\ report'.failed = s.failed
      /\ report'.fetched = IF attempted > s.skipped + s.failed
                           THEN attempted - s.skipped - s.failed ELSE 0
  BY DEF Closed
<1>2. ~OwnRunIsOut' /\ ~OwnEndIsTold'
  BY <1>1 DEF IInv, PhaseIsOwn
<1>3. Counts'
  <2>1. NoSummary \in Summaries
    <3>1. 0 \in Count
      BY Counting DEF Count
    <3> QED
      BY <3>1 DEF NoSummary, Summaries
  <2> QED
    BY <1>1, <2>1 DEF Counts, Facts
<1>4. QueueFits(pending, brought)'
  <2>1. Len(<<>>) = 0 /\ DOMAIN <<>> = {}
    OBVIOUS
  <2> QED
    BY <1>1, <2>1, NoParts, Counting DEF QueueFits
<1>5. AtHead' /\ Booked' /\ Idle' /\ InSession' /\ Standing' /\ OutcomeFits' /\ FiguresKept'
  BY <1>1, <1>2
     DEF AtHead, Booked, BetweenRuns, RunBooked, EndBooked, Idle, InSession, Standing,
         OutcomeFits, FiguresKept
<1>6. TellsTheTruth'
  BY <1>1 DEF TellsTheTruth, SaysTruly
<1>7. FiguresAreTrue'
  <2> SUFFICES ASSUME overAllAccounts, ~s.kept, o \in {"Received", "StoreFailed"}
               PROVE  /\ report'.fetched = Became({"answered", "nothing"})'
                      /\ report'.skipped = Became({"offline"})'
                      /\ report'.failed = Became({"refused", "unreadable"})'
    BY <1>1 DEF FiguresAreTrue
  <2> DEFINE good == Cardinality(Fated({"answered", "nothing"}, fate'))
  <2>1. /\ Became({"offline"})' = s.skipped
        /\ Became({"refused", "unreadable"})' = s.failed
        /\ Became({"answered", "nothing"})' = good
        /\ attempted = good + s.skipped + s.failed
    BY DEF FiguresOf, Fated, Became
  <2>2. good \in Nat /\ s.skipped \in Nat /\ s.failed \in Nat
    <3>1. Fated({"answered", "nothing"}, fate') \in SUBSET Accounts
      BY DEF Fated
    <3> QED
      BY <3>1, Counting DEF Summaries, Count
  <2> HIDE DEF good
  <2>3. report'.fetched = good
    BY <1>1, <2>1, <2>2
  <2> QED
    BY <1>1, <2>1, <2>3
<1> QED
  BY <1>3, <1>4, <1>5, <1>6, <1>7 DEF FInv

(* Where a fetch stands that has the queue before it, n bookings counted   *)
(* and the summary s: what is not in the queue is stored, as long as a     *)
(* connection stands.                                                      *)
Settled(queue, n, s) ==
  /\ IInv' /\ Facts' /\ session' = "none" /\ running
  /\ open' = open /\ overAllAccounts' = overAllAccounts /\ (stood' => open)
  /\ queue \in Seq(Entries) /\ QueueFits(queue, brought') /\ s \in Summaries
  /\ attempted \in {0, Cardinality(Accounts)}
  /\ report = NoReport \/ report.outcome \in Outcomes
  /\ outcome' \in {"Received", "BalanceOnly", "Aborted"}
  /\ outcome' = "Aborted" <=> s.kept = TRUE
  /\ overAllAccounts => outcome' # "BalanceOnly"
  /\ overAllAccounts /\ outcome' = "Received" => FiguresOf(fate', s, attempted)

(* What is ahead of a queue whose head has no bookings is all of it.       *)
LEMMA AllAhead ==
  ASSUME NEW queue \in Seq(Entries), queue # <<>>, NEW parts, QueueFits(queue, parts), NEW next,
         next = "Balances" => "Transactions" \notin Head(queue).parts
  PROVE  Ahead(queue, next) = PartsOf(queue)
<1>1. next = "Balances" => <<Head(queue).of, "Transactions">> \notin PartsOf(queue)
  BY HeadAndTail
<1> QED
  BY <1>1 DEF Ahead

(* A run that is started, put off or refused for good leaves what was      *)
(* counted and what the file holds in agreement.                           *)
LEMMA StoringFits ==
  ASSUME NEW queue, NEW n, NEW s, Settled(queue, n, s), queue # <<>>,
         NEW next \in Head(queue).parts, NEW before,
         StartStoring(next, queue, n, s, before),
         open => stored' = brought' \ Ahead(queue, next) /\ added' = n,
         write # NoRun =>
           before = "None" /\ (next = "Balances" => "Transactions" \notin Head(queue).parts)
  PROVE  FInv'
<1>0. /\ queue \in Seq(Entries) /\ s \in Summaries /\ next \in Parts
      /\ s.kept \in BOOLEAN
  BY HeadAndTail DEF Settled, Summaries
<1>1. CASE ~open
  <2>1. Closed("StoreFailed", n, s)
    BY <1>1 DEF StartStoring
  <2>2. ~stood' /\ "StoreFailed" \in Outcomes
    BY <1>1 DEF Settled, Outcomes
  <2> QED
    BY <1>0, <2>1, <2>2, Closing DEF Settled
<1>2. CASE open
  <2>1. /\ pending' = queue /\ storedCount' = n /\ storedBeforeRun' = n /\ summary' = s
        /\ waitingForAbortAnswer' = FALSE /\ storeFailed' = FALSE
        /\ running' = running /\ attempted' = attempted /\ report' = report
    BY <1>2 DEF StartStoring
  <2>2. stored' = brought' \ Ahead(queue, next) /\ added' = n /\ n \in Nat
    BY <1>2 DEF Settled, Facts
  <2>3. running' = TRUE
    BY <2>1 DEF Settled, IInv, Types
  <2>4. Counts'
    BY <1>0, <2>1, <2>2 DEF Counts, Settled
  <2>5. QueueFits(pending, brought)'
    BY <2>1 DEF Settled, QueueFits, PartsOf
  <2>6. Idle' /\ InSession' /\ Standing'
    BY <1>2, <2>3 DEF Idle, InSession, Standing, Settled
  <2>7. OutcomeFits' /\ FiguresKept'
    BY <1>0, <2>1 DEF OutcomeFits, FiguresKept, Settled, FiguresOf
  <2>8. TellsTheTruth' /\ FiguresAreTrue'
    BY <2>3 DEF TellsTheTruth, FiguresAreTrue, Over
  <2>9. AtHead' /\ Booked'
    <3>1. CASE write # NoRun
      <4>1. phase' = "None" /\ retry' = next /\ Ahead(queue, next) = PartsOf(queue)
        BY <1>0, <1>2, <3>1, AllAhead
           DEF StartStoring, StorageBusy, PhaseAfter, RetryOf, Settled
      <4>2. ~OwnRunIsOut' /\ ~OwnEndIsTold'
        BY <4>1 DEF Settled, IInv, PhaseIsOwn
      <4> QED
        BY <2>1, <2>2, <4>1, <4>2
           DEF AtHead, Booked, BetweenRuns, RunBooked, EndBooked, PartsOf
    <3>2. CASE write = NoRun
      <4>1. /\ phase' = next /\ retry' = "None"
            /\ write' = RunFor("fetch", <<Head(queue).of, next>>,
                               IF next = "Transactions" THEN Head(queue).fresh ELSE 0)
        BY <1>2, <3>2 DEF StartStoring, StorageBusy, PhaseAfter
      <4>2. /\ write'.good = FALSE /\ write'.by = "fetch" /\ next # "None"
            /\ next = "Balances" => write'.fresh = 0
        BY <1>0, <4>1 DEF RunFor, Parts
      <4>3. ~OwnEndIsTold'
        <5>1. write' # NoRun
          BY <4>1 DEF RunFor, NoRun
        <5> QED
          BY <5>1 DEF Settled, IInv, OneRun, OwnEndIsTold
      <4>4. Before' = stored'
        BY <2>1, <2>2, <4>1 DEF Before, Ahead, PartsOf
      <4> QED
        BY <2>1, <2>2, <4>1, <4>2, <4>3, <4>4
           DEF AtHead, Booked, BetweenRuns, RunBooked, EndBooked
    <3> QED
      BY <3>1, <3>2
  <2> QED
    BY <2>4, <2>5, <2>6, <2>7, <2>8, <2>9 DEF FInv, Settled
<1> QED
  BY <1>1, <1>2

(* The next account, or the end of the fetch.                              *)
LEMMA NextAccountFits ==
  ASSUME NEW queue, NEW n, NEW s, Settled(queue, n, s), NEW o, o = outcome',
         BeginNextAccount(o, queue, n, s),
         open => stored' = brought' \ PartsOf(queue) /\ added' = n
  PROVE  FInv'
<1>0. queue \in Seq(Entries) /\ s \in Summaries /\ s.kept \in BOOLEAN
  BY DEF Settled, Summaries
<1>1. CASE queue = <<>>
  <2>1. Closed(o, n, s)
    BY <1>1 DEF BeginNextAccount, Ends
  <2>2. o \in Outcomes /\ o # "StoreFailed"
    BY DEF Settled, Outcomes
  <2>3. stood' => SaysTruly(o, n, s.kept, stored', brought', added')
    <3>1. stood' => stored' = brought' /\ added' = n
      BY <1>1, NoParts DEF Settled
    <3>2. o = "Aborted" => s.kept = TRUE
      BY DEF Settled
    <3> QED
      BY <2>2, <3>1, <3>2 DEF SaysTruly, Settled
  <2>4. overAllAccounts /\ ~s.kept /\ o \in {"Received", "StoreFailed"} =>
          FiguresOf(fate', s, attempted)
    BY <2>2 DEF Settled
  <2> QED
    BY <1>0, <2>1, <2>2, <2>3, <2>4, Closing DEF Settled
<1>2. CASE queue # <<>>
  <2>1. StartStoring(FirstOf(queue), queue, n, s, "None")
    BY <1>2 DEF BeginNextAccount, FirstOf
  <2>2. /\ FirstOf(queue) \in Head(queue).parts
        /\ FirstOf(queue) = "Balances" => "Transactions" \notin Head(queue).parts
    <3>1. Head(queue).parts # {} /\ Head(queue).parts \subseteq Parts
      BY <1>0, <1>2, HeadAndTail DEF Settled
    <3> QED
      BY <3>1 DEF FirstOf, Parts
  <2> HIDE DEF FirstOf
  <2>3. Ahead(queue, FirstOf(queue)) = PartsOf(queue)
    BY <1>0, <1>2, <2>2, AllAhead DEF Settled
  <2> QED
    BY <1>2, <2>1, <2>2, <2>3, StoringFits
<1> QED
  BY <1>1, <1>2

-----------------------------------------------------------------------------
(* At the start nothing was fetched.                                       *)
LEMMA InitFInv == Init => FInv
<1> SUFFICES ASSUME Init PROVE FInv
  OBVIOUS
<1>1. {} \in SUBSET Accounts /\ BookedIn({}) = {} /\ Cardinality({}) = 0
  BY FS_EmptySet DEF BookedIn
<1>2. 0 \in Count /\ NoSummary \in Summaries
  BY Counting DEF Count, NoSummary, Summaries
<1>3. Facts
  <2>1. fate \in [Accounts -> Fates]
    BY DEF Init, Fates
  <2>2. added = 0 /\ Cardinality(BookedIn(stored)) = 0
    BY <1>1 DEF Init
  <2>3. fetches \in 0..MaxFetches /\ setups \in 0..MaxSetups
    BY FetchAssumption DEF Init
  <2>4. write = NoRun /\ outcome \in Outcomes
    BY DEF Init, Outcomes
  <2>5. overAllAccounts \in BOOLEAN /\ stood \in BOOLEAN
    BY DEF Init
  <2>6. brought \subseteq Accounts \X Parts /\ stored \subseteq Accounts \X Parts
    BY DEF Init
  <2> QED
    BY <2>1, <2>2, <2>3, <2>4, <2>5, <2>6 DEF Facts
<1>4. Counts
  BY <1>2 DEF Init, Counts
<1>5. QueueFits(pending, brought)
  <2>1. Len(<<>>) = 0 /\ DOMAIN <<>> = {}
    OBVIOUS
  <2> QED
    BY <2>1, NoParts, Counting DEF Init, QueueFits
<1>6. AtHead /\ Booked /\ Idle /\ InSession /\ Standing /\ OutcomeFits /\ FiguresKept
  BY DEF Init, AtHead, Booked, BetweenRuns, RunBooked, EndBooked, OwnRunIsOut, OwnEndIsTold,
         Idle, InSession, Standing, OutcomeFits, FiguresKept
<1>7. TellsTheTruth /\ FiguresAreTrue
  BY DEF Init, TellsTheTruth, FiguresAreTrue, Over
<1> QED
  BY <1>3, <1>4, <1>5, <1>6, <1>7 DEF FInv

-----------------------------------------------------------------------------
(* What the fetch has no part in.                                          *)
LEMMA NoPartInIt ==
  ASSUME FInv, UNCHANGED <<fetch, fate, brought, stored, added, fetches>>,
         stood' \in BOOLEAN, stood' => stood, Standing', RunBooked', EndBooked',
         write' # NoRun => write'.since <= generation', setups' \in 0..MaxSetups
  PROVE  FInv'
<1> USE DEF fetch, progress
<1>1. Facts' /\ Counts'
  BY DEF FInv, Facts, Counts, BookedIn
<1>2. QueueFits(pending, brought)'
  BY DEF FInv, QueueFits, PartsOf
<1>3. AtHead' /\ Idle' /\ InSession' /\ OutcomeFits' /\ BetweenRuns'
  BY DEF FInv, AtHead, Idle, InSession, OutcomeFits, Booked, BetweenRuns, PartsOf
<1>4. FiguresKept'
  BY DEF FInv, FiguresKept, FiguresOf, Fated
<1>5. TellsTheTruth' /\ FiguresAreTrue'
  BY DEF FInv, TellsTheTruth, FiguresAreTrue, Over, Became
<1> QED
  BY <1>1, <1>2, <1>3, <1>4, <1>5 DEF FInv, Booked

(* The vault, the wizard and the thread of the run leave the figures       *)
(* alone.                                                                  *)
LEMMA OpenVaultFigures == IInv /\ IInv' /\ FInv /\ OpenVault => FInv'
<1> SUFFICES ASSUME IInv, IInv', FInv, OpenVault PROVE FInv'
  OBVIOUS
<1>1. UNCHANGED <<fetch, fate, brought, stored, added, stood, fetches, setups, write, generation>>
  BY DEF OpenVault, truth
<1>2. ~running' /\ phase' = "None"
  BY DEF OpenVault, fetch, progress, IInv, Placed
<1>3. Standing' /\ RunBooked' /\ EndBooked'
  BY <1>2 DEF Standing, RunBooked, EndBooked, IInv, PhaseIsOwn
<1> QED
  BY <1>1, <1>3, NoPartInIt DEF FInv, Facts

LEMMA VaultFallsFigures == IInv /\ FInv /\ VaultFalls => FInv'
<1> SUFFICES ASSUME IInv, FInv, VaultFalls PROVE FInv'
  OBVIOUS
<1>1. /\ UNCHANGED <<fetch, fate, brought, stored, added, fetches, setups, write, telling, toHear>>
      /\ generation' = generation + 1 /\ stood' \in BOOLEAN /\ (stood' => stood /\ ~running')
  BY DEF VaultFalls, fetch, FInv, Facts
<1>2. Standing'
  BY <1>1 DEF Standing
<1>3. RunBooked' /\ EndBooked'
  BY <1>1 DEF fetch, progress, FInv, Booked, RunBooked, EndBooked, OwnRunIsOut, OwnEndIsTold,
              Now, Before, Ahead, PartsOf, HeadPart
<1>4. write' # NoRun => write'.since <= generation'
  <2>1. write # NoRun => write.since \in Nat /\ generation \in Nat /\ write.since <= generation
    BY FetchAssumption DEF IInv, Types, WriteRuns, FInv, Facts
  <2> QED
    BY <1>1, <2>1
<1> QED
  BY <1>1, <1>2, <1>3, <1>4, NoPartInIt DEF FInv, Facts

LEMMA WizardStoresFigures == IInv /\ IInv' /\ FInv /\ WizardStores => FInv'
<1> SUFFICES ASSUME IInv, IInv', FInv, WizardStores PROVE FInv'
  OBVIOUS
<1>1. /\ UNCHANGED <<fetch, fate, brought, stored, added, stood, fetches, generation>>
      /\ setups' = setups + 1 /\ setups < MaxSetups
  BY DEF WizardStores, truth
<1>2. ~running' /\ phase' = "None"
  BY DEF WizardStores, fetch, progress, IInv, Placed
<1>3. Standing' /\ RunBooked' /\ EndBooked'
  BY <1>2 DEF Standing, RunBooked, EndBooked, IInv, PhaseIsOwn
<1>4. write'.since = generation' /\ generation' \in Nat
  BY <1>1, FetchAssumption DEF WizardStores, RunFor, IInv, Types
<1>5. setups' \in 0..MaxSetups
  BY <1>1, FetchAssumption DEF FInv, Facts
<1> QED
  BY <1>1, <1>3, <1>4, <1>5, NoPartInIt DEF FInv, Facts

LEMMA CloneFigures == IInv /\ FInv /\ Clone => FInv'
<1> SUFFICES ASSUME IInv, FInv, Clone PROVE FInv'
  OBVIOUS
<1>1. /\ UNCHANGED <<fetch, fate, brought, stored, added, stood, fetches, setups, generation,
                     telling, toHear, open>>
  BY DEF Clone, truth
<1>2. write \in WriteRuns /\ write # NoRun
  BY DEF Clone, IInv, Types, NoRun
<1>3. PICK stage \in {"working", "ended"} : write' = [write EXCEPT !.stage = stage]
  BY DEF Clone
<1>4. /\ write'.by = write.by /\ write'.since = write.since /\ write'.fresh = write.fresh
      /\ write'.good = write.good
  BY <1>2, <1>3 DEF WriteRuns
<1>5. RunBooked' /\ EndBooked' /\ Standing'
  BY <1>1, <1>2, <1>4
     DEF fetch, progress, FInv, Booked, RunBooked, EndBooked, OwnRunIsOut, OwnEndIsTold,
         Now, Before, Ahead, PartsOf, HeadPart, Standing
<1> QED
  BY <1>1, <1>2, <1>4, <1>5, NoPartInIt DEF FInv, Facts

LEMMA WizardHearsFigures == FInv /\ WizardHears => FInv'
<1> SUFFICES ASSUME FInv, WizardHears PROVE FInv'
  OBVIOUS
<1>1. UNCHANGED <<fetch, fate, brought, stored, added, stood, fetches, setups, generation,
                  write, open>>
  BY DEF WizardHears, truth
<1>2. OwnEndIsTold' => OwnEndIsTold /\ telling' = telling
  BY DEF WizardHears, Heard, OwnEndIsTold
<1>3. RunBooked' /\ EndBooked' /\ Standing'
  BY <1>1, <1>2
     DEF fetch, progress, FInv, Booked, RunBooked, EndBooked, OwnRunIsOut,
         Now, Before, Ahead, PartsOf, HeadPart, Standing
<1> QED
  BY <1>1, <1>3, NoPartInIt DEF FInv, Facts

-----------------------------------------------------------------------------
(* A fetch begins.                                                         *)
LEMMA BeginsFigures ==
  ASSUME IInv, IInv', FInv, NEW all \in BOOLEAN, NEW unreadable \in SUBSET Accounts,
         NEW S \in SUBSET Accounts, NEW sent \in BOOLEAN, sent => open,
         Begins(all, unreadable, S, sent),
         attempted' \in {0, Cardinality(Accounts)}, summary' \in Summaries,
         summary'.kept = FALSE,
         all /\ sent => /\ S = Accounts /\ attempted' = Cardinality(Accounts)
                        /\ summary' = [NoSummary EXCEPT !.failed = Cardinality(unreadable)]
  PROVE  FInv'
<1>1. /\ ~running /\ phase' = "None" /\ retry' = "None" /\ pending' = <<>>
      /\ storedCount' = 0 /\ storedBeforeRun' = 0
      /\ brought' = {} /\ stored' = {} /\ added' = 0 /\ stood' = TRUE /\ report' = NoReport
      /\ running' = TRUE /\ overAllAccounts' = all /\ outcome' = "Received"
      /\ session' = (IF sent THEN "out" ELSE "doomed")
      /\ asked' = (IF sent THEN S \ unreadable ELSE {})
      /\ fate' = [a \in Accounts |-> IF a \in unreadable THEN "unreadable" ELSE "none"]
      /\ fetches' = fetches + 1 /\ fetches < MaxFetches
      /\ UNCHANGED <<open, generation, write, setups>>
  BY DEF Begins, SessionIsFree, storage, FInv, Idle, IInv, Placed
<1>2. BookedIn({}) = {} /\ Cardinality({}) = 0
  BY FS_EmptySet DEF BookedIn
<1>3. Facts'
  <2>1. fetches' \in 0..MaxFetches
    BY <1>1, FetchAssumption DEF FInv, Facts
  <2>2. fate' \in [Accounts -> Fates]
    BY <1>1 DEF Fates
  <2>3. added' = 0 /\ Cardinality(BookedIn(stored))' = 0
    BY <1>1, <1>2
  <2>4. outcome' \in Outcomes
    BY <1>1 DEF Outcomes
  <2> QED
    BY <1>1, <2>1, <2>2, <2>3, <2>4 DEF FInv, Facts
<1>4. Counts'
  BY <1>1 DEF Counts
<1>5. QueueFits(pending, brought)'
  <2>1. Len(<<>>) = 0 /\ DOMAIN <<>> = {}
    OBVIOUS
  <2> QED
    BY <1>1, <2>1, NoParts, Counting DEF QueueFits
<1>6. ~OwnRunIsOut' /\ ~OwnEndIsTold'
  BY <1>1 DEF IInv, PhaseIsOwn
<1>7. /\ AtHead' /\ Booked' /\ Idle' /\ InSession' /\ Standing' /\ OutcomeFits'
      /\ TellsTheTruth' /\ FiguresAreTrue'
  BY <1>1, <1>6
     DEF AtHead, Booked, BetweenRuns, RunBooked, EndBooked, Idle, InSession, Standing,
         OutcomeFits, TellsTheTruth, FiguresAreTrue, Over
<1>8. FiguresKept'
  <2> SUFFICES ASSUME all, sent
               PROVE  /\ summary' = [skipped |-> 0, failed |-> Cardinality(Accounts \ asked'),
                                     kept |-> FALSE]
                      /\ fate' = [a \in Accounts |-> IF a \in asked' THEN "none" ELSE "unreadable"]
    BY <1>1 DEF FiguresKept
  <2>1. asked' = Accounts \ unreadable /\ Accounts \ asked' = unreadable
    BY <1>1
  <2> QED
    BY <1>1, <2>1 DEF NoSummary
<1> QED
  BY <1>3, <1>4, <1>5, <1>7, <1>8 DEF FInv

(* What start and startAll hand over as figures is what FiguresKept asks.  *)
LEMMA StartFigures == IInv /\ IInv' /\ FInv /\ (StartAll \/ \E a \in Accounts : Start(a)) => FInv'
<1> SUFFICES ASSUME IInv, IInv', FInv, StartAll \/ \E a \in Accounts : Start(a) PROVE FInv'
  OBVIOUS
<1>1. ASSUME NEW a \in Accounts, Start(a) PROVE FInv'
  <2>1. PICK sent \in BOOLEAN : (sent => open) /\ Begins(FALSE, {}, {a}, sent)
    BY <1>1 DEF Start
  <2>2. ~running
    BY <2>1 DEF Begins, SessionIsFree
  <2>3. UNCHANGED <<summary, attempted>> /\ summary.kept = FALSE
    BY <1>1, <2>2 DEF Start, FInv, Idle, NoSummary
  <2>4. attempted' \in {0, Cardinality(Accounts)} /\ summary' \in Summaries
    BY <2>3 DEF FInv, Counts
  <2> QED
    BY <2>1, <2>3, <2>4, BeginsFigures
<1>2. CASE StartAll
  <2>1. PICK unreadable \in SUBSET Accounts, up \in BOOLEAN :
          /\ ~open /\ up => unreadable = Accounts
          /\ Begins(TRUE, unreadable, Accounts, up /\ unreadable # Accounts)
          /\ attempted' = IF up THEN Attempted(unreadable) ELSE 0
          /\ summary' = [NoSummary EXCEPT !.failed = Cardinality(unreadable)]
    BY <1>2 DEF StartAll
  <2>2. Cardinality(unreadable) \in Count /\ 0 \in Count
    BY Counting DEF Count
  <2>3. summary' \in Summaries /\ summary'.kept = FALSE
    BY <2>1, <2>2 DEF NoSummary, Summaries
  <2>4. PICK sent \in BOOLEAN : sent <=> up /\ unreadable # Accounts
    OBVIOUS
  <2>5. Begins(TRUE, unreadable, Accounts, sent) /\ (sent => open)
    <3>1. sent = (up /\ unreadable # Accounts)
      BY <2>4
    <3> QED
      BY <2>1, <3>1
  <2> QED
    BY <2>1, <2>3, <2>4, <2>5, BeginsFigures DEF Attempted
<1> QED
  BY <1>1, <1>2

-----------------------------------------------------------------------------
(* A session comes back.                                                   *)

(* A run that is started is of the present connection.                     *)
LEMMA StartsNow ==
  ASSUME NEW o, NEW queue, NEW n, NEW s, BeginNextAccount(o, queue, n, s)
  PROVE  write' = write \/ write'.since = generation
<1>1. CASE queue = <<>>
  BY <1>1 DEF BeginNextAccount, Ends
<1>2. CASE queue # <<>>
  BY <1>2 DEF BeginNextAccount, StartStoring, RunFor
<1> QED
  BY <1>1, <1>2

(* Facts that a step of the fetch leaves alone.                            *)
LEMMA FactsKept ==
  ASSUME IInv, Facts, UNCHANGED <<generation, overAllAccounts, stored, added, stood, fetches, setups>>,
         outcome' \in Outcomes, fate' \in [Accounts -> Fates], brought' \subseteq Accounts \X Parts,
         write' = write \/ write'.since = generation
  PROVE  Facts'
<1>1. generation \in Nat
  BY FetchAssumption DEF IInv, Types
<1>2. write' # NoRun => write'.since <= generation'
  BY <1>1 DEF Facts
<1>3. Cardinality(BookedIn(stored))' = Cardinality(BookedIn(stored))
  BY DEF BookedIn
<1> QED
  BY <1>2, <1>3 DEF Facts

(* How a session over several accounts leaves the fates and the summary.   *)
LEMMA SummaryOfFates ==
  ASSUME IInv, FInv, session = "out", NEW of \in [asked -> Fates], Judged(of)
  PROVE  /\ fate' \in [Accounts -> Fates]
         /\ Skips(of) \in Summaries /\ Skips(of).kept = FALSE
         /\ [Skips(of) EXCEPT !.failed = 0] \in Summaries
         /\ [Skips(of) EXCEPT !.failed = 0].kept = FALSE
<1>1. asked \subseteq Accounts /\ summary \in Summaries /\ summary.kept = FALSE
  BY DEF IInv, Types, FInv, Counts, InSession
<1>2. Cardinality(With(of, "offline")) \in Count /\ 0 \in Count
  <2>1. With(of, "offline") \in SUBSET Accounts
    BY <1>1 DEF With
  <2> QED
    BY <2>1, Counting DEF Count
<1>3. fate' \in [Accounts -> Fates]
  BY DEF Judged, FInv, Facts
<1> QED
  BY <1>1, <1>2, <1>3 DEF Skips, Summaries

(* The figures of a session that went through are what became of the       *)
(* accounts: each was skipped, failed, or was fetched.                     *)
LEMMA FiguresOfFates ==
  ASSUME IInv, FInv, session = "out", overAllAccounts,
         NEW of \in [asked -> {"offline", "nothing", "refused", "answered"}], Judged(of),
         NEW s, s = [Skips(of) EXCEPT !.failed = @ + Cardinality(With(of, "refused"))]
  PROVE  s \in Summaries /\ s.kept = FALSE /\ FiguresOf(fate', s, attempted)
<1> DEFINE lost == Accounts \ asked
           offline == With(of, "offline")
           refused == With(of, "refused")
           good == With(of, "answered") \cup With(of, "nothing")
<1>1. /\ asked \subseteq Accounts /\ attempted = Cardinality(Accounts)
      /\ summary = [skipped |-> 0, failed |-> Cardinality(lost), kept |-> FALSE]
      /\ fate = [a \in Accounts |-> IF a \in asked THEN "none" ELSE "unreadable"]
  BY DEF IInv, Types, FInv, FiguresKept
<1>2. s = [skipped |-> Cardinality(offline), failed |-> Cardinality(lost) + Cardinality(refused),
           kept |-> FALSE]
  BY <1>1 DEF Skips
<1>3. fate' = [a \in Accounts |-> IF a \in asked THEN of[a] ELSE "unreadable"]
  BY <1>1 DEF Judged
<1>4. /\ Fated({"offline"}, fate') = offline
      /\ Fated({"refused", "unreadable"}, fate') = lost \cup refused
      /\ Fated({"answered", "nothing"}, fate') = good
  BY <1>1, <1>3 DEF Fated, With
<1>5. /\ lost \in SUBSET Accounts /\ refused \in SUBSET Accounts
      /\ offline \in SUBSET Accounts /\ good \in SUBSET Accounts
      /\ lost \cap refused = {} /\ (lost \cup refused) \cap offline = {}
      /\ good \cap ((lost \cup refused) \cup offline) = {}
      /\ good \cup ((lost \cup refused) \cup offline) = Accounts
  BY <1>1 DEF With
<1> HIDE DEF lost, offline, refused, good
<1>6. /\ Cardinality(lost \cup refused) = Cardinality(lost) + Cardinality(refused)
      /\ Cardinality((lost \cup refused) \cup offline)
           = Cardinality(lost \cup refused) + Cardinality(offline)
      /\ Cardinality(Accounts)
           = Cardinality(good) + Cardinality((lost \cup refused) \cup offline)
  <2>1. lost \cup refused \in SUBSET Accounts /\ (lost \cup refused) \cup offline \in SUBSET Accounts
    BY <1>5
  <2>2. Cardinality(lost \cup refused) = Cardinality(lost) + Cardinality(refused)
    BY <1>5, Apart
  <2>3. Cardinality((lost \cup refused) \cup offline)
          = Cardinality(lost \cup refused) + Cardinality(offline)
    BY <1>5, <2>1, Apart
  <2>4. Cardinality(good \cup ((lost \cup refused) \cup offline))
          = Cardinality(good) + Cardinality((lost \cup refused) \cup offline)
    BY <1>5, <2>1, Apart
  <2> QED
    BY <1>5, <2>2, <2>3, <2>4
<1>7. /\ Cardinality(lost) \in Nat /\ Cardinality(refused) \in Nat
      /\ Cardinality(offline) \in Nat /\ Cardinality(good) \in Nat
      /\ Cardinality(Accounts) \in Nat
  BY <1>5, Counting
<1>8. Cardinality(offline) \in Count /\ Cardinality(lost) + Cardinality(refused) \in Count
  BY <1>6, <1>7 DEF Count
<1>9. s \in Summaries /\ s.kept = FALSE
  <2> DEFINE failures == Cardinality(lost) + Cardinality(refused)
  <2>1. failures \in Count /\ s = [skipped |-> Cardinality(offline), failed |-> failures, kept |-> FALSE]
    BY <1>2, <1>8
  <2> HIDE DEF failures
  <2> QED
    BY ONLY <1>8, <2>1 DEF Summaries
<1>10. FiguresOf(fate', s, attempted)
  <2>1. /\ s.skipped = Cardinality(offline)
        /\ s.failed = Cardinality(lost) + Cardinality(refused)
    BY <1>2
  <2>2. attempted = Cardinality(good) + s.skipped + s.failed
    BY <1>1, <1>6, <1>7, <2>1
  <2> QED
    BY <1>4, <1>6, <2>1, <2>2 DEF FiguresOf
<1> QED
  BY <1>9, <1>10

(* What all ends of a session share.                                       *)
LEMMA ReturningFigures ==
  ASSUME FInv, IInv, SessionReturns
  PROVE  /\ running /\ session = "out" /\ session' = "none" /\ waitingForAbortAnswer = FALSE
         /\ stored' = {} /\ added' = 0 /\ storedCount = 0
         /\ open' = open /\ (stood' => open)
         /\ UNCHANGED <<generation, overAllAccounts, stored, added, stood, fetches, setups>>
         /\ summary \in Summaries /\ summary.kept = FALSE
         /\ attempted \in {0, Cardinality(Accounts)}
         /\ report = NoReport \/ report.outcome \in Outcomes
<1>1. running /\ session = "out" /\ waitingForAbortAnswer = FALSE
  BY DEF SessionReturns, IInv, Types, Placed
<1>2. stored = {} /\ added = 0 /\ storedCount = 0 /\ summary.kept = FALSE
  BY <1>1 DEF FInv, InSession
<1>3. stood => open
  BY <1>1 DEF FInv, Standing
<1> QED
  BY <1>1, <1>2, <1>3 DEF SessionReturns, FInv, Counts

(* It brought nothing, or nothing that is kept.                            *)
LEMMA EmptyFigures ==
  ASSUME IInv, IInv', FInv, SessionReturns, Facts',
         NEW o \in {"Skipped", "NothingOffered", "Aborted", "Failed"},
         NEW s \in Summaries, s.kept = FALSE, Ends(o, storedCount, s)
  PROVE  FInv'
<1>1. Closed(o, storedCount, s) /\ o \in Outcomes
  BY DEF Ends, Outcomes
<1>2. SaysTruly(o, storedCount, s.kept, stored', brought', added')
  BY ReturningFigures DEF SaysTruly
<1> QED
  BY <1>1, <1>2, ReturningFigures, Closing

(* It brought a queue that is stored at once.                              *)
LEMMA FullFigures ==
  ASSUME IInv, IInv', FInv, SessionReturns, Facts', NEW S \in SUBSET Accounts,
         NEW queue \in QueueReceived(S), brought' = PartsOf(queue),
         NEW s \in Summaries, s.kept = FALSE,
         outcome' \in {"Received", "BalanceOnly"},
         overAllAccounts => outcome' = "Received" /\ FiguresOf(fate', s, attempted),
         BeginNextAccount(outcome', queue, storedCount, s)
  PROVE  FInv'
<1>1. queue \in Seq(Entries) /\ QueueFits(queue, brought')
  BY ReceivedFits
<1>2. Settled(queue, storedCount, s)
  BY <1>1, ReturningFigures DEF Settled
<1>3. stored' = brought' \ PartsOf(queue) /\ added' = storedCount
  BY ReturningFigures
<1>4. PICK o : o = outcome'
  OBVIOUS
<1>5. BeginNextAccount(o, queue, storedCount, s)
  BY <1>4
<1> QED
  BY <1>2, <1>3, <1>4, <1>5, NextAccountFits

(* The ends of a session over one account.                                 *)
LEMMA SingleFigures ==
  ASSUME IInv, IInv', FInv, SingleEndsEmpty \/ SingleDelivers
  PROVE  FInv'
<1>1. asked \in SUBSET Accounts
  BY DEF IInv, Types
<1>2. SessionReturns /\ ~overAllAccounts /\ fate' = fate
  BY DEF SingleEndsEmpty, SingleDelivers
<1>3. CASE SingleEndsEmpty
  <2>1. PICK o \in {"Skipped", "NothingOffered", "Aborted", "Failed"} :
          outcome' = o /\ Ends(o, storedCount, summary)
    BY <1>3 DEF SingleEndsEmpty
  <2>2. brought' = brought /\ write' = write /\ o \in Outcomes
    BY <1>3, <2>1 DEF SingleEndsEmpty, Ends, Outcomes
  <2>3. Facts'
    BY <1>2, <2>1, <2>2, ReturningFigures, FactsKept DEF FInv, Facts
  <2> QED
    BY <1>2, <2>1, <2>3, ReturningFigures, EmptyFigures
<1>4. CASE SingleDelivers
  <2>1. PICK o \in {"Received", "BalanceOnly"}, queue \in QueueReceived(asked), userAborted \in BOOLEAN :
          /\ brought' = PartsOf(queue)
          /\ IF userAborted
             THEN outcome' = "Aborted" /\ Ends("Aborted", storedCount, summary)
             ELSE outcome' = o /\ BeginNextAccount(o, queue, storedCount, summary)
    BY <1>4 DEF SingleDelivers
  <2>2. brought' \subseteq Accounts \X Parts
    BY <1>1, <2>1, ReceivedFits, PartsIn
  <2>3. outcome' \in Outcomes /\ (write' = write \/ write'.since = generation)
    BY <2>1, StartsNow DEF Ends, Outcomes
  <2>4. Facts'
    BY <1>2, <2>2, <2>3, ReturningFigures, FactsKept DEF FInv, Facts
  <2>5. CASE userAborted
    BY <1>2, <2>1, <2>4, <2>5, ReturningFigures, EmptyFigures
  <2>6. CASE ~userAborted
    BY <1>1, <1>2, <2>1, <2>4, <2>6, ReturningFigures, FullFigures
  <2> QED
    BY <2>5, <2>6
<1> QED
  BY <1>3, <1>4

(* The ends of a session over several accounts.                            *)
LEMMA AllFailFigures == IInv /\ IInv' /\ FInv /\ AllFail => FInv'
<1> SUFFICES ASSUME IInv, IInv', FInv, AllFail PROVE FInv'
  OBVIOUS
<1>1. SessionReturns /\ outcome' = "Failed" /\ brought' = brought
  BY DEF AllFail
<1>2. PICK of \in [asked -> {"offline", "nothing", "cut"}] :
        Judged(of) /\ Ends("Failed", storedCount, Skips(of))
  BY DEF AllFail
<1>3. of \in [asked -> Fates]
  BY DEF Fates
<1>4. fate' \in [Accounts -> Fates] /\ Skips(of) \in Summaries /\ Skips(of).kept = FALSE
  BY <1>1, <1>2, <1>3, ReturningFigures, SummaryOfFates
<1>5. Facts'
  <2>1. write' = write /\ outcome' \in Outcomes
    BY <1>1, <1>2 DEF Ends, Outcomes
  <2> QED
    BY <1>1, <1>4, <2>1, ReturningFigures, FactsKept DEF FInv, Facts
<1> QED
  BY <1>1, <1>2, <1>4, <1>5, EmptyFigures

LEMMA AllDeliverFigures == IInv /\ IInv' /\ FInv /\ AllDeliver => FInv'
<1> SUFFICES ASSUME IInv, IInv', FInv, AllDeliver PROVE FInv'
  OBVIOUS
<1>1. SessionReturns /\ overAllAccounts /\ outcome' = "Received"
  BY DEF AllDeliver
<1>2. PICK of \in [asked -> {"offline", "nothing", "refused", "answered"}] :
        /\ Judged(of)
        /\ \E queue \in QueueReceived(asked \ (With(of, "offline") \cup With(of, "nothing"))) :
             /\ brought' = PartsOf(queue)
             /\ BeginNextAccount("Received", queue, storedCount,
                  [Skips(of) EXCEPT !.failed = @ + Cardinality(With(of, "refused"))])
  BY DEF AllDeliver
<1>3. PICK queue \in QueueReceived(asked \ (With(of, "offline") \cup With(of, "nothing"))) :
        /\ brought' = PartsOf(queue)
        /\ BeginNextAccount("Received", queue, storedCount,
             [Skips(of) EXCEPT !.failed = @ + Cardinality(With(of, "refused"))])
  BY <1>2
<1>4. PICK s : s = [Skips(of) EXCEPT !.failed = @ + Cardinality(With(of, "refused"))]
  OBVIOUS
<1>5. s \in Summaries /\ s.kept = FALSE /\ FiguresOf(fate', s, attempted)
  BY <1>1, <1>2, <1>4, ReturningFigures, FiguresOfFates
<1>6. BeginNextAccount("Received", queue, storedCount, s)
  BY <1>3, <1>4
<1>7. asked \ (With(of, "offline") \cup With(of, "nothing")) \in SUBSET Accounts
  BY DEF IInv, Types
<1>8. Facts'
  <2>1. brought' \subseteq Accounts \X Parts
    BY <1>3, <1>7, ReceivedFits, PartsIn
  <2>2. outcome' \in Outcomes /\ (write' = write \/ write'.since = generation)
    BY <1>1, <1>6, StartsNow DEF Outcomes
  <2>3. of \in [asked -> Fates]
    BY DEF Fates
  <2>4. fate' \in [Accounts -> Fates]
    BY <1>1, <1>2, <2>3, ReturningFigures, SummaryOfFates
  <2> QED
    BY <1>1, <2>1, <2>2, <2>4, ReturningFigures, FactsKept DEF FInv
<1> QED
  BY <1>1, <1>3, <1>5, <1>6, <1>7, <1>8, FullFigures

LEMMA AllAbortedFigures == IInv /\ IInv' /\ FInv /\ AllAborted => FInv'
<1> SUFFICES ASSUME IInv, IInv', FInv, AllAborted PROVE FInv'
  OBVIOUS
<1>1. SessionReturns /\ overAllAccounts /\ outcome' = "Aborted"
  BY DEF AllAborted
<1>2. PICK of \in [asked -> {"offline", "nothing", "refused", "answered", "cut"}] :
        /\ Judged(of)
        /\ \E queue \in QueueReceived(asked \ (With(of, "offline") \cup With(of, "nothing"))) :
             LET s == [Skips(of) EXCEPT !.failed = 0]
             IN  /\ brought' = PartsOf(queue)
                 /\ IF queue = <<>> THEN Ends("Aborted", storedCount, s)
                    ELSE /\ pending' = queue /\ summary' = s
                         /\ waitingForAbortAnswer' = TRUE
                         /\ UNCHANGED <<write, running, phase, storeFailed, storedCount,
                                        storedBeforeRun, retry, attempted, report>>
  BY DEF AllAborted
<1>3. PICK s : s = [Skips(of) EXCEPT !.failed = 0]
  OBVIOUS
<1>4. PICK queue \in QueueReceived(asked \ (With(of, "offline") \cup With(of, "nothing"))) :
        /\ brought' = PartsOf(queue)
        /\ IF queue = <<>> THEN Ends("Aborted", storedCount, s)
           ELSE /\ pending' = queue /\ summary' = s
                /\ waitingForAbortAnswer' = TRUE
                /\ UNCHANGED <<write, running, phase, storeFailed, storedCount,
                               storedBeforeRun, retry, attempted, report>>
  BY <1>2, <1>3
<1>5. of \in [asked -> Fates]
  BY DEF Fates
<1>6. fate' \in [Accounts -> Fates] /\ s \in Summaries /\ s.kept = FALSE
  BY <1>1, <1>2, <1>3, <1>5, ReturningFigures, SummaryOfFates
<1>7. asked \ (With(of, "offline") \cup With(of, "nothing")) \in SUBSET Accounts
  BY DEF IInv, Types
<1>8. queue \in Seq(Entries) /\ QueueFits(queue, brought') /\ brought' \subseteq Accounts \X Parts
  BY <1>4, <1>7, ReceivedFits, PartsIn
<1>9. Facts'
  <2>1. outcome' \in Outcomes /\ write' = write
    BY <1>1, <1>4 DEF Ends, Outcomes
  <2> QED
    BY <1>1, <1>6, <1>8, <2>1, ReturningFigures, FactsKept DEF FInv
<1>10. CASE queue = <<>>
  BY <1>1, <1>4, <1>6, <1>9, <1>10, EmptyFigures
<1>11. CASE queue # <<>>
  <2>1. /\ pending' = queue /\ summary' = s /\ waitingForAbortAnswer' = TRUE
        /\ UNCHANGED <<write, running, phase, storeFailed, storedCount,
                       storedBeforeRun, retry, attempted, report>>
    BY <1>4, <1>11
  <2>2. running' /\ phase' = "None" /\ retry' = "None" /\ session' = "none"
    BY <1>1, <2>1, ReturningFigures DEF IInv, Placed
  <2>3. ~OwnRunIsOut' /\ ~OwnEndIsTold'
    BY <2>2 DEF IInv, PhaseIsOwn
  <2>4. Counts'
    BY <1>1, <1>6, <2>1, ReturningFigures DEF FInv, Counts
  <2>5. QueueFits(pending, brought)'
    BY <1>8, <2>1 DEF QueueFits, PartsOf
  <2>6. AtHead' /\ Booked'
    BY <1>1, <1>4, <2>1, <2>2, <2>3, ReturningFigures
       DEF AtHead, Booked, BetweenRuns, RunBooked, EndBooked, PartsOf
  <2>7. Idle' /\ InSession' /\ Standing' /\ OutcomeFits' /\ FiguresKept'
    BY <1>1, <1>6, <2>1, <2>2, ReturningFigures
       DEF Idle, InSession, Standing, OutcomeFits, FiguresKept
  <2>8. TellsTheTruth' /\ FiguresAreTrue'
    BY <2>2 DEF TellsTheTruth, FiguresAreTrue, Over
  <2> QED
    BY <1>9, <2>4, <2>5, <2>6, <2>7, <2>8 DEF FInv
<1> QED
  BY <1>10, <1>11

(* A session that never came up stored nothing.                            *)
LEMMA FailLaterFigures == IInv /\ IInv' /\ FInv /\ FailLater => FInv'
<1> SUFFICES ASSUME IInv, IInv', FInv, FailLater PROVE FInv'
  OBVIOUS
<1>1. /\ Closed("Failed", storedCount, summary) /\ write' = write /\ session' = "none"
      /\ UNCHANGED <<generation, overAllAccounts, outcome, fate, brought, stored, added, stood,
                     fetches, setups>>
  BY DEF FailLater, Ends, truth
<1>2. /\ stored = {} /\ added = 0 /\ storedCount = 0 /\ summary \in Summaries
      /\ attempted \in {0, Cardinality(Accounts)}
  BY DEF FailLater, FInv, InSession, Counts
<1>3. Facts'
  BY <1>1, FactsKept DEF FInv, Facts
<1>4. "Failed" \in Outcomes
  BY DEF Outcomes
<1>5. SaysTruly("Failed", storedCount, summary.kept, stored', brought', added')
  BY <1>1, <1>2 DEF SaysTruly
<1> QED
  BY <1>1, <1>2, <1>3, <1>4, <1>5, Closing

-----------------------------------------------------------------------------
(* The user answers, the timer fires.                                      *)

(* A fetch that stands between two runs.                                   *)
LEMMA BetweenFigures ==
  ASSUME IInv, FInv, running, session = "none", phase = "None"
  PROVE  /\ stored = brought \ PartsOf(pending) /\ added = storedCount
         /\ pending \in Seq(Entries) /\ QueueFits(pending, brought)
         /\ summary \in Summaries /\ attempted \in {0, Cardinality(Accounts)}
         /\ report = NoReport \/ report.outcome \in Outcomes
         /\ stood => open
BY DEF IInv, Types, FInv, Booked, BetweenRuns, Counts, Standing

(* Keeping stores what waits; discarding leaves the file as it is.         *)
LEMMA AnswerFigures ==
  \A keep \in BOOLEAN : IInv /\ IInv' /\ FInv /\ AnswerAbort(keep) => FInv'
<1> SUFFICES ASSUME NEW keep \in BOOLEAN, IInv, IInv', FInv, AnswerAbort(keep) PROVE FInv'
  OBVIOUS
<1>1. /\ running /\ session = "none" /\ phase = "None" /\ stored = {}
      /\ outcome = "Aborted" /\ waitingForAbortAnswer = TRUE
  BY DEF AnswerAbort, IInv, Types, Placed, NothingYet, FInv, OutcomeFits
<1>2. UNCHANGED <<open, generation, overAllAccounts, session, outcome, fate, brought, stored, added,
                  stood, fetches, setups>>
  BY DEF AnswerAbort, truth
<1>3. PICK s : s = [summary EXCEPT !.kept = keep]
  OBVIOUS
<1>4. IF keep THEN BeginNextAccount("Aborted", pending, storedCount, s)
      ELSE Ends("Aborted", storedCount, s)
  BY <1>3 DEF AnswerAbort
<1>5. s \in Summaries /\ s.kept = keep
  BY <1>1, <1>3, BetweenFigures DEF Summaries
<1>6. Facts'
  <2>1. write' = write \/ write'.since = generation
    BY <1>4, StartsNow DEF Ends
  <2> QED
    BY <1>2, <2>1, FactsKept DEF FInv, Facts
<1>7. CASE keep
  <2>1. Settled(pending, storedCount, s)
    <3>1. QueueFits(pending, brought')
      BY <1>1, <1>2, BetweenFigures
    <3> QED
      BY <1>1, <1>2, <1>5, <1>6, <1>7, <3>1, BetweenFigures DEF Settled
  <2>2. stored' = brought' \ PartsOf(pending) /\ added' = storedCount
    BY <1>1, <1>2, BetweenFigures
  <2> QED
    BY <1>1, <1>2, <1>4, <1>7, <2>1, <2>2, NextAccountFits
<1>8. CASE ~keep
  <2>1. Closed("Aborted", storedCount, s) /\ "Aborted" \in Outcomes
    BY <1>4, <1>8 DEF Ends, Outcomes
  <2>2. SaysTruly("Aborted", storedCount, s.kept, stored', brought', added')
    BY <1>1, <1>2, <1>5, <1>8, BetweenFigures DEF SaysTruly
  <2> QED
    BY <1>1, <1>2, <1>5, <1>6, <2>1, <2>2, BetweenFigures, Closing
<1> QED
  BY <1>7, <1>8

(* The timer tries the part again that the head of the queue holds.        *)
LEMMA RetryFigures == IInv /\ IInv' /\ FInv /\ RetryFires => FInv'
<1> SUFFICES ASSUME IInv, IInv', FInv, RetryFires PROVE FInv'
  OBVIOUS
<1>1. /\ running /\ session = "none" /\ phase = "None" /\ waitingForAbortAnswer = FALSE
      /\ pending # <<>> /\ retry \in Head(pending).parts
      /\ retry = "Balances" => "Transactions" \notin Head(pending).parts
  BY DEF RetryFires, IInv, Types, Placed, BookingsFirst, FInv, AtHead
<1>2. UNCHANGED <<open, generation, overAllAccounts, session, outcome, fate, brought, stored, added,
                  stood, fetches, setups>>
  BY DEF RetryFires, truth
<1>3. PICK s : s = summary
  OBVIOUS
<1>4. PICK n : n = storedCount
  OBVIOUS
<1>5. PICK next : next = retry
  OBVIOUS
<1>6. StartStoring(next, pending, n, s, phase)
  BY <1>3, <1>4, <1>5 DEF RetryFires
<1>7. Facts'
  <2>1. write' = write \/ write'.since = generation
    BY <1>6 DEF StartStoring, RunFor
  <2> QED
    BY <1>2, <2>1, FactsKept DEF FInv, Facts
<1>8. Settled(pending, n, s)
  <2>1. /\ outcome \in {"Received", "BalanceOnly", "Aborted"}
        /\ overAllAccounts => outcome # "BalanceOnly"
        /\ outcome = "Aborted" <=> summary.kept = TRUE
    BY <1>1 DEF FInv, OutcomeFits
  <2>2. overAllAccounts /\ outcome = "Received" => FiguresOf(fate, summary, attempted)
    BY <1>1 DEF FInv, FiguresKept
  <2>3. QueueFits(pending, brought')
    BY <1>1, <1>2, BetweenFigures
  <2> QED
    BY <1>1, <1>2, <1>3, <1>7, <2>1, <2>2, <2>3, BetweenFigures DEF Settled
<1>9. stored' = brought' \ Ahead(pending, next) /\ added' = n
  BY <1>1, <1>2, <1>4, <1>5, BetweenFigures, AllAhead
<1>10. PICK earlier : earlier = phase
  OBVIOUS
<1>11. StartStoring(next, pending, n, s, earlier)
  BY <1>6, <1>10
<1> QED
  BY <1>1, <1>5, <1>8, <1>9, <1>10, <1>11, StoringFits

-----------------------------------------------------------------------------
(* The run in its thread, and its end.                                     *)

(* The part a run is for is one that was brought and is not stored yet.    *)
LEMMA RunOfThePart ==
  ASSUME IInv, FInv, phase # "None"
  PROVE  /\ running /\ session = "none" /\ pending # <<>> /\ pending \in Seq(Entries)
         /\ phase \in Parts /\ Head(pending).of \in Accounts
         /\ HeadPart(phase) \in PartsOf(pending) /\ HeadPart(phase) \in brought
         /\ HeadPart(phase) \notin Before
         /\ Before \subseteq Accounts \X Parts
<1>1. /\ running /\ session = "none" /\ pending # <<>> /\ pending \in Seq(Entries)
      /\ phase \in Parts /\ phase \in Head(pending).parts /\ QueueFits(pending, brought)
      /\ brought \subseteq Accounts \X Parts
  BY DEF IInv, Types, Placed, Phases, Parts, FInv, AtHead, Facts
<1>2. Head(pending).of \in Accounts
  BY <1>1, HeadOfQueue
<1>3. HeadPart(phase) \in PartsOf(pending)
  BY <1>1, HeadAndTail DEF HeadPart
<1>4. HeadPart(phase) \in brought
  BY <1>1, <1>3 DEF QueueFits
<1>5. HeadPart(phase) \in Ahead(pending, phase)
  BY <1>3 DEF HeadPart, Ahead
<1> QED
  BY <1>1, <1>2, <1>3, <1>4, <1>5 DEF Before

(* A run that commits puts its part into the file and its bookings into    *)
(* what was added.                                                         *)
LEMMA WriteFigures == IInv /\ IInv' /\ FInv /\ Write => FInv'
<1> SUFFICES ASSUME IInv, IInv', FInv, Write PROVE FInv'
  OBVIOUS
<1>1. /\ UNCHANGED <<fetch, fate, brought, stood, fetches, setups, generation, telling, toHear, open>>
      /\ write.stage = "working"
  BY DEF Write
<1>2. PICK good \in BOOLEAN :
        /\ write' = [write EXCEPT !.stage = "ended", !.good = good]
        /\ IF good /\ write.by = "fetch"
           THEN stored' = stored \cup {write.part} /\ added' = added + write.fresh
           ELSE UNCHANGED <<stored, added>>
  BY DEF Write
<1>3. /\ write \in WriteRuns /\ write # NoRun /\ write.good = FALSE /\ write.fresh \in 0..1
      /\ write'.by = write.by /\ write'.since = write.since /\ write'.fresh = write.fresh
      /\ write'.good = good /\ write' # NoRun
  <2>1. write \in WriteRuns /\ write # NoRun /\ write.good = FALSE
    BY <1>1 DEF IInv, Types, OneRun, NoRun
  <2>2. /\ write'.by = write.by /\ write'.since = write.since /\ write'.fresh = write.fresh
        /\ write'.good = good /\ write'.stage = "ended" /\ write.fresh \in 0..1
    BY <1>2, <2>1 DEF WriteRuns
  <2> QED
    BY <2>1, <2>2 DEF NoRun
<1>4. ~OwnEndIsTold'
  BY <1>1, <1>3 DEF IInv, OneRun, OwnEndIsTold
<1>5. CASE ~(good /\ write.by = "fetch")
  <2>1. UNCHANGED <<stored, added>>
    BY <1>2, <1>5
  <2>2. RunBooked'
    <3> SUFFICES ASSUME OwnRunIsOut' PROVE RunBooked'
      BY DEF RunBooked
    <3>1. OwnRunIsOut /\ good = FALSE
      BY <1>3, <1>5 DEF OwnRunIsOut
    <3> QED
      BY <1>1, <1>3, <2>1, <3>1
         DEF fetch, progress, FInv, Booked, RunBooked, Before, Ahead, PartsOf, HeadPart
  <2>3. EndBooked' /\ Standing'
    BY <1>1, <1>4 DEF EndBooked, FInv, Standing, fetch
  <2> QED
    BY <1>1, <1>3, <2>1, <2>2, <2>3, NoPartInIt DEF FInv, Facts
<1>6. CASE good /\ write.by = "fetch"
  <2>1. /\ OwnRunIsOut /\ phase # "None" /\ write.part = HeadPart(phase)
        /\ stored' = stored \cup {HeadPart(phase)} /\ added' = added + write.fresh
    BY <1>2, <1>3, <1>6 DEF OwnRunIsOut, IInv, PhaseIsOwn, RunIsTrue
  <2>2. /\ stored = Before /\ added = storedBeforeRun /\ storedCount = storedBeforeRun
        /\ storeFailed = FALSE /\ added \in Nat
        /\ phase = "Balances" => write.fresh = 0
    BY <1>3, <2>1 DEF FInv, Booked, RunBooked, Facts
  <2>3. stored' = Now /\ Now' = Now
    BY <1>1, <2>1, <2>2
       DEF Now, fetch, progress, Before, Ahead, PartsOf, HeadPart
  <2>4. added' \in Nat /\ added <= added' /\ added' <= Cardinality(BookedIn(stored'))
    <3>1. BookedIn(stored) \in SUBSET Accounts /\ BookedIn(stored') \in SUBSET Accounts
      BY DEF BookedIn
    <3>2. Cardinality(BookedIn(stored)) \in Nat /\ Cardinality(BookedIn(stored')) \in Nat
      BY <3>1, Counting
    <3>3. added <= Cardinality(BookedIn(stored))
      BY DEF FInv, Facts
    <3>4. CASE phase = "Transactions"
      <4>1. /\ <<Head(pending).of, "Transactions">> \notin stored
            /\ Head(pending).of \in Accounts /\ stored \in SUBSET (Accounts \X Parts)
        BY <2>1, <2>2, <3>4, RunOfThePart DEF HeadPart
      <4>2. Cardinality(BookedIn(stored')) = Cardinality(BookedIn(stored)) + 1
        BY <2>1, <3>4, <4>1, OneMoreBooked DEF HeadPart
      <4> QED
        BY <1>3, <2>1, <2>2, <3>2, <3>3, <4>2
    <3>5. CASE phase = "Balances"
      <4>1. BookedIn(stored') = BookedIn(stored)
        BY <2>1, <3>5 DEF BookedIn, HeadPart
      <4> QED
        BY <2>1, <2>2, <3>3, <3>5, <4>1
    <3> QED
      BY <2>1, <3>4, <3>5, RunOfThePart DEF Parts
  <2>5. Facts'
    <3>1. stored' \subseteq Accounts \X Parts
      BY <2>1, <2>2, RunOfThePart DEF HeadPart
    <3> QED
      BY <1>1, <1>3, <2>4, <3>1 DEF FInv, Facts, fetch, BookedIn
  <2>6. Counts'
    BY <1>1, <2>2, <2>4 DEF FInv, Counts, fetch, progress
  <2>7. QueueFits(pending, brought)' /\ AtHead' /\ Idle' /\ OutcomeFits' /\ Standing'
    BY <1>1 DEF fetch, progress, FInv, QueueFits, PartsOf, AtHead, Idle, OutcomeFits, Standing
  <2>8. running' /\ session' = "none" /\ phase' # "None"
    BY <1>1, <2>1, RunOfThePart DEF fetch, progress
  <2>9. InSession' /\ BetweenRuns' /\ EndBooked' /\ TellsTheTruth' /\ FiguresAreTrue'
    BY <1>4, <2>8 DEF InSession, BetweenRuns, EndBooked, TellsTheTruth, FiguresAreTrue, Over
  <2>10. RunBooked'
    BY <1>1, <1>3, <1>6, <2>1, <2>2, <2>3 DEF RunBooked, fetch, progress
  <2>11. FiguresKept'
    BY <1>1 DEF fetch, progress, FInv, FiguresKept, FiguresOf, Fated
  <2> QED
    BY <2>5, <2>6, <2>7, <2>9, <2>10, <2>11 DEF FInv, Booked
<1> QED
  BY <1>5, <1>6

(* The end of a run is counted once, and only for its own phase.           *)
LEMMA HandOnFigures == IInv /\ IInv' /\ FInv /\ HandOn => FInv'
<1> SUFFICES ASSUME IInv, IInv', FInv, HandOn PROVE FInv'
  OBVIOUS
<1> DEFINE kind == IF write.since # generation THEN "silent"
                   ELSE IF write.good THEN "result" ELSE "failed"
<1>1. /\ toHear = {} /\ write.stage = "ended" /\ write' = NoRun /\ toHear' = Writers
      /\ telling' = [kind |-> kind, by |-> write.by]
      /\ storeFailed' = (storeFailed \/ (phase # "None" /\ kind = "failed"))
      /\ storedCount' = IF kind = "silent" THEN storedCount
                        ELSE TakeStoredCount(IF write.good THEN write.fresh ELSE 0)
      /\ UNCHANGED <<open, generation, wizard, running, overAllAccounts, session, asked,
                     outcome, phase, storedBeforeRun, pending, waitingForAbortAnswer, retry,
                     summary, attempted, report, fate, brought, stored, added, stood, fetches,
                     setups>>
  BY DEF HandOn, InEventLoop, truth
<1>2. kind \in {"silent", "result", "failed"} /\ telling'.kind = kind /\ telling'.by = write.by
  BY <1>1
<1>3. ~OwnRunIsOut' /\ (OwnEndIsTold' <=> OwnRunIsOut)
  <2>1. write # NoRun
    BY <1>1 DEF NoRun
  <2> QED
    BY <1>1, <1>2, <2>1 DEF OwnRunIsOut, OwnEndIsTold, Writers
<1> HIDE DEF kind
<1>4. /\ Facts' /\ QueueFits(pending, brought)' /\ AtHead' /\ Standing' /\ OutcomeFits'
      /\ FiguresKept'
  BY <1>1
     DEF FInv, Facts, BookedIn, QueueFits, PartsOf, AtHead, Standing, OutcomeFits, FiguresKept,
         FiguresOf, Fated
<1>5. TellsTheTruth' /\ FiguresAreTrue'
  BY <1>1 DEF FInv, TellsTheTruth, FiguresAreTrue, Over, Became
<1>6. CASE phase = "None"
  <2>1. storedCount' = storedCount
    BY <1>1, <1>6 DEF TakeStoredCount
  <2>2. ~OwnEndIsTold'
    BY <1>1, <1>6 DEF IInv, PhaseIsOwn
  <2>3. Counts' /\ Idle' /\ InSession'
    BY <1>1, <2>1 DEF FInv, Counts, Idle, InSession
  <2>4. Booked'
    BY <1>1, <1>3, <2>1, <2>2 DEF FInv, Booked, BetweenRuns, RunBooked, EndBooked, PartsOf
  <2> QED
    BY <1>4, <1>5, <2>3, <2>4 DEF FInv
<1>7. CASE phase # "None"
  <2>1. OwnRunIsOut /\ running /\ session = "none"
    BY <1>1, <1>7, RunOfThePart DEF IInv, PhaseIsOwn, OwnEndIsTold
  <2>2. /\ storedCount = storedBeforeRun /\ storeFailed = FALSE
        /\ phase = "Balances" => write.fresh = 0
        /\ write.good => stored = Now /\ added = storedBeforeRun + write.fresh
        /\ ~write.good => stored = Before /\ added = storedBeforeRun
    BY <2>1 DEF FInv, Booked, RunBooked
  <2>3. /\ added \in Nat /\ storedBeforeRun \in Nat /\ storedBeforeRun <= added
        /\ write.fresh \in 0..1 /\ phase \in {"Transactions", "Balances"}
    <3>1. write \in WriteRuns
      BY <2>1 DEF IInv, Types, OwnRunIsOut
    <3> QED
      BY <1>7, <3>1, RunOfThePart DEF FInv, Facts, Counts, WriteRuns, Parts
  <2>4. /\ kind = "result" => write.good
        /\ kind = "failed" => ~write.good
    BY DEF kind
  <2>5. /\ kind = "silent" => storedCount' = storedBeforeRun /\ storeFailed' = FALSE
        /\ kind = "result" => storedCount' = added /\ storeFailed' = FALSE
        /\ kind = "failed" => storedCount' = added /\ storedBeforeRun = added
    <3>1. CASE kind = "silent"
      <4>1. storedCount' = storedBeforeRun
        BY <1>1, <2>2, <3>1
      <4>2. storeFailed' = FALSE
        BY <1>1, <2>2, <3>1
      <4> QED
        BY <3>1, <4>1, <4>2
    <3>2. CASE kind = "result"
      <4>1. storedCount' = TakeStoredCount(write.fresh) /\ added = storedBeforeRun + write.fresh
        BY <1>1, <2>2, <2>4, <3>2
      <4>2. storedCount' = added
        BY <2>2, <2>3, <4>1 DEF TakeStoredCount
      <4>3. storeFailed' = FALSE
        BY <1>1, <2>2, <3>2
      <4> QED
        BY <3>2, <4>2, <4>3
    <3>3. CASE kind = "failed"
      <4>1. storedCount' = TakeStoredCount(0) /\ added = storedBeforeRun
        BY <1>1, <2>2, <2>4, <3>3
      <4>2. storedCount' = added
        BY <2>2, <2>3, <4>1 DEF TakeStoredCount
      <4> QED
        BY <3>3, <4>1, <4>2
    <3> QED
      BY <1>2, <3>1, <3>2, <3>3
  <2>6. storedCount' \in Nat /\ storedCount' <= added
    BY <1>2, <2>3, <2>5
  <2>7. Counts'
    BY <1>1, <2>6 DEF FInv, Counts
  <2>8. Idle' /\ InSession' /\ BetweenRuns' /\ RunBooked'
    BY <1>1, <1>3, <1>7, <2>1 DEF Idle, InSession, BetweenRuns, RunBooked
  <2>9. EndBooked'
    <3>1. Before' = Before /\ Now' = Now
      BY <1>1 DEF Before, Now, Ahead, PartsOf, HeadPart
    <3> QED
      BY <1>1, <1>2, <2>2, <2>4, <2>5, <3>1 DEF EndBooked
  <2> QED
    BY <1>4, <1>5, <2>7, <2>8, <2>9 DEF FInv, Booked
<1> QED
  BY <1>6, <1>7

-----------------------------------------------------------------------------
(* The fetch hears an end.                                                 *)

(* What is ahead once the part of the run is stored.                       *)
LEMMA OnePartLess ==
  ASSUME IInv, FInv, phase # "None"
  PROVE  /\ phase = "Transactions" => Now = brought \ Ahead(pending, "Balances")
         /\ ~(phase = "Transactions" /\ "Balances" \in Head(pending).parts) =>
              Now = brought \ PartsOf(Tail(pending))
         /\ QueueFits(Tail(pending), brought) /\ Tail(pending) \in Seq(Entries)
<1> DEFINE first == <<Head(pending).of, "Transactions">>
           second == <<Head(pending).of, "Balances">>
           rest == PartsOf(Tail(pending))
<1>1. /\ pending \in Seq(Entries) /\ pending # <<>> /\ QueueFits(pending, brought)
      /\ phase \in Head(pending).parts /\ phase \in Parts /\ HeadPart(phase) \in brought
      /\ HeadPart(phase) \in PartsOf(pending)
  BY RunOfThePart DEF FInv, AtHead
<1>2. /\ Tail(pending) \in Seq(Entries) /\ QueueFits(Tail(pending), brought)
      /\ first \notin rest /\ second \notin rest
      /\ Head(pending).parts \subseteq Parts
      /\ \A a, p : <<a, p>> \in PartsOf(pending) <=>
                     \/ a = Head(pending).of /\ p \in Head(pending).parts
                     \/ <<a, p>> \in rest
  BY <1>1, HeadAndTail, HeadOfQueue
<1>3. PartsOf(pending) = rest \cup {<<Head(pending).of, p>> : p \in Head(pending).parts}
  <2>1. PartsOf(pending) \subseteq Accounts \X Parts /\ rest \subseteq Accounts \X Parts
    BY <1>1, <1>2, PartsIn
  <2>2. ASSUME NEW x \in PartsOf(pending)
        PROVE  x \in rest \cup {<<Head(pending).of, p>> : p \in Head(pending).parts}
    <3>1. PICK a \in Accounts, p \in Parts : x = <<a, p>>
      BY <2>1
    <3> QED
      BY <1>2, <3>1
  <2>3. ASSUME NEW x \in rest PROVE x \in PartsOf(pending)
    <3>1. PICK a \in Accounts, p \in Parts : x = <<a, p>>
      BY <2>1
    <3> QED
      BY <1>2, <3>1
  <2>4. ASSUME NEW p \in Head(pending).parts PROVE <<Head(pending).of, p>> \in PartsOf(pending)
    BY <1>2
  <2> QED
    BY <2>2, <2>3, <2>4
<1>4. \A x \in rest : x # first /\ x # second
  BY <1>2
<1>5. rest \subseteq brought
  BY <1>2 DEF QueueFits
<1>6. HeadPart(phase) = IF phase = "Transactions" THEN first ELSE second
  BY <1>1 DEF HeadPart, Parts
<1> HIDE DEF rest
<1>7. ASSUME phase = "Transactions" PROVE Now = brought \ Ahead(pending, "Balances")
  <2>1. Ahead(pending, phase) = PartsOf(pending)
    BY <1>7 DEF Ahead
  <2>2. Ahead(pending, "Balances") = PartsOf(pending) \ {first}
    BY DEF Ahead
  <2> QED
    BY <1>1, <1>6, <1>7, <2>1, <2>2 DEF Now, Before
<1>8. ASSUME phase = "Transactions", "Balances" \notin Head(pending).parts
      PROVE  Now = brought \ rest
  <2>1. Ahead(pending, phase) = PartsOf(pending)
    BY <1>8 DEF Ahead
  <2>2. PartsOf(pending) = rest \cup {first}
    <3>1. Head(pending).parts = {"Transactions"}
      BY <1>1, <1>2, <1>8 DEF Parts
    <3> QED
      BY <1>3, <3>1
  <2> QED
    BY <1>1, <1>4, <1>6, <1>8, <2>1, <2>2 DEF Now, Before
<1>9. ASSUME phase = "Balances" PROVE Now = brought \ rest
  <2>1. Ahead(pending, phase) = PartsOf(pending) \ {first}
    BY <1>9 DEF Ahead
  <2>2. PartsOf(pending) \ {first} = rest \cup {second}
    <3>1. {<<Head(pending).of, p>> : p \in Head(pending).parts} \ {first} = {second}
      BY <1>1, <1>2, <1>9 DEF Parts
    <3> QED
      BY <1>3, <1>4, <3>1
  <2> QED
    BY <1>1, <1>4, <1>6, <1>9, <2>1, <2>2 DEF Now, Before
<1> QED
  BY <1>1, <1>2, <1>7, <1>8, <1>9 DEF Parts, rest

(* The next part, the next account, or the end of the fetch.               *)
LEMMA FetchHearsFigures == IInv /\ IInv' /\ FInv /\ FetchHears => FInv'
<1> SUFFICES ASSUME IInv, IInv', FInv, FetchHears PROVE FInv'
  OBVIOUS
<1>1. /\ "fetch" \in toHear /\ "fetch" \notin toHear' /\ write = NoRun
      /\ UNCHANGED <<open, generation, overAllAccounts, session, asked, outcome, fate, brought,
                     stored, added, stood, fetches, setups>>
  BY DEF FetchHears, Heard, IInv, OneRun, truth
<1>2. ~OwnRunIsOut /\ ~OwnEndIsTold'
  BY <1>1 DEF OwnRunIsOut, OwnEndIsTold
<1>3. CASE phase = "None"
  <2>1. UNCHANGED <<fetch, write>>
    BY <1>1, <1>3 DEF FetchHears, fetch
  <2>2. RunBooked' /\ EndBooked' /\ Standing'
    BY <1>1, <1>2, <2>1 DEF RunBooked, EndBooked, OwnRunIsOut, FInv, Standing, fetch
  <2> QED
    BY <1>1, <2>1, <2>2, NoPartInIt DEF FInv, Facts
<1>4. CASE phase # "None"
  <2>1. /\ running /\ session = "none" /\ pending # <<>> /\ pending \in Seq(Entries)
        /\ phase \in Parts /\ HeadPart(phase) \in brought /\ HeadPart(phase) \notin Before
        /\ waitingForAbortAnswer = FALSE
    BY <1>4, RunOfThePart DEF IInv, Types, Placed
  <2>2. OwnEndIsTold
    BY <1>2, <1>4 DEF IInv, PhaseIsOwn
  <2>3. /\ telling.kind = "result" => stored = Now /\ storedCount = added
        /\ telling.kind = "failed" =>
             stored = Before /\ storedBeforeRun = added /\ storedCount = added
        /\ telling.kind = "silent" => storeFailed = FALSE /\ ~open
        /\ telling.kind = "failed" <=> storeFailed = TRUE
        /\ telling.kind \in {"result", "failed", "silent"}
    <3>1. telling.kind \in {"result", "failed", "silent"}
      <4>1. telling # Quiet
        BY <1>1 DEF IInv, Emission
      <4> QED
        BY <4>1 DEF IInv, Types, Tellings
    <3>2. /\ telling.kind = "result" => stored = Now /\ storedCount = added /\ storeFailed = FALSE
          /\ telling.kind = "failed" =>
               stored = Before /\ storedBeforeRun = added /\ storedCount = added
          /\ telling.kind = "silent" => storeFailed = FALSE
      BY <2>2 DEF FInv, Booked, EndBooked
    <3>3. /\ telling.kind = "silent" => ~open
          /\ telling.kind = "failed" => storeFailed = TRUE
      BY <2>2 DEF IInv, Types, RunIsTrue
    <3> QED
      BY <3>1, <3>2, <3>3
  <2>4. /\ outcome \in {"Received", "BalanceOnly", "Aborted"}
        /\ overAllAccounts => outcome # "BalanceOnly"
        /\ outcome = "Aborted" <=> summary.kept = TRUE
        /\ overAllAccounts /\ outcome = "Received" => FiguresOf(fate, summary, attempted)
    BY <2>1 DEF FInv, OutcomeFits, FiguresKept
  <2>5. /\ summary \in Summaries /\ attempted \in {0, Cardinality(Accounts)}
        /\ report = NoReport \/ report.outcome \in Outcomes
        /\ stood => open
    BY <2>1 DEF FInv, Counts, Standing
  <2>6. PICK s : s = summary
    OBVIOUS
  <2>7. PICK n : n = storedCount
    OBVIOUS
  <2>8. Facts' /\ (write' = write \/ write'.since = generation)
    <3>1. write' = write \/ write'.since = generation
      BY <1>4, StartsNow DEF FetchHears, Ends, StartStoring, RunFor
    <3> QED
      BY <1>1, <3>1, FactsKept DEF FInv, Facts
  <2>9. CASE RunFailed
    <3>1. /\ telling.kind = "failed" /\ stored = Before
          /\ storedBeforeRun = added /\ storedCount = added
      BY <2>3, <2>9 DEF RunFailed, IInv, Types
    <3>2. PICK m : m = IF phase = "Transactions" THEN storedBeforeRun ELSE storedCount
      OBVIOUS
    <3>3. Closed("StoreFailed", m, s) /\ m = added /\ "StoreFailed" \in Outcomes
      BY <1>4, <2>6, <2>9, <3>1, <3>2 DEF FetchHears, Ends, Outcomes
    <3>4. SaysTruly("StoreFailed", m, s.kept, stored', brought', added')
      BY <1>1, <2>1, <3>1, <3>3 DEF SaysTruly
    <3>5. overAllAccounts /\ ~s.kept => FiguresOf(fate', s, attempted)
      BY <1>1, <2>4, <2>6 DEF Summaries
    <3> QED
      BY <1>1, <2>1, <2>5, <2>6, <2>8, <3>3, <3>4, <3>5, Closing
  <2>10. CASE ~RunFailed
    <3>1. open => stored = Now /\ storedCount = added
      BY <2>3, <2>10 DEF RunFailed
    <3>2. QueueFits(pending, brought') /\ QueueFits(Tail(pending), brought')
      BY <1>1, <1>4, OnePartLess DEF FInv
    <3>3. \A queue \in Seq(Entries) : QueueFits(queue, brought') => Settled(queue, n, s)
      BY <1>1, <2>1, <2>4, <2>5, <2>6, <2>8 DEF Settled
    <3>4. CASE phase = "Transactions" /\ "Balances" \in Head(pending).parts
      <4>1. PICK earlier : earlier = phase
        OBVIOUS
      <4>2. StartStoring("Balances", pending, n, s, earlier)
        BY <1>4, <2>6, <2>7, <2>10, <3>4, <4>1 DEF FetchHears
      <4>3. open => stored' = brought' \ Ahead(pending, "Balances") /\ added' = n
        BY <1>1, <1>4, <2>7, <3>1, <3>4, OnePartLess
      <4> QED
        BY <1>1, <2>1, <3>2, <3>3, <3>4, <4>2, <4>3, StoringFits
    <3>5. CASE ~(phase = "Transactions" /\ "Balances" \in Head(pending).parts)
      <4>1. BeginNextAccount(outcome, Tail(pending), n, s)
        BY <1>4, <2>6, <2>7, <2>10, <3>5 DEF FetchHears
      <4>2. open => stored' = brought' \ PartsOf(Tail(pending)) /\ added' = n
        BY <1>1, <1>4, <2>7, <3>1, <3>5, OnePartLess
      <4>3. Settled(Tail(pending), n, s)
        BY <1>4, <3>2, <3>3, OnePartLess
      <4> QED
        BY <1>1, <4>1, <4>2, <4>3, NextAccountFits
    <3> QED
      BY <3>4, <3>5
  <2> QED
    BY <2>9, <2>10
<1> QED
  BY <1>3, <1>4

-----------------------------------------------------------------------------
(* Every step keeps the figures.                                           *)
LEMMA NextFInv == IInv /\ FInv /\ [Next]_vars => FInv'
<1> SUFFICES ASSUME IInv, FInv, [Next]_vars PROVE FInv'
  OBVIOUS
<1>1. IInv'
  BY NextIInv
<1>2. CASE UNCHANGED vars
  <2>1. /\ UNCHANGED <<fetch, fate, brought, stored, added, stood, fetches, setups, write, generation,
                       telling, toHear, open>>
    BY <1>2 DEF vars, storage, truth
  <2>2. RunBooked' /\ EndBooked' /\ Standing'
    BY <2>1 DEF fetch, progress, FInv, Booked, RunBooked, EndBooked, OwnRunIsOut, OwnEndIsTold,
                Now, Before, Ahead, PartsOf, HeadPart, Standing
  <2> QED
    BY <2>1, <2>2, NoPartInIt DEF FInv, Facts
<1> QED
  BY <1>1, <1>2, OpenVaultFigures, VaultFallsFigures, WizardStoresFigures, StartFigures,
     FailLaterFigures, SingleFigures, AllFailFigures, AllDeliverFigures, AllAbortedFigures,
     AnswerFigures, RetryFigures, CloneFigures, WriteFigures, HandOnFigures,
     WizardHearsFigures, FetchHearsFigures DEF Next

(* What the fetch counts and what the file holds go together in every      *)
(* reachable state.                                                        *)
THEOREM FiguresGoTogether == Spec => [](IInv /\ FInv)
<1>1. Init => IInv /\ FInv
  BY InitIInv, InitFInv
<1>2. (IInv /\ FInv) /\ [Next]_vars => (IInv /\ FInv)'
  BY NextIInv, NextFInv
<1> QED
  BY <1>1, <1>2, PTL DEF Spec

(* Every variable keeps its type: in particular no figure exceeds the      *)
(* number of accounts, and the queue never holds more of them.             *)
THEOREM FetchTypes == Spec => []TypeOK
<1>1. IInv /\ FInv => TypeOK
  <2> SUFFICES ASSUME IInv, FInv PROVE TypeOK
    OBVIOUS
  <2>1. /\ {open, wizard, running, overAllAccounts, storeFailed, waitingForAbortAnswer, stood}
             \subseteq BOOLEAN
        /\ generation \in 0..MaxGeneration
        /\ toHear \subseteq Writers
        /\ session \in {"none", "out", "doomed"} /\ asked \subseteq Accounts
        /\ outcome \in Outcomes /\ phase \in Phases /\ retry \in Phases
    BY DEF IInv, Types, FInv, Facts
  <2>2. write = NoRun \/ (write.by \in Writers /\ write.since \in 0..generation)
    <3>1. CASE write # NoRun
      <4>1. write.by \in Writers /\ write.since \in Nat /\ generation \in Nat
        BY <3>1, FetchAssumption DEF IInv, Types, WriteRuns
      <4> QED
        BY <3>1, <4>1 DEF FInv, Facts
    <3> QED
      BY <3>1
  <2>3. telling = Quiet \/ telling.kind \in {"result", "failed", "silent"}
    BY DEF IInv, Types, Tellings
  <2>4. {storedCount, storedBeforeRun, added, attempted} \subseteq Count
    <3>1. BookedIn(stored) \in SUBSET Accounts
      BY DEF BookedIn
    <3>2. /\ Cardinality(BookedIn(stored)) \in Nat /\ Cardinality(Accounts) \in Nat
          /\ Cardinality(BookedIn(stored)) <= Cardinality(Accounts)
      BY <3>1, Counting
    <3>3. added \in Nat /\ added <= Cardinality(Accounts)
      BY <3>2 DEF FInv, Facts
    <3> QED
      BY <3>2, <3>3 DEF FInv, Counts, Count
  <2>5. /\ pending \in Seq([of : Accounts, parts : SUBSET Parts, fresh : 0..1])
        /\ Len(pending) <= Cardinality(Accounts)
    BY DEF IInv, Types, Entries, FInv, QueueFits
  <2>6. /\ summary \in [skipped : Count, failed : Count, kept : BOOLEAN]
        /\ report = NoReport \/ report.outcome \in Outcomes
    BY DEF FInv, Counts, Summaries
  <2>7. /\ fate \in [Accounts -> Fates]
        /\ {brought, stored} \subseteq SUBSET (Accounts \X Parts)
        /\ fetches \in 0..MaxFetches /\ setups \in 0..MaxSetups
    BY DEF FInv, Facts
  <2> QED
    BY <2>1, <2>2, <2>3, <2>4, <2>5, <2>6, <2>7 DEF TypeOK
<1> QED
  BY FiguresGoTogether, <1>1, PTL

(* What a fetch says at its end is what it did, as long as nobody took the *)
(* storage away: the outcome tells what became of the records, and the     *)
(* count is the number of rows it added (finishRun, takeStoredCount).      *)
THEOREM ReportsAreTrue == Spec => []TellsTheTruth
<1>1. FInv => TellsTheTruth
  BY DEF FInv
<1> QED
  BY FiguresGoTogether, <1>1, PTL

(* The figures of a fetch over all accounts that was not stopped are what  *)
(* became of the accounts (startAll, accountSkipped, finishAll).           *)
THEOREM FiguresHoldTrue == Spec => []FiguresAreTrue
<1>1. FInv => FiguresAreTrue
  BY DEF FInv
<1> QED
  BY FiguresGoTogether, <1>1, PTL

-----------------------------------------------------------------------------
(* Getting on: every step brings a fetch that runs closer to its end.      *)

LEMMA Ears ==
  /\ Cardinality(Writers) = 2 /\ Cardinality({}) = 0
  /\ \A S \in SUBSET Writers :
       Cardinality(S) \in 0..2 /\ \A c \in S : Cardinality(S \ {c}) = Cardinality(S) - 1
<1>1. IsFiniteSet(Writers) /\ Cardinality(Writers) = 2
  <2>1. Writers = {"wizard"} \cup {"fetch"} /\ "fetch" \notin {"wizard"}
    BY DEF Writers
  <2>2. IsFiniteSet({"wizard"}) /\ Cardinality({"wizard"}) = 1
    BY FS_Singleton
  <2> QED
    BY <2>1, <2>2, FS_AddElement
<1>2. ASSUME NEW S \in SUBSET Writers
      PROVE  Cardinality(S) \in 0..2 /\ \A c \in S : Cardinality(S \ {c}) = Cardinality(S) - 1
  <2>1. IsFiniteSet(S) /\ Cardinality(S) <= 2
    BY <1>1, FS_Subset
  <2>2. Cardinality(S) \in Nat
    BY <2>1, FS_CardinalityType
  <2> QED
    BY <2>1, <2>2, FS_RemoveElement
<1> QED
  BY <1>1, <1>2, FS_EmptySet

(* The stages of a run, and what is ahead of a fetch in each place.        *)
LEMMA RunIs ==
  /\ write.stage = "started" => RunLeft = Cardinality(toHear) + 5
  /\ write.stage = "working" => RunLeft = Cardinality(toHear) + 4
  /\ write.stage = "ended" => RunLeft = Cardinality(toHear) + 3
  /\ write = NoRun => RunLeft = Cardinality(toHear) + 0
BY DEF RunLeft, NoRun

LEMMA RunWillBe ==
  /\ write'.stage = "started" => RunLeft' = Cardinality(toHear') + 5
  /\ write'.stage = "working" => RunLeft' = Cardinality(toHear') + 4
  /\ write'.stage = "ended" => RunLeft' = Cardinality(toHear') + 3
  /\ write' = NoRun => RunLeft' = Cardinality(toHear') + 0
BY DEF RunLeft, NoRun

LEMMA RunKept == UNCHANGED <<write, toHear>> => RunLeft' = RunLeft
BY DEF RunLeft

(* Going on, a run leaves five steps and the timer six.                    *)
LEMMA QueueIs ==
  ASSUME Len(pending) \in Nat
  PROVE  /\ phase = "Transactions" /\ retry = "None" => QueueLeft = 10 * Len(pending)
         /\ phase = "Balances" /\ retry = "None" => QueueLeft = 10 * Len(pending) - 5
         /\ phase = "None" /\ retry = "Transactions" => QueueLeft = 10 * Len(pending) + 6
         /\ phase = "None" /\ retry = "Balances" => QueueLeft = 10 * Len(pending) + 1
         /\ phase = "None" /\ retry = "None" => QueueLeft = 10 * Len(pending)
BY DEF QueueLeft

LEMMA QueueWillBe ==
  ASSUME Len(pending') \in Nat
  PROVE  /\ phase' = "Transactions" /\ retry' = "None" => QueueLeft' = 10 * Len(pending')
         /\ phase' = "Balances" /\ retry' = "None" => QueueLeft' = 10 * Len(pending') - 5
         /\ phase' = "None" /\ retry' = "Transactions" => QueueLeft' = 10 * Len(pending') + 6
         /\ phase' = "None" /\ retry' = "Balances" => QueueLeft' = 10 * Len(pending') + 1
BY DEF QueueLeft

LEMMA LeftIs ==
  /\ session # "none" => Left = RunLeft + (10 * Cardinality(Accounts) + 8)
  /\ session = "none" /\ waitingForAbortAnswer => Left = RunLeft + (10 * Cardinality(Accounts) + 7)
  /\ session = "none" /\ ~waitingForAbortAnswer => Left = RunLeft + QueueLeft
BY DEF Left

LEMMA LeftWillBe ==
  /\ session' # "none" => Left' = RunLeft' + (10 * Cardinality(Accounts) + 8)
  /\ session' = "none" /\ waitingForAbortAnswer'
       => Left' = RunLeft' + (10 * Cardinality(Accounts) + 7)
  /\ session' = "none" /\ ~waitingForAbortAnswer' => Left' = RunLeft' + QueueLeft'
BY DEF Left

LEMMA Numbers ==
  /\ Cardinality(Accounts) \in Nat
  /\ IInv => RunLeft \in 0..7 /\ Len(pending) \in Nat
  /\ TypeOK => Len(pending) <= Cardinality(Accounts)
<1>1. IInv => RunLeft \in 0..7
  <2> SUFFICES ASSUME IInv PROVE RunLeft \in 0..7
    OBVIOUS
  <2>1. Cardinality(toHear) \in 0..2
    BY Ears DEF IInv, Types
  <2>2. write = NoRun \/ write.stage \in {"started", "working", "ended"}
    BY DEF IInv, Types, WriteRuns
  <2> QED
    BY <2>1, <2>2, RunIs
<1> QED
  BY <1>1, Counting DEF IInv, Types, TypeOK

(* Where nobody is still to hear, a run that starts is a run more.         *)
LEMMA StoresLeft ==
  ASSUME IInv', NEW next \in Parts, NEW queue, Stores(next, queue), session' = "none"
  PROVE  /\ RunLeft' = Cardinality(toHear') + 5 /\ Left' = RunLeft' + QueueLeft'
         /\ pending' = queue /\ Len(queue) \in Nat
         /\ next = "Transactions" => QueueLeft' = 10 * Len(queue)
         /\ next = "Balances" => QueueLeft' = 10 * Len(queue) - 5
<1>1. /\ pending' = queue /\ phase' = next /\ retry' = "None" /\ ~waitingForAbortAnswer'
      /\ write'.stage = "started"
  BY DEF Stores, RunFor
<1>2. Len(pending') \in Nat
  BY DEF IInv, Types
<1> QED
  BY <1>1, <1>2, RunWillBe, QueueWillBe, LeftWillBe

(* From the event loop on: the session or the question is over.            *)
LEMMA GoingOnLowers ==
  ASSUME IInv, IInv', TypeOK', InEventLoop, toHear' = toHear, running', session' = "none",
         NEW queue \in Seq(Entries), NEW o, NEW n, NEW s,
         BeginNextAccount(o, queue, n, s) \/ Ends(o, n, s),
         \/ session # "none"
         \/ session = "none" /\ waitingForAbortAnswer
  PROVE  Left' < Left
<1> DEFINE next == FirstOf(queue)
<1>1. next \in Parts /\ Parts = {"Transactions", "Balances"}
  BY DEF FirstOf, Parts
<1>2. GoesOn(next, queue)
  <2>1. storeFailed \in BOOLEAN
    BY DEF IInv, Types
  <2> QED
    BY <2>1, EndsCloses, NextAccountGoesOn DEF Closes
<1> HIDE DEF next
<1>3. /\ Cardinality(Accounts) \in Nat /\ RunLeft \in 0..7 /\ Cardinality(toHear) = 0
      /\ Len(pending') \in Nat /\ Len(pending') <= Cardinality(Accounts)
  BY Numbers, Ears DEF IInv, Types, TypeOK, InEventLoop
<1>4. Left >= RunLeft + (10 * Cardinality(Accounts) + 7)
  BY <1>3, LeftIs
<1>5. CASE Stores(next, queue)
  <2>1. RunLeft' = 5 /\ Left' = RunLeft' + QueueLeft' /\ QueueLeft' <= 10 * Len(pending')
    BY <1>1, <1>3, <1>5, StoresLeft
  <2>2. QueueLeft' \in Int
    BY <1>1, <1>3, <1>5, StoresLeft
  <2> QED
    BY <1>3, <1>4, <2>1, <2>2, LeftIs
<1>6. CASE Postpones(next, queue)
  <2>1. RunLeft' = RunLeft
    BY <1>6, RunKept DEF Postpones
  <2>2. QueueLeft' = 10 * Len(pending') + 6 \/ QueueLeft' = 10 * Len(pending') + 1
    BY <1>1, <1>3, <1>6, QueueWillBe DEF Postpones
  <2>3. Left' = RunLeft' + QueueLeft'
    BY <1>6, LeftWillBe DEF Postpones
  <2> QED
    BY <1>3, <1>4, <2>1, <2>2, <2>3, LeftIs
<1> QED
  BY <1>2, <1>5, <1>6 DEF GoesOn, Closes

(* The session comes back.                                                 *)
LEMMA ReturnLowers ==
  ASSUME IInv, IInv', TypeOK', running',
         SingleEndsEmpty \/ SingleDelivers \/ AllFail \/ AllDeliver \/ AllAborted
  PROVE  Left' < Left
<1>1. /\ SessionReturns /\ session = "out" /\ session' = "none" /\ InEventLoop /\ toHear' = toHear
      /\ Types
  BY DEF SingleEndsEmpty, SingleDelivers, AllFail, AllDeliver, AllAborted, SessionReturns, IInv
<1>2. ~(\E o, n, s : Ends(o, n, s))
  BY DEF Ends, Closed
<1>3. ~SingleEndsEmpty /\ ~AllFail
  BY <1>2 DEF SingleEndsEmpty, AllFail
<1>4. CASE SingleDelivers
  <2>1. PICK queue \in QueueReceived(asked) : \E o : BeginNextAccount(o, queue, storedCount, summary)
    BY <1>2, <1>4 DEF SingleDelivers
  <2>2. queue \in Seq(Entries)
    BY <1>1, QueueType DEF Types
  <2> QED
    BY <1>1, <2>1, <2>2, GoingOnLowers
<1>5. CASE AllDeliver
  <2>1. PICK S : \E queue \in QueueReceived(asked \ S) : \E s :
                   BeginNextAccount("Received", queue, storedCount, s)
    BY <1>5 DEF AllDeliver
  <2>2. PICK queue \in QueueReceived(asked \ S) : \E s : BeginNextAccount("Received", queue, storedCount, s)
    BY <2>1
  <2>3. queue \in Seq(Entries)
    BY <1>1, ReceivedType
  <2> QED
    BY <1>1, <2>2, <2>3, GoingOnLowers
<1>6. CASE AllAborted
  <2>1. \/ \E s : Ends("Aborted", storedCount, s)
        \/ waitingForAbortAnswer' = TRUE /\ UNCHANGED write
    BY <1>6 DEF AllAborted
  <2>2. RunLeft' = RunLeft /\ Left' = RunLeft' + (10 * Cardinality(Accounts) + 7)
    BY <1>1, <1>2, <2>1, RunKept, LeftWillBe
  <2> QED
    BY <1>1, <2>2, Numbers, LeftIs
<1> QED
  BY <1>3, <1>4, <1>5, <1>6

(* The question is answered, or the timer finds the way free.              *)
LEMMA AnswerLowers ==
  ASSUME IInv, IInv', TypeOK', running', NEW keep \in BOOLEAN, AnswerAbort(keep)
  PROVE  Left' < Left
<1>1. /\ InEventLoop /\ session = "none" /\ session' = "none" /\ toHear' = toHear
      /\ waitingForAbortAnswer /\ pending \in Seq(Entries)
  BY DEF AnswerAbort, IInv, Placed, Types
<1>2. \E s : BeginNextAccount("Aborted", pending, storedCount, s) \/ Ends("Aborted", storedCount, s)
  BY DEF AnswerAbort
<1> QED
  BY <1>1, <1>2, GoingOnLowers

LEMMA RetryLowers ==
  ASSUME IInv, IInv', running', RetryFires
  PROVE  Left' < Left
<1>1. /\ InEventLoop /\ session = "none" /\ session' = "none" /\ toHear' = toHear
      /\ retry \in Parts /\ ~waitingForAbortAnswer /\ phase = "None"
      /\ pending \in Seq(Entries) /\ pending # <<>>
      /\ StartStoring(retry, pending, storedCount, summary, phase)
  BY DEF RetryFires, IInv, Placed, Types, Phases, Parts, StorageBusy
<1>2. open /\ write = NoRun
  BY <1>1 DEF RetryFires, StartStoring, Closed, StorageBusy
<1>3. GoesOn(retry, pending)
  BY <1>1, StartingGoesOn DEF RetryFires
<1>4. Stores(retry, pending)
  BY <1>2, <1>3 DEF GoesOn, Closes, Postpones
<1>5. /\ RunLeft' = Cardinality(toHear') + 5 /\ Left' = RunLeft' + QueueLeft'
      /\ Len(pending) \in Nat
      /\ retry = "Transactions" => QueueLeft' = 10 * Len(pending)
      /\ retry = "Balances" => QueueLeft' = 10 * Len(pending) - 5
  BY <1>1, <1>4, StoresLeft
<1>6. /\ retry = "Transactions" => QueueLeft = 10 * Len(pending) + 6
      /\ retry = "Balances" => QueueLeft = 10 * Len(pending) + 1
  BY <1>1, <1>5, QueueIs
<1>7. RunLeft = 0 /\ RunLeft' = 5 /\ Left = RunLeft + QueueLeft
  BY <1>1, <1>2, <1>5, RunIs, LeftIs, Ears DEF InEventLoop
<1> QED
  BY <1>1, <1>5, <1>6, <1>7 DEF Parts

(* A run passes its stages.                                                *)
LEMMA PlaceKept ==
  ASSUME IInv, IInv', UNCHANGED <<session, waitingForAbortAnswer, retry, phase, pending>>
  PROVE  /\ RunLeft' < RunLeft => Left' < Left
         /\ RunLeft' = RunLeft => Left' = Left
<1>1. Cardinality(Accounts) \in Nat /\ RunLeft \in 0..7 /\ Len(pending) \in Nat
  BY Numbers
<1>2. RunLeft' \in 0..7
  <2>1. Cardinality(toHear') \in 0..2
    BY Ears DEF IInv, Types
  <2>2. write' = NoRun \/ write'.stage \in {"started", "working", "ended"}
    BY DEF IInv, Types, WriteRuns
  <2> QED
    BY <2>1, <2>2, RunWillBe
<1>3. QueueLeft' = QueueLeft /\ QueueLeft \in Int
  BY <1>1 DEF QueueLeft
<1> QED
  BY <1>1, <1>2, <1>3, LeftIs, LeftWillBe

LEMMA RunLowers ==
  ASSUME IInv, IInv', Clone \/ Write \/ HandOn \/ WizardHears
  PROVE  Left' < Left
<1>1. UNCHANGED <<session, waitingForAbortAnswer, retry, phase, pending>>
  BY DEF Clone, Write, HandOn, WizardHears, fetch, progress
<1>2. write \in WriteRuns \cup {NoRun} /\ Cardinality(toHear) \in 0..2
  BY Ears DEF IInv, Types
<1>3. RunLeft' < RunLeft
  <2>1. CASE Clone
    <3>1. write'.stage \in {"working", "ended"} /\ toHear' = toHear /\ write.stage = "started"
      BY <1>2, <2>1 DEF Clone, WriteRuns, NoRun
    <3> QED
      BY <1>2, <3>1, RunIs, RunWillBe
  <2>2. CASE Write
    <3>1. write'.stage = "ended" /\ toHear' = toHear /\ write.stage = "working"
      BY <1>2, <2>2 DEF Write, WriteRuns, NoRun
    <3> QED
      BY <1>2, <3>1, RunIs, RunWillBe
  <2>3. CASE HandOn
    <3>1. write' = NoRun /\ toHear' = Writers /\ toHear = {} /\ write.stage = "ended"
      BY <2>3 DEF HandOn, InEventLoop
    <3> QED
      BY <1>2, <3>1, Ears, RunIs, RunWillBe
  <2>4. CASE WizardHears
    <3>1. write' = write /\ "wizard" \in toHear /\ toHear' = toHear \ {"wizard"} /\ toHear \subseteq Writers
      BY <2>4 DEF WizardHears, Heard, IInv, Types
    <3>2. Cardinality(toHear') = Cardinality(toHear) - 1
      BY <3>1, Ears
    <3>3. write = NoRun \/ write.stage \in {"started", "working", "ended"}
      BY <1>2 DEF WriteRuns
    <3> QED
      BY <1>2, <3>1, <3>2, <3>3, RunIs, RunWillBe
  <2> QED
    BY <2>1, <2>2, <2>3, <2>4
<1> QED
  BY <1>1, <1>3, PlaceKept

(* The end of a run is heard: the balance of the account is next, or the   *)
(* account leaves the queue.                                               *)
LEMMA HearsLowers ==
  ASSUME IInv, IInv', running', FetchHears
  PROVE  Left' < Left
<1>1. /\ "fetch" \in toHear /\ toHear' = toHear \ {"fetch"} /\ toHear \subseteq Writers
      /\ write = NoRun /\ session' = session /\ storeFailed \in BOOLEAN
  BY DEF FetchHears, Heard, IInv, OneRun, Types
<1>2. Cardinality(toHear') = Cardinality(toHear) - 1 /\ Cardinality(toHear) \in 0..2
  BY <1>1, Ears
<1>3. RunLeft = Cardinality(toHear)
  BY <1>1, <1>2, RunIs
<1>4. CASE phase = "None"
  <2>1. UNCHANGED <<write, session, waitingForAbortAnswer, retry, phase, pending>>
    BY <1>1, <1>4 DEF FetchHears, progress
  <2>2. RunLeft' < RunLeft
    BY <1>1, <1>2, <1>3, <2>1, RunWillBe
  <2> QED
    BY <2>1, <2>2, PlaceKept
<1>5. CASE phase # "None"
  <2>1. /\ session = "none" /\ session' = "none" /\ ~waitingForAbortAnswer /\ retry = "None"
        /\ pending # <<>> /\ pending \in Seq(Entries) /\ phase \in Parts
    BY <1>1, <1>5 DEF IInv, Placed, Types, Phases, Parts
  <2>2. Len(pending) \in Nat /\ Len(Tail(pending)) = Len(pending) - 1 /\ Tail(pending) \in Seq(Entries)
    BY <2>1, HeadTailProperties
  <2>3. Left = Cardinality(toHear) + QueueLeft
    BY <1>3, <2>1, LeftIs
  <2>4. ~(\E n : Ends("StoreFailed", n, summary))
    BY DEF Ends, Closed
  <2>5. CASE phase = "Transactions" /\ StartStoring("Balances", pending, storedCount, summary, phase)
    <3>1. GoesOn("Balances", pending) /\ "Balances" \in Parts
      BY <1>1, <2>1, <2>5, StartingGoesOn DEF Parts
    <3>2. Stores("Balances", pending)
      BY <1>1, <3>1 DEF GoesOn, Closes, Postpones
    <3>3. /\ RunLeft' = Cardinality(toHear') + 5 /\ Left' = RunLeft' + QueueLeft'
          /\ QueueLeft' = 10 * Len(pending) - 5
      BY <2>1, <3>1, <3>2, StoresLeft
    <3>4. QueueLeft = 10 * Len(pending)
      BY <2>1, <2>2, <2>5, QueueIs
    <3> QED
      BY <1>2, <2>2, <2>3, <3>3, <3>4
  <2>6. CASE BeginNextAccount(outcome, Tail(pending), storedCount, summary)
    <3> DEFINE next == FirstOf(Tail(pending))
    <3>1. next \in Parts /\ Parts = {"Transactions", "Balances"}
      BY DEF FirstOf, Parts
    <3>2. Closes \/ GoesOn(next, Tail(pending))
      BY <1>1, <2>2, <2>6, NextAccountGoesOn
    <3> HIDE DEF next
    <3>3. Stores(next, Tail(pending))
      BY <1>1, <3>2 DEF GoesOn, Closes, Postpones
    <3>4. /\ RunLeft' = Cardinality(toHear') + 5 /\ Left' = RunLeft' + QueueLeft'
          /\ \/ QueueLeft' = 10 * Len(Tail(pending))
             \/ QueueLeft' = 10 * Len(Tail(pending)) - 5
      BY <2>1, <3>1, <3>3, StoresLeft
    <3>5. QueueLeft = 10 * Len(pending) \/ QueueLeft = 10 * Len(pending) - 5
      BY <2>1, <2>2, <3>1, QueueIs
    <3> QED
      BY <1>2, <2>2, <2>3, <3>4, <3>5
  <2> QED
    BY <1>5, <2>4, <2>5, <2>6 DEF FetchHears
<1> QED
  BY <1>4, <1>5

(* While a fetch runs, every step of the fetch, of a run, of the wizard or *)
(* of the event loop brings it closer to its end, and a connection that    *)
(* falls does not set it back (startStoring, storeRunEnded, answerAbort).  *)
THEOREM EveryStepCounts == Spec => StepsCount
<1>1. /\ IInv /\ IInv' /\ TypeOK' /\ [Next]_vars
      => [running /\ running' => Left' < Left \/ (Left' = Left /\ generation' > generation)]_vars
  <2> SUFFICES ASSUME IInv, IInv', TypeOK', Next, running, running'
               PROVE  Left' < Left \/ (Left' = Left /\ generation' > generation)
    OBVIOUS
  <2>1. ~OpenVault /\ ~WizardStores /\ ~StartAll /\ \A a \in Accounts : ~Start(a)
    BY DEF OpenVault, WizardStores, StartAll, Start, Begins, SessionIsFree
  <2>2. ~FailLater
    BY DEF FailLater, Ends, Closed
  <2>3. CASE VaultFalls
    <3>1. UNCHANGED <<write, toHear, session, waitingForAbortAnswer, retry, phase, pending>>
      BY <2>3 DEF VaultFalls, fetch, progress
    <3>2. generation' > generation
      BY <2>3, FetchAssumption DEF VaultFalls, IInv, Types
    <3> QED
      BY <3>1, <3>2, RunKept, PlaceKept
  <2>4. CASE SingleEndsEmpty \/ SingleDelivers \/ AllFail \/ AllDeliver \/ AllAborted
    BY <2>4, ReturnLowers
  <2>5. ASSUME NEW keep \in BOOLEAN, AnswerAbort(keep) PROVE Left' < Left
    BY <2>5, AnswerLowers
  <2>6. CASE Clone \/ Write \/ HandOn \/ WizardHears
    BY <2>6, RunLowers
  <2>7. CASE RetryFires
    BY <2>7, RetryLowers
  <2>8. CASE FetchHears
    BY <2>8, HearsLowers
  <2> QED
    BY <2>1, <2>2, <2>3, <2>4, <2>5, <2>6, <2>7, <2>8 DEF Next
<1> QED
  BY <1>1, AccountFetchHolds, FetchTypes, PTL DEF Spec, StepsCount

(* A fetch of any number of accounts gets on, whatever the storage does to *)
(* it: something is due, and what comes takes it closer to its end.        *)
THEOREM FetchGetsOn == Spec => GetsOn
  BY NothingIsForgotten, EveryStepCounts, PTL DEF GetsOn

(* So a fetch is over within so many steps of its own and of those it has  *)
(* to wait for, whichever way it goes.                                     *)
THEOREM EndIsInSight == Spec => [](Left \in 0..(10 * Cardinality(Accounts) + 15))
<1>1. IInv /\ TypeOK => Left \in 0..(10 * Cardinality(Accounts) + 15)
  <2> SUFFICES ASSUME IInv, TypeOK PROVE Left \in 0..(10 * Cardinality(Accounts) + 15)
    OBVIOUS
  <2>1. /\ Cardinality(Accounts) \in Nat /\ RunLeft \in 0..7
        /\ Len(pending) \in Nat /\ Len(pending) <= Cardinality(Accounts)
    BY Numbers
  <2>2. QueueLeft \in 0..(10 * Cardinality(Accounts) + 8)
    <3>1. pending = <<>> \/ Len(pending) >= 1
      BY <2>1 DEF IInv, Types
    <3>2. phase # "None" \/ retry # "None" => Len(pending) >= 1
      BY <3>1 DEF IInv, Placed
    <3>3. phase # "None" => retry = "None"
      BY DEF IInv, Placed
    <3>4. phase \in {"None", "Transactions", "Balances"} /\ retry \in {"None", "Transactions", "Balances"}
      BY DEF IInv, Types, Phases
    <3> QED
      BY <2>1, <3>2, <3>3, <3>4, QueueIs
  <2> QED
    BY <2>1, <2>2, LeftIs
<1> QED
  BY <1>1, AccountFetchHolds, FetchTypes, PTL
=============================================================================
