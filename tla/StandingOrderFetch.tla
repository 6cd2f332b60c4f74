------------------------- MODULE StandingOrderFetch -------------------------
(***************************************************************************)
(* The fetch of standing orders (StandingOrderFetch), from the banking     *)
(* session to the marks in the file, for one account or for all.           *)
(*                                                                         *)
(* An account the bank answered without an order has none any more, and    *)
(* its whole holding is marked as ended; an account that was not asked,    *)
(* was refused, or was cut off by the user says nothing and is left alone. *)
(* The banking library tells these apart badly: a stop comes up as a plain *)
(* success with an empty result.                                           *)
(*                                                                         *)
(* Storage is the one StorageContract describes; the fetch and the setup   *)
(* wizard are its two writers, and each hears the ends of both.            *)
(***************************************************************************)
EXTENDS Naturals, Sequences, FiniteSets

CONSTANTS
  MaxAccount,  \* the accounts are 1..MaxAccount, in the order of the tree
  MaxFetches,  \* bound: fetches
  MaxSetups,   \* bound: runs of the setup wizard
  MaxFalls     \* bound: connections that fall

ASSUME FetchAssumption ==
  /\ MaxAccount \in Nat \ {0}
  /\ {MaxFetches, MaxSetups, MaxFalls} \subseteq Nat

Accounts == 1..MaxAccount

VARIABLES
  file, call,    \* the open storage and where the two calls stand
  working,       \* the worker of the run that is out: none, busy, good or bad
  running, overAllAccounts,
  session,       \* of the banking layer: none, out, or doomed to fail later
  asked,
  outcome,
  pending,       \* PendingAccount: the account, its orders, whether it succeeded
  storing, storeFailed, storedCount, storedBeforeRun,
  retry,         \* the single shot timer of startStoring
  waitingForAbortAnswer,
  attempted, summary,
  report         \* what ended or allEnded said last

\* What really happened: what became of each account at the bank, whether the
\* user stopped it, the orders the bank sent, the accounts whose orders were
\* written and those whose missing orders were marked, the rows added, and
\* whether the storage stood from start to end.
VARIABLES fate, stopped, sent, written, marked, added, stood, fetches, setups, falls

storage == <<file, call, working>>
counting == <<storing, storeFailed, storedCount, storedBeforeRun>>
progress == <<counting, pending, retry, waitingForAbortAnswer, attempted, summary>>
effects == <<written, marked, added>>
truth == <<fate, stopped, sent, effects, stood>>
bounds == <<fetches, setups, falls>>
fetch == <<running, overAllAccounts, session, asked, outcome, progress, report>>
vars == <<storage, fetch, truth, bounds>>

Writers == {"fetch", "wizard"}
Contract == INSTANCE StorageContract WITH
  Readers <- {}, Writers <- Writers, Files <- {"vault"}, NoFile <- "none"

InEventLoop == Contract!NobodyIsTold
NoReport == [outcome |-> "none"]
NoSummary == [skipped |-> 0, failed |-> 0, notOffered |-> 0, kept |-> FALSE]

(* What an account answers with: no order, orders the file holds already,  *)
(* or one more than it holds.                                              *)
Answers == {"none", "known", "new"}
Fresh(orders) == IF orders = "new" THEN 1 ELSE 0

-----------------------------------------------------------------------------
(* Accounts in the order they were asked in.                               *)
InOrder(S) ==
  CHOOSE q \in UNION {[1..n -> S] : n \in 0..MaxAccount} :
    /\ \A i, j \in DOMAIN q : i < j => q[i] < q[j]
    /\ \A a \in S : \E i \in DOMAIN q : q[i] = a

(* Mutation: one entry for the orders and one for the answer.              *)
QueueByRecord(heard, orders, succeeded) ==
  LET queue == InOrder({a \in heard : orders[a] # "none"}) \o InOrder(heard)
  IN  [i \in DOMAIN queue |->
         [of |-> queue[i], succeeded |-> succeeded, orders |-> orders[queue[i]]]]

(* queueReceived: one entry for each account that is not unreachable, in   *)
(* the order they were asked in; heard are those the result speaks of.     *)
(* What was cut short is only there where it brought something.            *)
QueueReceived(heard, orders, succeeded) ==
  LET queue == InOrder({a \in heard : succeeded \/ orders[a] # "none"})
  IN  [i \in DOMAIN queue |->
         [of |-> queue[i], succeeded |-> succeeded, orders |-> orders[queue[i]]]]

(* Mutation: what was not offered was fetched.                             *)
LeftOverOfTwo(s) == attempted - s.skipped - s.failed

(* What finishAll reports as fetched.                                      *)
LeftOver(s) ==
  LET passed == s.skipped + s.failed + s.notOffered
  IN  IF attempted > passed THEN attempted - passed ELSE 0

(* finishRun: finish or finishAll, with closeRun.                          *)
Finish(calls, ended, count, s) ==
  /\ running' = FALSE /\ storing' = FALSE /\ retry' = FALSE /\ waitingForAbortAnswer' = FALSE
  /\ pending' = <<>> /\ asked' = {}
  /\ report' = [outcome |-> ended, count |-> count, all |-> overAllAccounts,
                fetched |-> LeftOver(s), summary |-> s]
  /\ storedCount' = 0 /\ attempted' = 0 /\ summary' = NoSummary /\ overAllAccounts' = FALSE
  /\ call' = calls
  /\ UNCHANGED <<working, storedBeforeRun>>

FinishWithoutRun(ended, count, s) ==
  Finish(call, ended, count, s) /\ UNCHANGED storeFailed

(* The mark of a run of this class that actually started.                  *)
StoringAfter(accepted) == accepted

(* Mutation: a way that is taken ends the attempt.                         *)
RetryNever(accepted) == FALSE

RetryAfter(accepted) == ~accepted

(* Mutation: the storage takes a second run while one is out.              *)
AlwaysAccepted(calls) == TRUE

(* The refusal of storeItems that is a moment and not a failure.           *)
Accepted(calls) == \A c \in Writers : calls[c] \notin Contract!UnderWay

(* startStoring for the head of the queue, over the calls as they stand.   *)
(* A taken way is asked again later, a storage that is gone is not.        *)
StartStoring(calls, queue, count, s) ==
  LET accepted == Accepted(calls)
  IN  /\ storeFailed' = FALSE
      /\ IF file = "none" THEN Finish(calls, "StoreFailed", count, s)
         ELSE /\ call' = IF accepted THEN [calls EXCEPT !["fetch"] = "out"] ELSE calls
              /\ working' = IF accepted THEN "busy" ELSE working
              /\ storing' = StoringAfter(accepted) /\ retry' = RetryAfter(accepted)
              /\ pending' = queue /\ storedCount' = count /\ storedBeforeRun' = count
              /\ summary' = s /\ waitingForAbortAnswer' = FALSE
              /\ UNCHANGED <<running, overAllAccounts, asked, attempted, report>>

(* beginNextAccount; o is how the session ended.                           *)
BeginNextAccount(o, queue, count, s) ==
  IF queue = <<>> THEN FinishWithoutRun(o, count, s) ELSE StartStoring(call, queue, count, s)

-----------------------------------------------------------------------------
Fates == {"none", "offline", "notOffered", "refused", "cut", "answered"}
Outcomes == {"Received", "Skipped", "NotOffered", "Aborted", "Failed", "StoreFailed"}
Count == 0..MaxAccount
Summaries == [skipped : Count, failed : Count, notOffered : Count, kept : BOOLEAN]
Entries == [of : Accounts, succeeded : BOOLEAN, orders : Answers]

TypeOK ==
  /\ file \in {"vault", "none"}
  /\ call \in [Writers -> Contract!UnderWay \cup Contract!Told \cup {"idle"}]
  /\ working \in {"none", "busy", "good", "bad"}
  /\ {running, overAllAccounts, storing, storeFailed, retry, waitingForAbortAnswer, stopped,
      stood} \subseteq BOOLEAN
  /\ session \in {"none", "out", "doomed"}
  /\ {asked, written, marked} \subseteq SUBSET Accounts
  /\ outcome \in Outcomes
  /\ {storedCount, storedBeforeRun, attempted, added} \subseteq Count
  /\ pending \in Seq(Entries) /\ Len(pending) <= MaxAccount
  /\ summary \in Summaries
  /\ \/ report = NoReport
     \/ report \in [outcome : Outcomes, count : Count, all : BOOLEAN, fetched : Count,
                    summary : Summaries]
  /\ fate \in [Accounts -> Fates] /\ sent \in [Accounts -> Answers]
  /\ fetches \in 0..MaxFetches /\ setups \in 0..MaxSetups /\ falls \in 0..MaxFalls

Init ==
  /\ file = "none" /\ call = [c \in Writers |-> "idle"] /\ working = "none"
  /\ running = FALSE /\ overAllAccounts = FALSE /\ session = "none" /\ asked = {}
  /\ outcome = "Received" /\ pending = <<>>
  /\ storing = FALSE /\ storeFailed = FALSE /\ storedCount = 0 /\ storedBeforeRun = 0
  /\ retry = FALSE /\ waitingForAbortAnswer = FALSE
  /\ attempted = 0 /\ summary = NoSummary /\ report = NoReport
  /\ fate = [a \in Accounts |-> "none"] /\ stopped = FALSE
  /\ sent = [a \in Accounts |-> "none"]
  /\ written = {} /\ marked = {} /\ added = 0 /\ stood = TRUE
  /\ fetches = 0 /\ setups = 0 /\ falls = 0

(* A vault is opened; and it falls when another one is created, which the  *)
(* window allows under a fetch but not under the question after a stop.    *)
OpenVault ==
  /\ ~running /\ file = "none" /\ Contract!Switch("vault")
  /\ UNCHANGED <<working, fetch, truth, bounds>>

VaultFalls ==
  /\ ~waitingForAbortAnswer /\ falls < MaxFalls
  /\ file # "none" /\ Contract!Switch("none")
  /\ falls' = falls + 1 /\ stood' = (stood /\ ~running)
  /\ UNCHANGED <<working, fetch, fate, stopped, sent, effects, fetches, setups>>

(* storeTheResultOfTheWizard: the entry is off while a fetch runs, and a   *)
(* fetch may begin while the run is out.                                   *)
WizardStores ==
  /\ InEventLoop /\ ~running /\ setups < MaxSetups
  /\ Contract!Accept("wizard")
  /\ working' = "busy" /\ setups' = setups + 1
  /\ UNCHANGED <<fetch, truth, fetches, falls>>

-----------------------------------------------------------------------------
(* start and startAll with beginRun; the banking layer may not come up.    *)
Begins(all, S, up) ==
  /\ InEventLoop /\ ~running /\ fetches < MaxFetches /\ file # "none"
  /\ running' = TRUE /\ overAllAccounts' = all /\ outcome' = "Received"
  /\ session' = IF up THEN "out" ELSE "doomed"
  /\ asked' = IF all /\ ~up THEN {} ELSE S
  /\ attempted' = IF all /\ up THEN Cardinality(S) ELSE 0
  /\ storedCount' = 0 /\ summary' = NoSummary /\ pending' = <<>> /\ report' = NoReport
  /\ fate' = [a \in Accounts |-> "none"] /\ stopped' = FALSE
  /\ sent' = [a \in Accounts |-> "none"]
  /\ written' = {} /\ marked' = {} /\ added' = 0 /\ stood' = TRUE
  /\ fetches' = fetches + 1
  /\ UNCHANGED <<storage, storing, storeFailed, storedBeforeRun, retry, waitingForAbortAnswer,
                 setups, falls>>

Start(a) == \E up \in BOOLEAN : Begins(FALSE, {a}, up)
StartAll == \E up \in BOOLEAN : Begins(TRUE, Accounts, up)

(* failLater *)
FailLater ==
  /\ InEventLoop /\ session = "doomed"
  /\ session' = "none"
  /\ FinishWithoutRun("Failed", storedCount, summary)
  /\ UNCHANGED <<file, outcome, truth, bounds>>

-----------------------------------------------------------------------------
(* The session comes back.  What the library reports is settled here:      *)
(* which accounts it named, and what it says of the session as a whole.    *)

(* What happened at the bank: the fates of the accounts that were asked    *)
(* about, and what those sent that answered.                               *)
SessionReturns(fates) ==
  /\ InEventLoop /\ session = "out" /\ session' = "none"
  /\ \E f \in [asked -> fates] :
       /\ fate' = [a \in Accounts |-> IF a \in asked THEN f[a] ELSE "none"]
       /\ sent' \in [Accounts -> Answers]
       /\ \A a \in Accounts : fate'[a] # "answered" => sent'[a] = "none"
  /\ UNCHANGED <<file, effects, stood, bounds>>

Became(S) == {a \in asked : fate'[a] \in S}

(* accountSkipped by fetchStandingOrders, and standingOrdersNotOffered by  *)
(* the session; a run over one account keeps what it was told.             *)
SinglePassedOver ==
  /\ ~overAllAccounts /\ SessionReturns({"offline", "notOffered"}) /\ stopped' = FALSE
  /\ outcome' = IF Became({"offline"}) # {} THEN "Skipped" ELSE "NotOffered"
  /\ FinishWithoutRun(outcome', storedCount, summary)

(* errorOccurred, also where the one order was refused, and aborted.       *)
SingleFails ==
  /\ ~overAllAccounts /\ SessionReturns({"refused", "cut"})
  /\ stopped' \in BOOLEAN
  /\ outcome' \in {"Failed"} \cup (IF stopped' THEN {"Aborted"} ELSE {})
  /\ FinishWithoutRun(outcome', storedCount, summary)

(* Mutation: the interface is not asked.                                   *)
StopUnheard(userAborted) == FALSE

(* userAborted: the library smooths a stop away, the interface saw it.     *)
StopHeard(userAborted) == userAborted

(* itemsReceived and finished.  An account that was cut off by a stop      *)
(* comes back empty.                                                       *)
SingleReceived ==
  /\ ~overAllAccounts /\ SessionReturns({"cut", "answered"})
  /\ stopped' \in IF Became({"cut"}) = {} THEN BOOLEAN ELSE {TRUE}
  /\ IF StopHeard(stopped')
     THEN outcome' = "Aborted" /\ FinishWithoutRun("Aborted", storedCount, summary)
     ELSE /\ outcome' = "Received"
          /\ BeginNextAccount("Received", QueueReceived(asked, sent', TRUE), storedCount, summary)

(* What noteUnreachable leaves of the accounts; flagged are those whose    *)
(* order carries a failure of its own, which one that was cut off need not.*)
HeardFrom(flagged) == asked \ (Became({"offline", "notOffered", "refused"}) \cup flagged)

(* The counts of the handlers of a run over several accounts.              *)
CountsOf(failed) ==
  [skipped |-> Cardinality(Became({"offline"})), failed |-> Cardinality(failed),
   notOffered |-> Cardinality(Became({"notOffered"})), kept |-> FALSE]

(* errorOccurred for the session as a whole.                               *)
AllFail ==
  /\ overAllAccounts /\ SessionReturns({"offline", "notOffered", "cut"})
  /\ stopped' \in BOOLEAN
  /\ outcome' = "Failed"
  /\ FinishWithoutRun("Failed", storedCount, CountsOf({}))

AllReceived ==
  /\ overAllAccounts /\ SessionReturns({"offline", "notOffered", "refused", "answered"})
  /\ stopped' = FALSE
  /\ outcome' = "Received"
  /\ BeginNextAccount("Received", QueueReceived(HeardFrom({}), sent', TRUE), storedCount,
                      CountsOf(Became({"refused"})))

(* Stopped.  Where the library says so it brings nothing; where it claims  *)
(* to have gone through, what came in waits for an answer.                 *)
AllAborted ==
  /\ overAllAccounts
  /\ SessionReturns({"offline", "notOffered", "refused", "cut", "answered"})
  /\ stopped' = TRUE
  /\ \E smoothed \in BOOLEAN, flagged \in SUBSET Became({"cut"}) :
       LET heard == HeardFrom(flagged)
           queue == IF smoothed THEN QueueReceived(heard, sent', FALSE) ELSE <<>>
       IN  IF smoothed /\ ~StopHeard(TRUE)
           THEN /\ outcome' = "Received"
                /\ BeginNextAccount("Received", QueueReceived(heard, sent', TRUE), storedCount,
                                    CountsOf(Became({"refused"}) \cup flagged))
           ELSE /\ outcome' = "Aborted"
                /\ IF queue = <<>> THEN FinishWithoutRun("Aborted", storedCount, CountsOf({}))
                   ELSE /\ pending' = queue /\ summary' = CountsOf({})
                        /\ waitingForAbortAnswer' = TRUE
                        /\ UNCHANGED <<call, working, running, overAllAccounts, asked, counting,
                                       retry, attempted, report>>

(* answerAbort *)
AnswerAbort(keep) ==
  /\ InEventLoop /\ waitingForAbortAnswer
  /\ LET s == [summary EXCEPT !.kept = keep]
     IN  IF keep THEN BeginNextAccount("Aborted", pending, storedCount, s)
         ELSE FinishWithoutRun("Aborted", storedCount, s)
  /\ UNCHANGED <<file, session, outcome, truth, bounds>>

(* The timer of startStoring, once it no longer finds the way taken.       *)
RetryFires ==
  /\ InEventLoop /\ retry
  /\ file = "none" \/ Accepted(call)
  /\ StartStoring(call, pending, storedCount, summary)
  /\ UNCHANGED <<file, session, outcome, truth, bounds>>

-----------------------------------------------------------------------------
(* The run in its thread (writeItems, see VaultRows), and its end.         *)

Work ==
  /\ working = "busy"
  /\ working' \in {"good", "bad"}
  /\ IF working' = "good" /\ call["fetch"] \in Contract!UnderWay
     THEN LET entry == Head(pending)
          IN  /\ written' = written \cup {entry.of}
              /\ marked' = IF entry.succeeded THEN marked \cup {entry.of} ELSE marked
              /\ added' = added + Fresh(entry.orders)
     ELSE UNCHANGED effects
  /\ UNCHANGED <<file, call, fetch, fate, stopped, sent, stood, bounds>>

(* takeStoredCount, while the mark stands; n is what the run wrote anew.   *)
TakeStoredCount(n) == IF storing THEN storedBeforeRun + n ELSE storedCount

(* writeFailed, itemsStored and writeFinished, of which an outlived run    *)
(* has the last alone.                                                     *)
HandOn(c) ==
  /\ InEventLoop /\ call[c] \in Contract!UnderWay /\ working \in {"good", "bad"}
  /\ call' = [call EXCEPT ![c] = IF @ = "stale" THEN "silent"
                                 ELSE IF working = "good" THEN "result" ELSE "failed"]
  /\ working' = "none"
  /\ storeFailed' = (storeFailed \/ (storing /\ call'[c] = "failed"))
  /\ storedCount' =
       IF call'[c] = "silent" THEN storedCount
       ELSE TakeStoredCount(IF call'[c] = "result" /\ c = "fetch"
                            THEN Fresh(Head(pending).orders) ELSE 0)
  /\ UNCHANGED <<file, running, overAllAccounts, session, asked, outcome, storing,
                 storedBeforeRun, pending, retry, waitingForAbortAnswer, attempted, summary,
                 report, truth, bounds>>

(* Mutation: the failure of a run is not looked at.                        *)
RunFailedNever == FALSE

RunFailed == storeFailed

(* storeRunEnded, with the end of whichever run is told.                   *)
StoreRunEnded(calls) ==
  IF ~storing THEN call' = calls /\ UNCHANGED <<working, fetch>>
  ELSE /\ IF RunFailed
          THEN Finish(calls, "StoreFailed", storedBeforeRun, summary) /\ UNCHANGED storeFailed
          ELSE IF Tail(pending) = <<>>
          THEN Finish(calls, outcome, storedCount, summary) /\ UNCHANGED storeFailed
          ELSE StartStoring(calls, Tail(pending), storedCount, summary)
       /\ UNCHANGED <<session, outcome>>

(* The end of a run reaches the fetch and the wizard; only one of them had *)
(* a run out, and the fetch starts its next one from this slot.            *)
Hears(c) ==
  /\ call[c] \in Contract!Told
  /\ StoreRunEnded([call EXCEPT ![c] = "idle"])
  /\ UNCHANGED <<file, truth, bounds>>

Next ==
  \/ OpenVault \/ VaultFalls \/ WizardStores
  \/ \E a \in Accounts : Start(a)
  \/ StartAll \/ FailLater
  \/ SinglePassedOver \/ SingleFails \/ SingleReceived
  \/ AllFail \/ AllReceived \/ AllAborted
  \/ \E keep \in BOOLEAN : AnswerAbort(keep)
  \/ RetryFires \/ Work \/ \E c \in Writers : HandOn(c) \/ Hears(c)

(* The thread works, what it reports is delivered, the timer fires, the    *)
(* library times out on a dead line, and the user answers a message box.   *)
Fairness ==
  /\ WF_vars(Work) /\ WF_vars(RetryFires) /\ WF_vars(FailLater)
  /\ \A c \in Writers : WF_vars(HandOn(c)) /\ WF_vars(Hears(c))
  /\ WF_vars(SinglePassedOver \/ SingleFails \/ SingleReceived
             \/ AllFail \/ AllReceived \/ AllAborted)
  /\ WF_vars(\E keep \in BOOLEAN : AnswerAbort(keep))

Spec == Init /\ [][Next]_vars /\ Fairness

-----------------------------------------------------------------------------
Over == ~running /\ report # NoReport
With(f) == {a \in Accounts : fate[a] = f}

(* The mark of this fetch stands exactly while its own run is out or its   *)
(* own end to be heard, across Busy answers, retries, the runs of the      *)
(* wizard and a connection that falls.                                     *)
StoringIsOwn == storing <=> call["fetch"] # "idle"

(* The holding of an account is marked as ended only where the bank        *)
(* answered for that account and nobody stopped the session: neither a     *)
(* refusal nor a missing request nor a stop the library hides says that    *)
(* there are no orders left.                                               *)
OnlyAnswersMark == \A a \in marked : fate[a] = "answered" /\ ~stopped

(* What a fetch reports is what it did, as long as the storage stood: all  *)
(* accounts that answered are written and marked; after a stop what came   *)
(* in is written if the user kept it, and never marked; a failing run      *)
(* leaves the accounts written that stand before it in the order asked;    *)
(* and the count is the number of orders added.                            *)
Answered == IF stopped THEN {a \in With("answered") : sent[a] # "none"} ELSE With("answered")

TellsTheTruth ==
  Over /\ stood =>
    /\ report.count = added
    /\ CASE report.outcome = "Received" -> written = Answered /\ marked = Answered
         [] report.outcome = "StoreFailed" ->
              \E failed \in Answered : written = {a \in Answered : a < failed}
         [] report.outcome = "Aborted" ->
              written = (IF report.summary.kept THEN Answered ELSE {}) /\ marked = {}
         [] OTHER -> written = {}

(* The four figures of a run over all accounts that was not stopped are    *)
(* what became of the accounts, and add up to all of them.                 *)
FiguresAddUp ==
  Over /\ report.all /\ ~stopped /\ report.outcome \in {"Received", "StoreFailed"} =>
    /\ report.fetched = Cardinality(With("answered"))
    /\ report.summary.skipped = Cardinality(With("offline"))
    /\ report.summary.failed = Cardinality(With("refused"))
    /\ report.summary.notOffered = Cardinality(With("notOffered"))

(* What is ahead of a fetch: the session, the question after a stop, for   *)
(* each account of the queue a run in its three stages and the step to the *)
(* next one, before a retry the run that takes the way.                    *)
RunLeft ==
  CASE working = "busy" -> 3
    [] working \in {"good", "bad"} -> 2
    [] OTHER -> IF InEventLoop THEN 0 ELSE 1

Left ==
  RunLeft +
    CASE session # "none" -> 4 * MaxAccount + 6
      [] session = "none" /\ waitingForAbortAnswer -> 4 * MaxAccount + 5
      [] OTHER -> 4 * Len(pending) + IF retry THEN 4 ELSE 0

(* While a fetch runs, every step of whichever actor brings it             *)
(* closer to its end, and a vault that falls, the only exception, does not *)
(* set it back.  No run of the wizard comes between its own, and no retry  *)
(* is for nothing.                                                         *)
StepsCount == [][running /\ running' => Left' < Left \/ (Left' = Left /\ falls' > falls)]_vars

(* A fetch never waits for nothing: as long as it runs, an end is told,    *)
(* the session or the question is out, a run is in its thread or back from *)
(* it, or the way is free and the timer about to find it so.               *)
SomethingIsDue ==
  running =>
    \/ ~InEventLoop \/ session # "none" \/ waitingForAbortAnswer
    \/ working = "busy"
    \/ working # "none" /\ \E c \in Writers : call[c] \in Contract!UnderWay
    \/ retry /\ (file = "none" \/ Accepted(call))

(* Whatever happens to the storage, a fetch gets on: it never waits for    *)
(* nothing, and what comes takes it closer to its end.                     *)
GetsOn == []SomethingIsDue /\ StepsCount

(* Every fetch comes to its end, whatever the storage does, so that the    *)
(* session is given back.                                                  *)
EveryFetchEnds == running ~> ~running

(* The fetch and the wizard behave towards Storage as StorageContract      *)
(* assumes of its callers.                                                 *)
KeepsTheContract == Contract!Spec
=============================================================================
