---------------------------- MODULE AccountFetch ----------------------------
(***************************************************************************)
(* The fetch of bookings and balances (AccountFetch), from the start of    *)
(* the banking session to the stored rows, for one account or for all.     *)
(*                                                                         *)
(* What the bank brought is kept in a queue by account and written over    *)
(* the one write way of Storage: the bookings of an account in one run,    *)
(* its balance in the next.  The setup wizard writes over the same way, so *)
(* a fetch may find it taken.  After a stopped fetch over all accounts the *)
(* user is asked whether to keep what came in.  The connection may fall    *)
(* under a fetch: the menu entry for a new vault is never switched off.    *)
(***************************************************************************)
EXTENDS Naturals, Sequences, FiniteSets, SequencesExt

CONSTANTS
  Accounts,       \* the accounts of the open storage
  MaxGeneration,  \* bound: connections that fall
  MaxFetches,     \* bound: fetches
  MaxSetups       \* bound: runs of the setup wizard

ASSUME FetchAssumption ==
  /\ IsFiniteSet(Accounts)
  /\ {MaxGeneration, MaxFetches, MaxSetups} \subseteq Nat

VARIABLES
  open,              \* a connection stands
  generation,        \* m_connectionGeneration
  write,             \* the write run that is out
  telling,           \* the end that is being told
  toHear,            \* who is still to be told
  wizard,            \* the wizard waits for the end of its run
  running,
  overAllAccounts,
  session,           \* of the banking layer: none, out, or doomed to fail later
  asked,             \* the accounts the session asks about
  outcome,
  phase,             \* StorePhase
  storeFailed,
  storedCount,
  storedBeforeRun,
  pending,           \* the queue of accounts to store
  waitingForAbortAnswer,
  retry,             \* the phase a single shot timer is to try again
  summary,           \* skipped, failed and keptAfterAbort of the Summary
  attempted,
  report             \* what ended or allEnded said last

\* What really happened, for the properties: what became of each account, the
\* parts of accounts the bank brought, those that are in the file, the rows
\* they added, and whether the connection stood from start to end.
VARIABLES fate, brought, stored, added, stood, fetches, setups

storage == <<open, generation, write, telling, toHear>>
progress == <<phase, storeFailed, storedCount, storedBeforeRun, pending,
              waitingForAbortAnswer, retry, summary, attempted>>
fetch == <<running, overAllAccounts, session, asked, outcome, progress, report>>
truth == <<fate, brought, stored, added, stood>>
vars == <<storage, wizard, fetch, truth, fetches, setups>>

InEventLoop == toHear = {}
NoRun == [stage |-> "none"]
Quiet == [kind |-> "quiet"]
NoReport == [outcome |-> "none"]
Writers == {"fetch", "wizard"}

(* An entry of the queue (PendingAccount): whether it holds bookings and a *)
(* balance, and how many of the bookings the file does not hold yet.       *)
Entry(a, parts, n) == [of |-> a, parts |-> parts, fresh |-> n]
Parts == {"Transactions", "Balances"}

PartsOf(queue) == UNION {{<<e.of, p>> : p \in e.parts} : e \in ToSet(queue)}

(* The queues over the accounts T, in the order their first record came.   *)
QueuesOver(T) ==
  {queue \in {[i \in DOMAIN order |-> Entry(order[i], parts[order[i]], new[order[i]])] :
                order \in SetToSeqs(T),
                parts \in [T -> (SUBSET Parts) \ {{}}],
                new \in [T -> 0..1]} :
     \A e \in ToSet(queue) : "Transactions" \notin e.parts => e.fresh = 0}

(* Mutation: one entry for every record.                                   *)
QueueByRecord(S) ==
  UNION {{FlattenSeq([i \in DOMAIN queue |->
            IF queue[i].parts = Parts
            THEN <<Entry(queue[i].of, {"Transactions"}, queue[i].fresh),
                   Entry(queue[i].of, {"Balances"}, 0)>>
            ELSE <<queue[i]>>]) : queue \in QueuesOver(T)} : T \in SUBSET S}

(* queueReceived: what a session over the accounts S may have brought, one *)
(* entry per account that anything came for.                               *)
QueueReceived(S) == UNION {QueuesOver(T) : T \in SUBSET S}

-----------------------------------------------------------------------------
NoSummary == [skipped |-> 0, failed |-> 0, kept |-> FALSE]

(* finish and finishAll with closeRun: the session is given back, the run  *)
(* is over, and what it counted is reported and forgotten.                 *)
Closed(ended, count, s) ==
  /\ running' = FALSE /\ phase' = "None" /\ waitingForAbortAnswer' = FALSE
  /\ pending' = <<>> /\ retry' = "None"
  /\ report' = [outcome |-> ended, count |-> count, all |-> overAllAccounts,
                skipped |-> s.skipped, failed |-> s.failed, kept |-> s.kept,
                fetched |-> IF attempted > s.skipped + s.failed
                            THEN attempted - s.skipped - s.failed ELSE 0]
  /\ storedCount' = 0 /\ storedBeforeRun' = 0
  /\ summary' = NoSummary /\ attempted' = 0

(* finishRun, where no run was started.                                    *)
Ends(ended, count, s) == /\ Closed(ended, count, s)
                         /\ UNCHANGED <<write, storeFailed>>

RunFor(by, part, fresh) ==
  [stage |-> "started", by |-> by, since |-> generation, part |-> part,
   fresh |-> fresh, good |-> FALSE]

(* Mutation: the phase is set before the storage has answered.             *)
PhaseAtOnce(before, next, accepted) == next

(* The phase is set where a run of this fetch actually started.            *)
PhaseAfter(before, next, accepted) == IF accepted THEN next ELSE before

(* Mutation: a write way that is taken ends the attempt.                   *)
NoRetry(next) == "None"

RetryOf(next) == next

(* Mutation: the storage takes a second run while one is out.              *)
StorageNeverBusy == FALSE

(* The refusal of storeItems that is a moment and not a failure.           *)
StorageBusy == write # NoRun

(* startStoring for the head of the queue, count rows being stored so far  *)
(* and the phase being the one before.                                     *)
StartStoring(next, queue, count, s, before) ==
  IF ~open THEN Closed("StoreFailed", count, s) /\ storeFailed' = FALSE /\ UNCHANGED write
  ELSE /\ write' = IF StorageBusy THEN write
                   ELSE RunFor("fetch", <<Head(queue).of, next>>,
                               IF next = "Transactions" THEN Head(queue).fresh ELSE 0)
       /\ phase' = PhaseAfter(before, next, ~StorageBusy)
       /\ retry' = IF StorageBusy THEN RetryOf(next) ELSE "None"
       /\ pending' = queue
       /\ storeFailed' = FALSE /\ storedCount' = count /\ storedBeforeRun' = count
       /\ summary' = s /\ waitingForAbortAnswer' = FALSE
       /\ UNCHANGED <<running, attempted, report>>

(* beginNextAccount: no entry is empty, see queueReceived.  o is how the   *)
(* session ended.                                                          *)
BeginNextAccount(o, queue, count, s) ==
  IF queue = <<>> THEN Ends(o, count, s)
  ELSE StartStoring(IF "Transactions" \in Head(queue).parts THEN "Transactions" ELSE "Balances",
                    queue, count, s, "None")

-----------------------------------------------------------------------------
Fates == {"none", "unreadable", "offline", "nothing", "refused", "answered", "cut"}
Outcomes == {"Received", "BalanceOnly", "Skipped", "NothingOffered", "Aborted", "Failed",
             "StoreFailed"}
Phases == {"None", "Transactions", "Balances"}
Count == 0..Cardinality(Accounts)

TypeOK ==
  /\ {open, wizard, running, overAllAccounts, storeFailed, waitingForAbortAnswer, stood}
       \subseteq BOOLEAN
  /\ generation \in 0..MaxGeneration
  /\ write = NoRun \/ (write.by \in Writers /\ write.since \in 0..generation)
  /\ telling = Quiet \/ telling.kind \in {"result", "failed", "silent"}
  /\ toHear \subseteq Writers
  /\ session \in {"none", "out", "doomed"} /\ asked \subseteq Accounts
  /\ outcome \in Outcomes /\ phase \in Phases /\ retry \in Phases
  /\ {storedCount, storedBeforeRun, added, attempted} \subseteq Count
  /\ pending \in Seq([of : Accounts, parts : SUBSET Parts, fresh : 0..1])
  /\ Len(pending) <= Cardinality(Accounts)
  /\ summary \in [skipped : Count, failed : Count, kept : BOOLEAN]
  /\ report = NoReport \/ report.outcome \in Outcomes
  /\ fate \in [Accounts -> Fates]
  /\ {brought, stored} \subseteq SUBSET (Accounts \X Parts)
  /\ fetches \in 0..MaxFetches /\ setups \in 0..MaxSetups

Init ==
  /\ open = FALSE /\ generation = 0
  /\ write = NoRun /\ telling = Quiet /\ toHear = {}
  /\ wizard = FALSE
  /\ running = FALSE /\ overAllAccounts = FALSE /\ session = "none" /\ asked = {}
  /\ outcome = "Received" /\ phase = "None" /\ storeFailed = FALSE
  /\ storedCount = 0 /\ storedBeforeRun = 0 /\ pending = <<>>
  /\ waitingForAbortAnswer = FALSE /\ retry = "None"
  /\ summary = NoSummary /\ attempted = 0 /\ report = NoReport
  /\ fate = [a \in Accounts |-> "none"]
  /\ brought = {} /\ stored = {} /\ added = 0 /\ stood = TRUE
  /\ fetches = 0 /\ setups = 0

-----------------------------------------------------------------------------
(* The connection, and the wizard that writes the accounts it set up.      *)

OpenVault ==
  /\ InEventLoop /\ ~running /\ ~open
  /\ open' = TRUE
  /\ UNCHANGED <<generation, write, telling, toHear, wizard, fetch, truth, fetches, setups>>

(* Closing is switched off while a fetch runs, creating a vault is not; a  *)
(* message box of the window keeps both away.                              *)
VaultFalls ==
  /\ InEventLoop /\ ~waitingForAbortAnswer
  /\ open /\ generation < MaxGeneration
  /\ open' = FALSE
  /\ generation' = generation + 1
  /\ stood' = (stood /\ ~running)
  /\ UNCHANGED <<write, telling, toHear, wizard, fetch, fate, brought, stored, added,
                 fetches, setups>>

(* storeTheResultOfTheWizard: the entry is off while a fetch runs.         *)
WizardStores ==
  /\ InEventLoop /\ ~running /\ setups < MaxSetups
  /\ open /\ write = NoRun /\ ~wizard
  /\ write' = RunFor("wizard", <<>>, 0)
  /\ wizard' = TRUE
  /\ setups' = setups + 1
  /\ UNCHANGED <<open, generation, telling, toHear, fetch, truth, fetches>>

-----------------------------------------------------------------------------
(* Mutation: the session is given back when it ends, before the storing.   *)
SessionGivenBackEarly == session = "none" /\ ~waitingForAbortAnswer

(* beginFetch: the session is handed out once and given back in closeRun.  *)
SessionIsFree == ~running

(* What start and startAll share.                                          *)
Begins(all, unreadable, S, sent) ==
  /\ InEventLoop /\ SessionIsFree /\ fetches < MaxFetches
  /\ running' = TRUE /\ overAllAccounts' = all
  /\ outcome' = "Received" /\ storedCount' = 0 /\ pending' = <<>>
  /\ session' = IF sent THEN "out" ELSE "doomed"
  /\ asked' = IF sent THEN S \ unreadable ELSE {}
  /\ fate' = [a \in Accounts |-> IF a \in unreadable THEN "unreadable" ELSE "none"]
  /\ brought' = {} /\ stored' = {} /\ added' = 0 /\ stood' = TRUE
  /\ report' = NoReport
  /\ fetches' = fetches + 1
  /\ UNCHANGED <<storage, wizard, phase, storeFailed, storedBeforeRun,
                 waitingForAbortAnswer, retry, setups>>

(* start: the banking layer may not come up, and the storage may not tell  *)
(* where to start from.                                                    *)
Start(a) ==
  /\ \E sent \in BOOLEAN : (sent => open) /\ Begins(FALSE, {}, {a}, sent)
  /\ UNCHANGED <<summary, attempted>>

(* Mutation: only the accounts that can be asked about are counted.        *)
AttemptedReachable(unreadable) == Cardinality(Accounts \ unreadable)

Attempted(unreadable) == Cardinality(Accounts)

(* startAll: an account whose starting point cannot be read is left out.   *)
StartAll ==
  \E unreadable \in SUBSET Accounts, up \in BOOLEAN :
    /\ ~open /\ up => unreadable = Accounts
    /\ ~up => unreadable = {}
    /\ Begins(TRUE, unreadable, Accounts, up /\ unreadable # Accounts)
    /\ attempted' = IF up THEN Attempted(unreadable) ELSE 0
    /\ summary' = [NoSummary EXCEPT !.failed = Cardinality(unreadable)]

(* failLater                                                               *)
FailLater ==
  /\ InEventLoop /\ session = "doomed"
  /\ session' = "none"
  /\ Ends("Failed", storedCount, summary)
  /\ UNCHANGED <<open, generation, telling, toHear, wizard, overAllAccounts, asked, outcome,
                 truth, fetches, setups>>

-----------------------------------------------------------------------------
(* The end of a session: itemsReceived and the signals that speak of       *)
(* accounts, then finished (sessionEnded).                                 *)

SessionReturns ==
  /\ InEventLoop /\ session = "out"
  /\ session' = "none"
  /\ UNCHANGED <<open, generation, telling, toHear, wizard, overAllAccounts, asked,
                 stored, added, stood, fetches, setups>>

(* A session that brought nothing: no online access, no order offered, a   *)
(* stop, or a failure.                                                     *)
SingleEndsEmpty ==
  /\ SessionReturns /\ ~overAllAccounts
  /\ \E o \in {"Skipped", "NothingOffered", "Aborted", "Failed"} :
       outcome' = o /\ Ends(o, storedCount, summary)
  /\ UNCHANGED <<fate, brought>>

(* A session that went through, or claims to: userAborted says that the    *)
(* library smoothed a stop away.                                           *)
SingleDelivers ==
  /\ SessionReturns /\ ~overAllAccounts
  /\ \E o \in {"Received", "BalanceOnly"}, queue \in QueueReceived(asked),
       userAborted \in BOOLEAN :
       /\ o = "BalanceOnly" => \A e \in ToSet(queue) : e.parts = {"Balances"}
       /\ brought' = PartsOf(queue)
       /\ IF userAborted
          THEN outcome' = "Aborted" /\ Ends("Aborted", storedCount, summary)
          ELSE outcome' = o /\ BeginNextAccount(o, queue, storedCount, summary)
  /\ UNCHANGED fate

(* The fates of the accounts of a session over several; skipped ones are   *)
(* told in any case.                                                       *)
Judged(of) == fate' = [a \in Accounts |-> IF a \in asked THEN of[a] ELSE fate[a]]
With(of, f) == {a \in asked : of[a] = f}
Skips(of) == [summary EXCEPT !.skipped = Cardinality(With(of, "offline"))]

AllFail ==
  /\ SessionReturns /\ overAllAccounts
  /\ \E of \in [asked -> {"offline", "nothing", "cut"}] :
       /\ Judged(of)
       /\ Ends("Failed", storedCount, Skips(of))
  /\ outcome' = "Failed"
  /\ UNCHANGED brought

AllDeliver ==
  /\ SessionReturns /\ overAllAccounts
  /\ \E of \in [asked -> {"offline", "nothing", "refused", "answered"}] :
       /\ Judged(of)
       /\ \E queue \in QueueReceived(asked \ (With(of, "offline") \cup With(of, "nothing"))) :
            /\ brought' = PartsOf(queue)
            /\ BeginNextAccount("Received", queue, storedCount,
                 [Skips(of) EXCEPT !.failed = @ + Cardinality(With(of, "refused"))])
  /\ outcome' = "Received"

(* The user stopped it: what was cut off does not count as failed, and     *)
(* what came in waits for an answer.                                       *)
AllAborted ==
  /\ SessionReturns /\ overAllAccounts
  /\ \E of \in [asked -> {"offline", "nothing", "refused", "answered", "cut"}] :
       /\ Judged(of)
       /\ \E queue \in QueueReceived(asked \ (With(of, "offline") \cup With(of, "nothing"))) :
            LET s == [Skips(of) EXCEPT !.failed = 0]
            IN  /\ brought' = PartsOf(queue)
                /\ IF queue = <<>> THEN Ends("Aborted", storedCount, s)
                   ELSE /\ pending' = queue /\ summary' = s
                        /\ waitingForAbortAnswer' = TRUE
                        /\ UNCHANGED <<write, running, phase, storeFailed, storedCount,
                                       storedBeforeRun, retry, attempted, report>>
  /\ outcome' = "Aborted"

(* answerAbort *)
AnswerAbort(keep) ==
  /\ InEventLoop /\ waitingForAbortAnswer
  /\ LET s == [summary EXCEPT !.kept = keep]
     IN  IF keep THEN BeginNextAccount("Aborted", pending, storedCount, s)
         ELSE Ends("Aborted", storedCount, s)
  /\ UNCHANGED <<open, generation, telling, toHear, wizard, overAllAccounts, session,
                 asked, outcome, truth, fetches, setups>>

(* The timer that startStoring left behind, until the way is free.         *)
RetryFires ==
  /\ InEventLoop /\ retry # "None"
  /\ ~open \/ ~StorageBusy
  /\ StartStoring(retry, pending, storedCount, summary, phase)
  /\ UNCHANGED <<open, generation, telling, toHear, wizard, overAllAccounts, session,
                 asked, outcome, truth, fetches, setups>>

-----------------------------------------------------------------------------
(* The write run in its thread, and its end.                               *)

Clone ==
  /\ write.stage = "started"
  /\ \/ write.since = generation /\ write' = [write EXCEPT !.stage = "working"]
     \/ write' = [write EXCEPT !.stage = "ended"]
  /\ UNCHANGED <<open, generation, telling, toHear, wizard, fetch, truth, fetches, setups>>

(* writeItems commits the whole run of a fetch or rolls all of it back.    *)
Write ==
  /\ write.stage = "working"
  /\ \E good \in BOOLEAN :
       /\ write' = [write EXCEPT !.stage = "ended", !.good = good]
       /\ IF good /\ write.by = "fetch"
          THEN stored' = stored \cup {write.part} /\ added' = added + write.fresh
          ELSE UNCHANGED <<stored, added>>
  /\ UNCHANGED <<open, generation, telling, toHear, wizard, fetch, fate, brought, stood,
                 fetches, setups>>

(* Mutation: the count stands for this run alone.                          *)
TakeStoredCountSet(count) == IF phase = "Transactions" THEN count ELSE storedCount

(* takeStoredCount: a balance counts for nothing, nor does a foreign run.  *)
TakeStoredCount(count) ==
  IF phase = "Transactions" THEN storedBeforeRun + count ELSE storedCount

(* The end of a run: writeFailed and itemsStored go out, neither of them   *)
(* for a run that outlived its connection, and writeFinished next.         *)
HandOn ==
  /\ InEventLoop /\ write.stage = "ended"
  /\ LET kind == IF write.since # generation THEN "silent"
                 ELSE IF write.good THEN "result" ELSE "failed"
     IN  /\ telling' = [kind |-> kind, by |-> write.by]
         /\ storeFailed' = (storeFailed \/ (phase # "None" /\ kind = "failed"))
         /\ storedCount' = IF kind = "silent" THEN storedCount
                           ELSE TakeStoredCount(IF write.good THEN write.fresh ELSE 0)
  /\ write' = NoRun /\ toHear' = Writers
  /\ UNCHANGED <<open, generation, wizard, running, overAllAccounts, session, asked,
                 outcome, phase, storedBeforeRun, pending, waitingForAbortAnswer, retry,
                 summary, attempted, report, truth, fetches, setups>>

Heard(c) == /\ c \in toHear /\ toHear' = toHear \ {c}
            /\ telling' = IF toHear = {c} THEN Quiet ELSE telling

WizardHears ==
  /\ Heard("wizard")
  /\ wizard' = FALSE
  /\ UNCHANGED <<open, generation, write, fetch, truth, fetches, setups>>

(* Mutation: the failure of a run is not looked at.                        *)
RunFailedNever == FALSE

RunFailed == storeFailed

(* storeRunEnded: the balance of the same account, or the next account.    *)
FetchHears ==
  /\ Heard("fetch")
  /\ IF phase = "None" THEN UNCHANGED <<write, running, progress, report>>
     ELSE IF RunFailed
     THEN Ends("StoreFailed", IF phase = "Transactions" THEN storedBeforeRun ELSE storedCount,
               summary)
     ELSE IF phase = "Transactions" /\ "Balances" \in Head(pending).parts
     THEN StartStoring("Balances", pending, storedCount, summary, phase)
     ELSE BeginNextAccount(outcome, Tail(pending), storedCount, summary)
  /\ UNCHANGED <<open, generation, wizard, overAllAccounts, session, asked, outcome,
                 truth, fetches, setups>>

-----------------------------------------------------------------------------
Next ==
  \/ OpenVault \/ VaultFalls \/ WizardStores
  \/ \E a \in Accounts : Start(a)
  \/ StartAll \/ FailLater
  \/ SingleEndsEmpty \/ SingleDelivers \/ AllFail \/ AllDeliver \/ AllAborted
  \/ \E keep \in BOOLEAN : AnswerAbort(keep)
  \/ RetryFires \/ Clone \/ Write \/ HandOn \/ WizardHears \/ FetchHears

(* Threads go on, timers fire, the event loop takes what is queued.  The   *)
(* session of the bank comes back (the library times out on a dead line),  *)
(* and a message box of the window is answered at some point.              *)
Fairness ==
  /\ WF_vars(Clone) /\ WF_vars(Write) /\ WF_vars(HandOn)
  /\ WF_vars(WizardHears) /\ WF_vars(FetchHears) /\ WF_vars(RetryFires)
  /\ WF_vars(FailLater)
  /\ WF_vars(SingleEndsEmpty \/ SingleDelivers \/ AllFail \/ AllDeliver \/ AllAborted)
  /\ WF_vars(\E keep \in BOOLEAN : AnswerAbort(keep))

Spec == Init /\ [][Next]_vars /\ Fairness

-----------------------------------------------------------------------------
OwnRunIsOut == write # NoRun /\ write.by = "fetch"
OwnEndIsTold == "fetch" \in toHear /\ telling.by = "fetch"
Over == ~running /\ report # NoReport

(* The phase tells the ends of this fetch from those of the wizard: it is  *)
(* set exactly while a run of this fetch is out or its end still to be     *)
(* heard, across Busy answers, retries and connections that fall.          *)
PhaseIsOwn == phase # "None" <=> OwnRunIsOut \/ OwnEndIsTold

(* While the session is out or the question after a stop is open, nothing  *)
(* of this fetch stands in the file nor is on its way there: discarding is *)
(* a matter of not writing.                                                *)
NothingBeforeTheAnswer ==
  session = "out" \/ waitingForAbortAnswer => stored = {} /\ ~OwnRunIsOut

(* A balance is only written where the bookings it follows are in the      *)
(* file, even if their run failed or its connection fell.                  *)
BalancesFollowBookings ==
  \A a \in Accounts :
    <<a, "Balances">> \in stored /\ <<a, "Transactions">> \in brought
      => <<a, "Transactions">> \in stored

(* What a fetch says at its end is what it did, as long as nobody took the *)
(* storage away: all of what the bank brought is stored, nothing of it is, *)
(* or some of it was lost, and the count is the number of rows it added.   *)
TellsTheTruth ==
  Over /\ stood =>
    /\ report.count = added
    /\ CASE report.outcome = "StoreFailed" -> stored # brought
         [] report.outcome \in {"Received", "BalanceOnly"} -> stored = brought
         [] report.outcome = "Aborted" -> stored = IF report.kept THEN brought ELSE {}
         [] OTHER -> stored = {}

(* The three figures of a run over all accounts that was not stopped are   *)
(* what became of the accounts.                                            *)
Became(fates) == Cardinality({a \in Accounts : fate[a] \in fates})

FiguresAreTrue ==
  Over /\ report.all /\ ~report.kept /\ report.outcome \in {"Received", "StoreFailed"} =>
    /\ report.fetched = Became({"answered", "nothing"})
    /\ report.skipped = Became({"offline"})
    /\ report.failed = Became({"refused", "unreadable"})

(* What is ahead of a fetch: the session, the question after a stop, for   *)
(* each account of the queue two runs in their stages, of which its        *)
(* bookings may be through, before a retry the run that takes the way.     *)
RunLeft ==
  Cardinality(toHear) +
    CASE write.stage = "started" -> 5
      [] write.stage = "working" -> 4
      [] write.stage = "ended" -> 3
      [] OTHER -> 0

QueueLeft ==
  10 * Len(pending) - (IF "Balances" \in {phase, retry} THEN 5 ELSE 0)
                    + (IF retry # "None" THEN 6 ELSE 0)

Left ==
  RunLeft +
    CASE session # "none" -> 10 * Cardinality(Accounts) + 8
      [] session = "none" /\ waitingForAbortAnswer -> 10 * Cardinality(Accounts) + 7
      [] OTHER -> QueueLeft

(* While a fetch runs, every step of whichever actor brings it             *)
(* closer to its end, and a connection that falls, the only exception,     *)
(* does not set it back.  No run of the wizard comes between its own, no   *)
(* retry is for nothing, and no part of an account is stored twice.        *)
StepsCount == [][running /\ running' => Left' < Left \/ (Left' = Left /\ generation' > generation)]_vars

(* A fetch never waits for nothing: as long as it runs, an end is told,    *)
(* the session or the question is out, a run is in its thread or back from *)
(* it, or the way is free and the timer about to find it so.               *)
SomethingIsDue ==
  running =>
    \/ ~InEventLoop \/ session # "none" \/ waitingForAbortAnswer
    \/ write.stage \in {"started", "working", "ended"}
    \/ retry # "None" /\ (~open \/ ~StorageBusy)

(* Whatever happens to the storage, a fetch gets on: it never waits for    *)
(* nothing, and what comes takes it closer to its end.                     *)
GetsOn == []SomethingIsDue /\ StepsCount

(* Every fetch comes to its end, whatever happens to the storage, so that  *)
(* the entries of the menu come back.                                      *)
EveryFetchEnds == running ~> ~running

(* What the code says and does not keep, each checked on its own.          *)

(* AccountFetch.h on StoreFailed: the only outcome where the session was   *)
(* fine and what it brought is lost.                                       *)
OnlyStoreFailedLoses ==
  Over /\ report.outcome \in {"Received", "BalanceOnly"} => brought \subseteq stored

(* The fetch and the wizard behave towards Storage as its callers are      *)
(* assumed to.                                                             *)
Runs == INSTANCE StorageRuns WITH
  Readers <- {}, Files <- {"vault"}, NoFile <- "none",
  MaxGeneration <- MaxGeneration + 1,
  file <- IF open THEN "vault" ELSE "none",
  inFlight <- [w \in {"read", "write"} |-> w = "write" /\ write # NoRun],
  run <- [w \in {"read", "write"} |->
            IF w = "read" \/ write = NoRun THEN NoRun
            ELSE [stage |-> write.stage, by |-> write.by, on |-> "vault",
                  since |-> write.since, good |-> write.good]],
  telling <- IF telling = Quiet THEN Quiet
             ELSE [kind |-> telling.kind, way |-> "write", by |-> telling.by, on |-> "vault"],
  waiting <- (IF phase # "None" THEN {"fetch"} ELSE {}) \cup (IF wizard THEN {"wizard"} ELSE {})

CallsAsAssumed == Runs!Spec
=============================================================================
