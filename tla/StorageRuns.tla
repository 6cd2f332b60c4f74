---------------------------- MODULE StorageRuns ----------------------------
(***************************************************************************)
(* The runs of class Storage: how a read and a write leave the owner       *)
(* thread, work on a connection of their own, and come back.               *)
(*                                                                         *)
(* Storage owns one connection and starts at most one read and one write   *)
(* at a time (receiveItems, storeItems).  A run works in a thread pool on  *)
(* a clone of the connection it was started on; its end is a queued event  *)
(* that the owner thread hands on to every listener of the Qt signals.     *)
(* The connection may fall and another file may be opened while a run is   *)
(* out; a connection generation tells the two apart.                       *)
(*                                                                         *)
(* The listeners are the callers themselves.  Signals are broadcast, so a  *)
(* caller can only tell its own end from a foreign one by remembering that *)
(* a run of its own is out (`waiting'; in the code m_pending of the table  *)
(* models, phase of AccountFetch, storing of StandingOrderFetch).          *)
(***************************************************************************)
EXTENDS Naturals, FiniteSets

CONSTANTS
  Readers,        \* callers of receiveItems
  Writers,        \* callers of storeItems
  Files,          \* storage files that may be opened
  NoFile,         \* stands for "m_connection == nullptr"
  MaxGeneration   \* bound of the model on m_connectionGeneration

ASSUME CallersAssumption == Readers \cap Writers = {}
ASSUME FilesAssumption == NoFile \notin Files
ASSUME GenerationAssumption == MaxGeneration \in Nat

Callers == Readers \cup Writers
Ways == {"read", "write"}
WayOf(c) == IF c \in Readers THEN "read" ELSE "write"
CallersOf(way) == IF way = "read" THEN Readers ELSE Writers

VARIABLES
  file,        \* the file the connection stands on, or NoFile
  generation,  \* m_connectionGeneration
  inFlight,    \* m_readInFlight, m_writeInFlight
  run,         \* by way: the run the watcher of that way watches
  telling,     \* the end that is being handed on in the owner thread
  toHear,      \* the listeners that are still to be told of it
  waiting      \* callers that hold a run of theirs for under way

vars == <<file, generation, inFlight, run, telling, toHear, waiting>>

-----------------------------------------------------------------------------
(* A run: its stage, the caller, the file it was started on, the           *)
(* generation captured at the start and, once ended, whether it went well. *)

Stages == {"started", "working", "ended"}

NoRun == [stage |-> "none"]

Staged(r, stage, good) ==
  [stage |-> stage, by |-> r.by, on |-> r.on, since |-> r.since, good |-> good]

Runs == [stage : Stages, by : Callers, on : Files, since : Nat, good : BOOLEAN]

(* What a listener is told with an end: the result, a failure, or nothing  *)
(* but the end itself.                                                     *)
Quiet == [kind |-> "quiet"]

Tellings == [kind : {"result", "failed", "silent"}, way : Ways, by : Callers,
             on : Files]

(* The owner thread is back in its event loop once every listener of the   *)
(* current signal has returned.                                            *)
InEventLoop == toHear = {}

TypeOK ==
  /\ file \in Files \cup {NoFile}
  /\ generation \in Nat
  /\ inFlight \in [Ways -> BOOLEAN]
  /\ run \in [Ways -> Runs \cup {NoRun}]
  /\ telling \in Tellings \cup {Quiet}
  /\ toHear \in SUBSET Callers
  /\ waiting \in SUBSET Callers

Init ==
  /\ file = NoFile
  /\ generation = 0
  /\ inFlight = [w \in Ways |-> FALSE]
  /\ run = [w \in Ways |-> NoRun]
  /\ telling = Quiet
  /\ toHear = {}
  /\ waiting = {}

-----------------------------------------------------------------------------
(* The connection.                                                         *)

(* How often the generation rises while another file is put in place of    *)
(* the connection: once if one stood, dropConnection does nothing without. *)
Dropped(f) == IF f = NoFile THEN 0 ELSE 1

(* Mutation: the generation counts close() only, not the connection that   *)
(* initialize() replaces.                                                  *)
OpenUncounted(f) ==
  /\ InEventLoop
  /\ generation < MaxGeneration
  /\ file' = f
  /\ UNCHANGED <<generation, inFlight, run, telling, toHear, waiting>>

(* initialize() on f went through.  A connection that stands on f already  *)
(* is kept, any other one falls first.                                     *)
Open(f) ==
  /\ InEventLoop
  /\ generation < MaxGeneration
  /\ file' = f
  /\ generation' = IF file = f THEN generation ELSE generation + Dropped(file)
  /\ UNCHANGED <<inFlight, run, telling, toHear, waiting>>

(* initialize() on f failed in the open or in one of the checks after it.  *)
(* The attempt takes its own connection with it, besides the one it        *)
(* replaced.                                                               *)
OpenFails(f) ==
  /\ InEventLoop
  /\ generation + 1 < MaxGeneration
  /\ file' = NoFile
  /\ generation' = generation + 1 + (IF file = f THEN 0 ELSE Dropped(file))
  /\ UNCHANGED <<inFlight, run, telling, toHear, waiting>>

(* close(): does not wait for the runs that are out.                       *)
Close ==
  /\ InEventLoop
  /\ generation < MaxGeneration
  /\ file # NoFile
  /\ file' = NoFile
  /\ generation' = generation + Dropped(file)
  /\ UNCHANGED <<inFlight, run, telling, toHear, waiting>>

-----------------------------------------------------------------------------
(* A call of receiveItems or storeItems.                                   *)

(* Mutation: no look at the connection.                                    *)
MayStartUnopened(way) == ~inFlight[way]

(* Mutation: the watcher is asked instead of the flag, and says no more    *)
(* than whether the thread still works.                                    *)
MayStartByWatcher(way) ==
  file # NoFile /\ run[way].stage \notin {"started", "working"}

(* The two refusals that do not depend on the arguments: no connection,    *)
(* and a run of the same way under way (Busy).                             *)
MayStart(way) == file # NoFile /\ ~inFlight[way]

(* The call is accepted: the flag goes up and the run is handed to the     *)
(* pool, with the connection name, the file and the generation by value.   *)
StartRun(c) ==
  /\ MayStart(WayOf(c))
  /\ inFlight' = [inFlight EXCEPT ![WayOf(c)] = TRUE]
  /\ run' = [run EXCEPT ![WayOf(c)] =
               [stage |-> "started", by |-> c, on |-> file,
                since |-> generation, good |-> FALSE]]

(* A caller asks, from the event loop or from the slot of another listener *)
(* that is told after him: listeners are told in the order they connected. *)
Ask(c) ==
  /\ c \notin waiting
  /\ c \notin toHear
  /\ StartRun(c)
  /\ waiting' = waiting \cup {c}
  /\ UNCHANGED <<file, generation, telling, toHear>>

-----------------------------------------------------------------------------
(* The worker thread.                                                      *)

(* The source connection is registered under a random name of its own, so  *)
(* a clone is possible exactly while the connection the run was started on *)
(* has not fallen.                                                         *)
SourceStands(r) == r.since = generation

(* cloneDatabase and open on the second connection.                        *)
CloneConnection(way) ==
  /\ run[way].stage = "started"
  /\ SourceStands(run[way])
  /\ run' = [run EXCEPT ![way] = Staged(@, "working", FALSE)]
  /\ UNCHANGED <<file, generation, inFlight, telling, toHear, waiting>>

(* The clone was refused: the source is gone, or the open failed.          *)
CloneFails(way) ==
  /\ run[way].stage = "started"
  /\ run' = [run EXCEPT ![way] = Staged(@, "ended", FALSE)]
  /\ UNCHANGED <<file, generation, inFlight, telling, toHear, waiting>>

(* The statements ran; the run works on its own connection and does not    *)
(* notice the owner's one fall.                                            *)
Work(way) ==
  /\ run[way].stage = "working"
  /\ \E good \in BOOLEAN :
       run' = [run EXCEPT ![way] = Staged(@, "ended", good)]
  /\ UNCHANGED <<file, generation, inFlight, telling, toHear, waiting>>

-----------------------------------------------------------------------------
(* The way back.                                                           *)

(* Mutation: a run that outlived its connection is dropped without a word. *)
HandOnUnlessStale(way) ==
  /\ InEventLoop
  /\ run[way].stage = "ended"
  /\ inFlight' = [inFlight EXCEPT ![way] = FALSE]
  /\ run' = [run EXCEPT ![way] = NoRun]
  /\ IF run[way].since # generation
     THEN UNCHANGED <<telling, toHear>>
     ELSE /\ telling' = [kind |-> IF run[way].good THEN "result" ELSE "failed",
                         way |-> way, by |-> run[way].by, on |-> run[way].on]
          /\ toHear' = CallersOf(way)
  /\ UNCHANGED <<file, generation, waiting>>

(* Mutation: the generation is not compared.                               *)
HandOnRegardless(way) ==
  /\ InEventLoop
  /\ run[way].stage = "ended"
  /\ inFlight' = [inFlight EXCEPT ![way] = FALSE]
  /\ run' = [run EXCEPT ![way] = NoRun]
  /\ telling' = [kind |-> IF run[way].good THEN "result" ELSE "failed",
                 way |-> way, by |-> run[way].by, on |-> run[way].on]
  /\ toHear' = CallersOf(way)
  /\ UNCHANGED <<file, generation, waiting>>

(* The finished event of the watcher reaches the owner thread.  A run that *)
(* outlived its connection is reported as ended and not with its result.   *)
HandOn(way) ==
  /\ InEventLoop
  /\ run[way].stage = "ended"
  /\ inFlight' = [inFlight EXCEPT ![way] = FALSE]
  /\ run' = [run EXCEPT ![way] = NoRun]
  /\ telling' = [kind |-> IF run[way].since # generation THEN "silent"
                          ELSE IF run[way].good THEN "result" ELSE "failed",
                 way |-> way, by |-> run[way].by, on |-> run[way].on]
  /\ toHear' = CallersOf(way)
  /\ UNCHANGED <<file, generation, waiting>>

(* c has been told; after the last listener the emission is over.          *)
Heard(c) ==
  /\ c \in toHear
  /\ toHear' = toHear \ {c}
  /\ telling' = IF toHear = {c} THEN Quiet ELSE telling

(* A listener takes the end.  One that waits takes it for its own run; it  *)
(* may ask for the next window or the next batch from within its slot, and *)
(* so may one whose earlier call was refused as Busy.                      *)
Hear(c) ==
  /\ Heard(c)
  /\ waiting' = waiting \ {c}
  /\ UNCHANGED <<file, generation, inFlight, run>>

HearAndAsk(c) ==
  /\ Heard(c)
  /\ StartRun(c)
  /\ waiting' = waiting \cup {c}
  /\ UNCHANGED <<file, generation>>

-----------------------------------------------------------------------------
Next ==
  \/ \E f \in Files : Open(f) \/ OpenFails(f)
  \/ Close
  \/ \E c \in Callers : Ask(c) \/ Hear(c) \/ HearAndAsk(c)
  \/ \E w \in Ways : CloneConnection(w) \/ CloneFails(w) \/ Work(w) \/ HandOn(w)

(* Threads of the pool go on.  The event loop takes posted events in their *)
(* order, so the end of a run that keeps waiting in the queue gets its     *)
(* turn however often the loop is busy (SF).  Nobody has to open, close or *)
(* ask.                                                                    *)
Fairness ==
  /\ \A w \in Ways : /\ WF_vars(CloneFails(w) \/ CloneConnection(w))
                     /\ WF_vars(Work(w))
                     /\ SF_vars(HandOn(w))
  /\ \A c \in Callers : WF_vars(Hear(c) \/ HearAndAsk(c))

Spec == Init /\ [][Next]_vars
FairSpec == Spec /\ Fairness

-----------------------------------------------------------------------------
(* The run the caller waits for is still out, or its end is being told and *)
(* has not reached the caller yet.                                         *)
OwnRunIsOut(c) == run[WayOf(c)] # NoRun /\ run[WayOf(c)].by = c
OwnEndIsTold(c) == c \in toHear /\ telling.by = c

(* A caller that waits will be answered: the one watcher of its way is     *)
(* watching its run, or its end is on the way to it.  A second run slipped *)
(* in between the end of a worker and the delivery of that end would cut   *)
(* the first caller off for good (the gap the comment on m_readInFlight    *)
(* describes).                                                             *)
WaitingHasARun == \A c \in waiting : OwnRunIsOut(c) \/ OwnEndIsTold(c)

(* The flag stands exactly while a run is out, across the gap between the  *)
(* end of the worker and the delivery of its end.                          *)
FlagCoversTheRun == \A w \in Ways : inFlight[w] <=> run[w] # NoRun

(* Nobody takes the end of a foreign run for the end of his own: whoever   *)
(* still waits when an end is told is the caller whose run it was.         *)
EndsAreOwn == \A c \in toHear : c \in waiting => telling.by = c

(* Whoever waits is answered, and by the end of his own run: the run or    *)
(* its end is there, and what reaches him is no end of another.            *)
AnswersAreOwn == WaitingHasARun /\ EndsAreOwn

(* What is shown belongs to the storage that is open: a result or a        *)
(* failure that is handed on comes from the file the connection stands on  *)
(* now.                                                                    *)
NoForeignHolding == ~InEventLoop /\ telling.kind # "silent" => telling.on = file

(* What the argument for the four rests on.  A run belongs to a caller of  *)
(* its way who waits; a generation is never ahead of the present one, and  *)
(* one that equals it was captured on the connection that stands; an end   *)
(* is told to the callers of its way, and its addressee, as long as he has *)
(* not heard it, has no second run out.                                    *)
RunsAreOwned ==
  \A w \in Ways : run[w] # NoRun =>
    /\ run[w].by \in waiting
    /\ WayOf(run[w].by) = w
    /\ run[w].by \notin toHear
    /\ run[w].since <= generation
    /\ run[w].since = generation => run[w].on = file

TellingIsOnItsWay ==
  IF toHear = {} THEN telling = Quiet
  ELSE /\ telling # Quiet
       /\ toHear \subseteq CallersOf(telling.way)
       /\ telling.by \in toHear => telling.by \in waiting
       /\ telling.kind # "silent" => telling.on = file

IInv == /\ TypeOK /\ FlagCoversTheRun /\ RunsAreOwned /\ TellingIsOnItsWay
        /\ WaitingHasARun /\ EndsAreOwn

(* Every accepted call comes to its end, whatever the connection does      *)
(* meanwhile.                                                              *)
EveryCallEnds == \A c \in Callers : c \in waiting ~> OwnEndIsTold(c)

(* The promise of Storage.h without generations, watchers or threads.      *)
CallOf(c) ==
  IF c \notin waiting THEN "idle"
  ELSE IF OwnEndIsTold(c) THEN telling.kind
  ELSE IF run[WayOf(c)].since = generation THEN "out" ELSE "stale"

Contract == INSTANCE StorageContract WITH call <- [c \in Callers |-> CallOf(c)]
ImplementsContract == Contract!FairSpec
=============================================================================
