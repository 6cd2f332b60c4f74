------------------------- MODULE StorageRunsProofs -------------------------
(***************************************************************************)
(* Proofs about StorageRuns, for every set of callers and files.           *)
(***************************************************************************)
EXTENDS StorageRuns, TLAPS

(* A caller and the way it asks on. *)
LEMMA WayOfCaller ==
  /\ \A c \in Callers : WayOf(c) \in Ways /\ c \in CallersOf(WayOf(c))
  /\ \A w \in Ways : \A c \in CallersOf(w) : c \in Callers /\ WayOf(c) = w
  BY CallersAssumption DEF WayOf, CallersOf, Callers, Ways

(* A run that is out is no missing run. *)
LEMMA ARunIsNoNoRun == \A r \in Runs : r # NoRun /\ r.stage # "none"
  BY DEF Runs, NoRun, Stages

LEMMA InitConsistent == Init => IInv
  BY DEF Init, IInv, TypeOK, FlagCoversTheRun, RunsAreOwned, TellingIsOnItsWay,
         WaitingHasARun, EndsAreOwn, Quiet, NoRun

(* The connection changes under runs that are out: their generation is no  *)
(* longer the present one.                                                 *)
LEMMA ConnectionStep ==
  ASSUME IInv, InEventLoop, file' \in Files \cup {NoFile}, generation' \in Nat,
         generation' >= generation,
         (generation' = generation) => (file = NoFile \/ file' = file),
         UNCHANGED <<inFlight, run, telling, toHear, waiting>>
  PROVE  IInv'
<1>1. TypeOK'
  BY DEF IInv, TypeOK
<1>2. RunsAreOwned'
  <2> SUFFICES ASSUME NEW w \in Ways, run[w] # NoRun
               PROVE  /\ run[w].by \in waiting
                      /\ WayOf(run[w].by) = w
                      /\ run[w].by \notin toHear
                      /\ run[w].since <= generation'
                      /\ run[w].since = generation' => run[w].on = file'
    BY DEF RunsAreOwned
  <2>1. run[w] \in Runs
    BY DEF IInv, TypeOK
  <2>2. run[w].since \in Nat /\ run[w].on \in Files
    BY <2>1 DEF Runs
  <2>3. QED
    BY <2>2, FilesAssumption DEF IInv, TypeOK, RunsAreOwned
<1>3. TellingIsOnItsWay'
  BY DEF IInv, InEventLoop, TellingIsOnItsWay
<1>4. FlagCoversTheRun' /\ WaitingHasARun' /\ EndsAreOwn'
  BY DEF IInv, FlagCoversTheRun, WaitingHasARun, EndsAreOwn, OwnRunIsOut, OwnEndIsTold
<1>5. QED BY <1>1, <1>2, <1>3, <1>4 DEF IInv

(* The start of a run, from the event loop or from a slot: the caller has  *)
(* heard the end that is being told, and the others still hear it.         *)
LEMMA StartStep ==
  ASSUME IInv, NEW c \in Callers, StartRun(c),
         toHear' = toHear \ {c},
         telling' = IF toHear' = {} THEN Quiet ELSE telling,
         waiting' = waiting \cup {c},
         UNCHANGED <<file, generation>>
  PROVE  IInv'
<1> DEFINE w == WayOf(c)
<1>1. w \in Ways /\ c \in CallersOf(w)
  BY WayOfCaller
<1>2. /\ file \in Files
      /\ run' = [run EXCEPT ![w] = [stage |-> "started", by |-> c, on |-> file,
                                    since |-> generation, good |-> FALSE]]
      /\ inFlight' = [inFlight EXCEPT ![w] = TRUE]
      /\ run[w] = NoRun
  BY <1>1 DEF StartRun, MayStart, IInv, TypeOK, FlagCoversTheRun
<1>3. /\ run'[w] \in Runs
      /\ run'[w].by = c /\ run'[w].since = generation /\ run'[w].on = file
  BY <1>1, <1>2 DEF IInv, TypeOK, Runs, Stages
<1>4. \A v \in Ways : v # w => run'[v] = run[v] /\ inFlight'[v] = inFlight[v]
  BY <1>1, <1>2 DEF IInv, TypeOK
<1>5. TypeOK'
  <2>1. run' \in [Ways -> Runs \cup {NoRun}]
    <3>1. run'[w] \in Runs \cup {NoRun}
      BY <1>3
    <3>2. \A v \in Ways : run'[v] \in Runs \cup {NoRun}
      BY <3>1, <1>4 DEF IInv, TypeOK
    <3>3. run' = [v \in Ways |-> run'[v]]
      BY <1>2 DEF IInv, TypeOK
    <3> HIDE DEF w
    <3>4. QED BY <3>2, <3>3
  <2>2. inFlight' \in [Ways -> BOOLEAN]
    BY <1>1, <1>2 DEF IInv, TypeOK
  <2>3. QED BY <2>1, <2>2 DEF IInv, TypeOK
<1>6. FlagCoversTheRun'
  <2>1. run'[w] # NoRun /\ inFlight'[w]
    BY <1>1, <1>2, <1>3, ARunIsNoNoRun DEF IInv, TypeOK
  <2>2. QED BY <2>1, <1>4 DEF IInv, FlagCoversTheRun
<1>7. RunsAreOwned'
  <2> SUFFICES ASSUME NEW v \in Ways, run'[v] # NoRun
               PROVE  /\ run'[v].by \in waiting'
                      /\ WayOf(run'[v].by) = v
                      /\ run'[v].by \notin toHear'
                      /\ run'[v].since <= generation'
                      /\ run'[v].since = generation' => run'[v].on = file'
    BY DEF RunsAreOwned
  <2>1. CASE v = w
    BY <2>1, <1>3 DEF IInv, TypeOK
  <2>2. CASE v # w
    BY <2>2, <1>4 DEF IInv, RunsAreOwned
  <2>3. QED BY <2>1, <2>2
<1>8. TellingIsOnItsWay' /\ EndsAreOwn'
  BY DEF IInv, TellingIsOnItsWay, EndsAreOwn
<1>9. WaitingHasARun'
  <2> SUFFICES ASSUME NEW d \in waiting'
               PROVE  \/ run'[WayOf(d)] # NoRun /\ run'[WayOf(d)].by = d
                      \/ d \in toHear' /\ telling'.by = d
    BY DEF WaitingHasARun, OwnRunIsOut, OwnEndIsTold
  <2>1. CASE d = c
    BY <2>1, <1>3, ARunIsNoNoRun
  <2>2. CASE d # c
    <3>1. d \in waiting /\ d \in Callers /\ WayOf(d) \in Ways
      BY <2>2, WayOfCaller DEF IInv, TypeOK
    <3>2. CASE run[WayOf(d)] # NoRun /\ run[WayOf(d)].by = d
      BY <3>1, <3>2, <1>2, <1>4
    <3>3. CASE d \in toHear /\ telling.by = d
      BY <2>2, <3>3
    <3>4. QED BY <3>1, <3>2, <3>3 DEF IInv, WaitingHasARun, OwnRunIsOut, OwnEndIsTold
  <2>3. QED BY <2>1, <2>2
<1>10. QED BY <1>5, <1>6, <1>7, <1>8, <1>9 DEF IInv

(* A step of the worker thread moves the stage of a run and nothing else.  *)
LEMMA WorkerStep ==
  ASSUME IInv, NEW w \in Ways, run[w] # NoRun, NEW s \in Stages, NEW g \in BOOLEAN,
         run' = [run EXCEPT ![w] = Staged(run[w], s, g)],
         UNCHANGED <<file, generation, inFlight, telling, toHear, waiting>>
  PROVE  IInv'
<1>1. run[w] \in Runs
  BY DEF IInv, TypeOK
<1>2. run'[w] \in Runs /\ run'[w].by = run[w].by /\ run'[w].since = run[w].since
                       /\ run'[w].on = run[w].on
  BY <1>1 DEF IInv, TypeOK, Runs, Staged
<1>3. \A v \in Ways : v # w => run'[v] = run[v]
  BY DEF IInv, TypeOK
<1>4. \A v \in Ways : (run'[v] = NoRun) <=> (run[v] = NoRun)
  BY <1>1, <1>2, <1>3, ARunIsNoNoRun
<1>5. TypeOK'
  BY <1>2, <1>3 DEF IInv, TypeOK
<1>6. FlagCoversTheRun'
  BY <1>4 DEF IInv, FlagCoversTheRun
<1>7. RunsAreOwned'
  BY <1>2, <1>3, <1>4 DEF IInv, RunsAreOwned
<1>8. TellingIsOnItsWay' /\ EndsAreOwn'
  BY DEF IInv, TellingIsOnItsWay, EndsAreOwn
<1>9. WaitingHasARun'
  <2> SUFFICES ASSUME NEW d \in waiting
               PROVE  \/ run'[WayOf(d)] # NoRun /\ run'[WayOf(d)].by = d
                      \/ d \in toHear /\ telling.by = d
    BY DEF WaitingHasARun, OwnRunIsOut, OwnEndIsTold
  <2>1. WayOf(d) \in Ways
    BY WayOfCaller DEF IInv, TypeOK
  <2>2. QED
    BY <2>1, <1>2, <1>3, <1>4 DEF IInv, WaitingHasARun, OwnRunIsOut, OwnEndIsTold
<1>10. QED BY <1>5, <1>6, <1>7, <1>8, <1>9 DEF IInv

(* The end of a run is handed on: the run leaves its watcher, and its      *)
(* caller is among those who are told.                                     *)
LEMMA HandOnStep ==
  ASSUME IInv, NEW w \in Ways, HandOn(w)
  PROVE  IInv'
<1>1. run[w] \in Runs /\ run[w] # NoRun
  BY DEF HandOn, IInv, TypeOK, NoRun
<1>2. /\ run' = [run EXCEPT ![w] = NoRun]
      /\ inFlight' = [inFlight EXCEPT ![w] = FALSE]
      /\ toHear = {} /\ toHear' = CallersOf(w)
      /\ UNCHANGED <<file, generation, waiting>>
  BY DEF HandOn, InEventLoop
<1>3. /\ telling' # Quiet /\ telling' \in Tellings
      /\ telling'.way = w /\ telling'.by = run[w].by
      /\ telling'.kind # "silent" => run[w].since = generation
      /\ telling'.on = run[w].on
  BY <1>1 DEF HandOn, Tellings, Runs, Quiet
<1>4. run[w].by \in waiting /\ run[w].by \in toHear' /\ WayOf(run[w].by) = w
      /\ run[w].by \in Callers
  BY <1>1, <1>2, WayOfCaller DEF IInv, RunsAreOwned, Runs
<1>5. \A v \in Ways : IF v = w THEN run'[v] = NoRun /\ ~inFlight'[v]
                      ELSE run'[v] = run[v] /\ inFlight'[v] = inFlight[v]
  BY <1>2 DEF IInv, TypeOK
<1>6. TypeOK'
  <2>1. toHear' \in SUBSET Callers
    BY <1>2, WayOfCaller
  <2>2. run' \in [Ways -> Runs \cup {NoRun}] /\ inFlight' \in [Ways -> BOOLEAN]
    BY <1>2 DEF IInv, TypeOK
  <2>3. QED BY <2>1, <2>2, <1>2, <1>3 DEF IInv, TypeOK
<1>7. FlagCoversTheRun'
  BY <1>5 DEF IInv, FlagCoversTheRun
<1>8. RunsAreOwned'
  <2> SUFFICES ASSUME NEW v \in Ways, run'[v] # NoRun
               PROVE  /\ run'[v].by \in waiting
                      /\ WayOf(run'[v].by) = v
                      /\ run'[v].by \notin toHear'
                      /\ run'[v].since <= generation
                      /\ run'[v].since = generation => run'[v].on = file
    BY <1>2 DEF RunsAreOwned
  <2>1. v # w /\ run'[v] = run[v]
    BY <1>5
  <2>2. run[v].by \notin CallersOf(w)
    BY <2>1, WayOfCaller DEF IInv, RunsAreOwned
  <2>3. QED BY <2>1, <2>2, <1>2 DEF IInv, RunsAreOwned
<1>9. TellingIsOnItsWay'
  BY <1>1, <1>2, <1>3, <1>4 DEF IInv, TellingIsOnItsWay, RunsAreOwned
<1>10. WaitingHasARun'
  <2> SUFFICES ASSUME NEW d \in waiting
               PROVE  \/ run'[WayOf(d)] # NoRun /\ run'[WayOf(d)].by = d
                      \/ d \in toHear' /\ telling'.by = d
    BY <1>2 DEF WaitingHasARun, OwnRunIsOut, OwnEndIsTold
  <2>1. WayOf(d) \in Ways /\ run[WayOf(d)] # NoRun /\ run[WayOf(d)].by = d
    BY <1>2, WayOfCaller DEF IInv, TypeOK, WaitingHasARun, OwnRunIsOut, OwnEndIsTold
  <2>2. QED BY <2>1, <1>3, <1>4, <1>5
<1>11. EndsAreOwn'
  <2> SUFFICES ASSUME NEW d \in CallersOf(w), d \in waiting
               PROVE  d = run[w].by
    BY <1>2, <1>3 DEF EndsAreOwn
  <2>1. WayOf(d) = w
    BY WayOfCaller
  <2>2. QED BY <2>1, <1>2 DEF IInv, WaitingHasARun, OwnRunIsOut, OwnEndIsTold
<1>12. QED BY <1>6, <1>7, <1>8, <1>9, <1>10, <1>11 DEF IInv

(* A listener takes an end and asks for nothing.  If he was waiting, the   *)
(* end was his own, so no run of his is left out.                          *)
LEMMA HearStep ==
  ASSUME IInv, NEW c \in Callers, Hear(c)
  PROVE  IInv'
<1>1. /\ c \in toHear /\ toHear' = toHear \ {c}
      /\ telling' = IF toHear' = {} THEN Quiet ELSE telling
      /\ waiting' = waiting \ {c}
      /\ UNCHANGED <<file, generation, inFlight, run>>
  BY DEF Hear, Heard
<1>2. TypeOK' /\ FlagCoversTheRun'
  BY <1>1 DEF IInv, TypeOK, FlagCoversTheRun
<1>3. RunsAreOwned'
  BY <1>1 DEF IInv, RunsAreOwned
<1>4. TellingIsOnItsWay' /\ EndsAreOwn'
  BY <1>1 DEF IInv, TellingIsOnItsWay, EndsAreOwn
<1>5. WaitingHasARun'
  BY <1>1 DEF IInv, WaitingHasARun, OwnRunIsOut, OwnEndIsTold
<1>6. QED BY <1>2, <1>3, <1>4, <1>5 DEF IInv

(* Every step of Storage and of its callers keeps the invariant.           *)
LEMMA EveryStepKeepsIt == IInv /\ [Next]_vars => IInv'
<1> SUFFICES ASSUME IInv, [Next]_vars PROVE IInv'
  OBVIOUS
<1>1. ASSUME NEW f \in Files, Open(f) PROVE IInv'
  <2>1. /\ InEventLoop /\ file' = f /\ generation' \in Nat /\ generation' >= generation
        /\ generation' = generation => file = NoFile \/ file' = file
    BY <1>1 DEF Open, Dropped, IInv, TypeOK
  <2>2. QED BY <1>1, <2>1, ConnectionStep DEF Open
<1>2. ASSUME NEW f \in Files, OpenFails(f) PROVE IInv'
  <2>1. /\ InEventLoop /\ file' = NoFile /\ generation' \in Nat
        /\ generation' > generation
    BY <1>2 DEF OpenFails, Dropped, IInv, TypeOK
  <2>2. generation' >= generation /\ generation' # generation
    BY <2>1 DEF IInv, TypeOK
  <2>3. QED BY <1>2, <2>1, <2>2, ConnectionStep DEF OpenFails
<1>3. ASSUME Close PROVE IInv'
  <2>1. /\ InEventLoop /\ file' = NoFile /\ generation' \in Nat
        /\ generation' >= generation /\ generation' # generation
    BY <1>3 DEF Close, Dropped, IInv, TypeOK
  <2>2. QED BY <1>3, <2>1, ConnectionStep DEF Close
<1>4. ASSUME NEW c \in Callers, Ask(c) PROVE IInv'
  <2>1. toHear' = toHear \ {c} /\ (toHear = {} => telling = Quiet)
    BY <1>4 DEF Ask, IInv, TellingIsOnItsWay
  <2>2. QED BY <1>4, <2>1, StartStep DEF Ask
<1>5. ASSUME NEW c \in Callers, HearAndAsk(c) PROVE IInv'
  <2>1. /\ StartRun(c) /\ toHear' = toHear \ {c} /\ waiting' = waiting \cup {c}
        /\ telling' = IF toHear' = {} THEN Quiet ELSE telling
        /\ UNCHANGED <<file, generation>>
    BY <1>5 DEF HearAndAsk, Heard
  <2>2. QED BY <2>1, StartStep
<1>6. ASSUME NEW w \in Ways, CloneConnection(w) \/ CloneFails(w) \/ Work(w)
      PROVE  IInv'
  <2>1. run[w] # NoRun
    <3>1. NoRun.stage = "none"
      BY DEF NoRun
    <3>2. run[w].stage \in {"started", "working"}
      BY <1>6 DEF CloneConnection, CloneFails, Work
    <3>3. QED BY <3>1, <3>2
  <2>2. PICK s \in Stages, g \in BOOLEAN : run' = [run EXCEPT ![w] = Staged(run[w], s, g)]
    BY <1>6 DEF CloneConnection, CloneFails, Work, Stages
  <2>3. UNCHANGED <<file, generation, inFlight, telling, toHear, waiting>>
    BY <1>6 DEF CloneConnection, CloneFails, Work
  <2>4. QED BY <2>1, <2>2, <2>3, WorkerStep
<1>7. CASE UNCHANGED vars
  BY <1>7 DEF vars, IInv, TypeOK, FlagCoversTheRun, RunsAreOwned, TellingIsOnItsWay,
              WaitingHasARun, EndsAreOwn, OwnRunIsOut, OwnEndIsTold
<1>8. QED
  BY <1>1, <1>2, <1>3, <1>4, <1>5, <1>6, <1>7, HandOnStep, HearStep DEF Next

(* The inductive invariant holds throughout every behaviour of Storage and *)
(* its callers.                                                            *)
THEOREM Consistent == Spec => []IInv
  BY InitConsistent, EveryStepKeepsIt, PTL DEF Spec

(* Every variable keeps its type, whoever asks, opens or closes.           *)
THEOREM TypeCorrect == Spec => []TypeOK
  BY Consistent, PTL DEF IInv

(* A caller who waits for an end has his run still out, or the end of it   *)
(* is on its way to him: no second run slips in between the end of the     *)
(* worker thread and the delivery of that end (m_readInFlight,             *)
(* m_writeInFlight).                                                       *)
THEOREM NobodyIsCutOff == Spec => []WaitingHasARun
  BY Consistent, PTL DEF IInv

(* A broadcast end is never mistaken: whoever still waits when it reaches  *)
(* him is the caller whose run it was.                                     *)
THEOREM EndsReachTheirCaller == Spec => []EndsAreOwn
  BY Consistent, PTL DEF IInv

(* Whoever waits is answered by his own end, for any number of callers on  *)
(* either way: the flags and the broadcast signals together make up for    *)
(* the addressee that an end does not carry.                               *)
THEOREM AnswersBelong == Spec => []AnswersAreOwn
  BY NobodyIsCutOff, EndsReachTheirCaller, PTL DEF AnswersAreOwn

(* A result or a failure that is told stems from the file that is open     *)
(* (the comparison of generations at the end of a run).                    *)
THEOREM NothingForeignIsShown == Spec => []NoForeignHolding
<1>1. IInv => NoForeignHolding
  BY DEF IInv, TellingIsOnItsWay, NoForeignHolding, InEventLoop
<1>2. QED BY <1>1, Consistent, PTL

-----------------------------------------------------------------------------
(* The refinement: Storage keeps what StorageContract promises.            *)

call == [c \in Callers |-> CallOf(c)]

HasRun(c) == run[WayOf(c)] # NoRun /\ run[WayOf(c)].by = c
IsTold(c) == c \in waiting /\ OwnEndIsTold(c)

(* Where a call stands follows from whether its run is out or its end is   *)
(* being told; never both.                                                 *)
LEMMA CallCases ==
  ASSUME IInv, NEW c \in Callers
  PROVE  /\ HasRun(c) => /\ c \in waiting /\ ~IsTold(c)
                         /\ CallOf(c) = IF run[WayOf(c)].since = generation
                                        THEN "out" ELSE "stale"
         /\ IsTold(c) => /\ ~HasRun(c) /\ telling # Quiet
                         /\ CallOf(c) = telling.kind
                         /\ telling.kind \in {"result", "failed", "silent"}
         /\ ~HasRun(c) /\ ~IsTold(c) => c \notin waiting /\ CallOf(c) = "idle"
<1>1. WayOf(c) \in Ways
  BY WayOfCaller
<1>2. HasRun(c) => c \in waiting /\ ~IsTold(c)
  BY <1>1 DEF HasRun, IsTold, IInv, RunsAreOwned, OwnEndIsTold
<1>3. IsTold(c) => telling # Quiet /\ telling \in Tellings
  BY DEF IsTold, OwnEndIsTold, IInv, TypeOK, TellingIsOnItsWay
<1>4. ~HasRun(c) /\ ~IsTold(c) => c \notin waiting
  BY DEF HasRun, IsTold, IInv, WaitingHasARun, OwnRunIsOut
<1>5. QED BY <1>2, <1>3, <1>4 DEF CallOf, IsTold, Tellings

(* The initial state of Storage is the one of the contract.                *)
LEMMA InitRefines == Init => Contract!Init
  BY DEF Init, Contract!Init, Contract!Callers, CallOf, Callers

(* The open storage changes, or falls: every run that was out is stale.    *)
LEMMA SwitchStep ==
  ASSUME IInv, InEventLoop, NEW f \in Files \cup {NoFile}, f # file, file' = f,
         generation' \in Nat, generation' >= generation,
         generation' = generation => file = NoFile,
         UNCHANGED <<inFlight, run, telling, toHear, waiting>>
  PROVE  Contract!Switch(f)
<1>1. \A c \in Callers : ~IsTold(c)
  BY DEF InEventLoop, IsTold, OwnEndIsTold
<1>2. \A c \in Callers : HasRun(c) =>
        run[WayOf(c)].since \in Nat /\ run[WayOf(c)].since # generation'
  <2> SUFFICES ASSUME NEW c \in Callers, HasRun(c)
               PROVE  run[WayOf(c)].since \in Nat /\ run[WayOf(c)].since # generation'
    OBVIOUS
  <2>1. run[WayOf(c)] \in Runs /\ WayOf(c) \in Ways /\ run[WayOf(c)] # NoRun
    BY WayOfCaller DEF HasRun, IInv, TypeOK
  <2>2. /\ run[WayOf(c)].since \in Nat /\ run[WayOf(c)].on \in Files
        /\ run[WayOf(c)].since <= generation
        /\ run[WayOf(c)].since = generation => run[WayOf(c)].on = file
    BY <2>1 DEF Runs, IInv, RunsAreOwned
  <2>3. QED BY <2>2, FilesAssumption DEF IInv, TypeOK
<1>3. \A c \in Callers :
        CallOf(c)' = IF CallOf(c) = "out" THEN "stale" ELSE CallOf(c)
  <2> SUFFICES ASSUME NEW c \in Callers
               PROVE  CallOf(c)' = IF CallOf(c) = "out" THEN "stale" ELSE CallOf(c)
    OBVIOUS
  <2>1. CASE HasRun(c)
    <3>1. CallOf(c) \in {"out", "stale"} /\ c \in waiting /\ ~OwnEndIsTold(c)
      BY <2>1, CallCases DEF IsTold
    <3>2. CallOf(c)' = "stale"
      BY <2>1, <3>1, <1>2 DEF CallOf, OwnEndIsTold
    <3>3. QED BY <3>1, <3>2
  <2>2. CASE ~HasRun(c)
    BY <2>2, <1>1, CallCases DEF CallOf
  <2>3. QED BY <2>1, <2>2
<1>4. Contract!NobodyIsTold
  BY <1>1, CallCases DEF Contract!NobodyIsTold, Contract!Told, Contract!Callers, Callers
<1>5. QED
  BY <1>3, <1>4 DEF Contract!Switch, Contract!Callers, Callers

(* The start of a run is an accepted call.                                 *)
LEMMA AcceptStep ==
  ASSUME IInv, IInv', NEW c \in Callers, StartRun(c),
         toHear' = toHear \ {c},
         telling' = IF toHear' = {} THEN Quiet ELSE telling,
         waiting' = waiting \cup {c},
         UNCHANGED <<file, generation>>
  PROVE  Contract!Accept(c)
<1> DEFINE w == WayOf(c)
<1>1. w \in Ways /\ file # NoFile /\ run[w] = NoRun
  BY WayOfCaller DEF StartRun, MayStart, IInv, TypeOK, FlagCoversTheRun
<1>2. /\ run'[w] = [stage |-> "started", by |-> c, on |-> file,
                    since |-> generation, good |-> FALSE]
      /\ \A v \in Ways : v # w => run'[v] = run[v]
  BY <1>1 DEF StartRun, IInv, TypeOK
<1>3. run'[w] # NoRun /\ run'[w].by = c /\ run'[w].since = generation'
  BY <1>1, <1>2 DEF IInv, RunsAreOwned, FlagCoversTheRun, StartRun, TypeOK
<1>4. CallOf(c)' = "out"
  BY <1>3, CallersAssumption DEF CallOf, OwnEndIsTold, WayOf
<1>5. \A d \in Callers : (d \in Readers <=> c \in Readers) => ~HasRun(d)
  BY <1>1 DEF HasRun, WayOf
<1>6. \A d \in Callers : (d \in Readers <=> c \in Readers) =>
        CallOf(d) \notin {"out", "stale"}
  BY <1>5, CallCases
<1>7. \A d \in Callers : d # c => CallOf(d)' = CallOf(d)
  <2> SUFFICES ASSUME NEW d \in Callers, d # c PROVE CallOf(d)' = CallOf(d)
    OBVIOUS
  <2>1. WayOf(d) \in Ways
    BY WayOfCaller
  <2>2. CASE HasRun(d)
    BY <2>1, <2>2, <1>1, <1>2 DEF CallOf, OwnEndIsTold, HasRun
  <2>3. CASE ~HasRun(d)
    BY <2>3, CallCases DEF CallOf, OwnEndIsTold, IsTold
  <2>4. QED BY <2>2, <2>3
<1>8. QED
  <2>1. call' = [call EXCEPT ![c] = "out"]
    BY <1>4, <1>7 DEF call
  <2>2. \A d \in Callers : Contract!SameWay(c, d) => call[d] \notin Contract!UnderWay
    BY <1>6 DEF Contract!SameWay, Contract!UnderWay, call
  <2>3. call[c] \notin Contract!UnderWay
    BY <1>6 DEF Contract!UnderWay, call
  <2>4. QED
    BY <1>1, <2>1, <2>2, <2>3 DEF Contract!Accept, Contract!Callers, Callers, call

(* The end that is handed on is the answer to the caller of the run.       *)
LEMMA AnswerStep ==
  ASSUME IInv, NEW w \in Ways, HandOn(w)
  PROVE  \E b \in Callers : Contract!Answer(b)
<1>1. run[w] \in Runs /\ run[w] # NoRun /\ toHear = {}
  BY DEF HandOn, InEventLoop, IInv, TypeOK, NoRun
<1> PICK b \in Callers : b = run[w].by
  BY <1>1 DEF Runs
<1>2. b \in Callers /\ WayOf(b) = w /\ b \in waiting /\ HasRun(b)
  BY <1>1 DEF IInv, RunsAreOwned, Runs, HasRun
<1>3. /\ telling'.by = b
      /\ telling'.kind = IF run[w].since # generation THEN "silent"
                         ELSE IF run[w].good THEN "result" ELSE "failed"
      /\ toHear' = CallersOf(w) /\ UNCHANGED <<file, generation, waiting>>
      /\ run'[w] = NoRun /\ \A v \in Ways : v # w => run'[v] = run[v]
  BY DEF HandOn, IInv, TypeOK
<1>4. CallOf(b) = IF run[w].since = generation THEN "out" ELSE "stale"
  BY <1>2, CallCases
<1>5. CallOf(b)' = telling'.kind
  BY <1>2, <1>3, WayOfCaller DEF CallOf, OwnEndIsTold
<1>6. \A d \in Callers : ~IsTold(d)
  BY <1>1 DEF IsTold, OwnEndIsTold
<1>7. \A d \in Callers : d # b => CallOf(d)' = CallOf(d)
  <2> SUFFICES ASSUME NEW d \in Callers, d # b PROVE CallOf(d)' = CallOf(d)
    OBVIOUS
  <2>1. CASE HasRun(d)
    <3>1. WayOf(d) # w /\ WayOf(d) \in Ways
      BY <2>1, WayOfCaller DEF HasRun
    <3>2. QED BY <3>1, <1>1, <1>3 DEF CallOf, OwnEndIsTold
  <2>2. CASE ~HasRun(d)
    BY <2>2, <1>3, <1>6, CallCases DEF CallOf
  <2>3. QED BY <2>1, <2>2
<1>8. Contract!NobodyIsTold
  BY <1>6, CallCases DEF Contract!NobodyIsTold, Contract!Told, Contract!Callers, Callers
<1>9. call' = [call EXCEPT ![b] = telling'.kind]
  BY <1>5, <1>7 DEF call
<1>10. QED
  BY <1>2, <1>3, <1>4, <1>8, <1>9 DEF Contract!Answer, Contract!Callers, Callers, call

(* A listener who takes an end: his call is over, or it was a foreign one  *)
(* and nothing happened to him.                                            *)
LEMMA TakeStep ==
  ASSUME IInv, NEW c \in Callers, Hear(c)
  PROVE  Contract!Take(c) \/ UNCHANGED <<file, call>>
<1>1. /\ c \in toHear /\ toHear' = toHear \ {c}
      /\ telling' = IF toHear' = {} THEN Quiet ELSE telling
      /\ waiting' = waiting \ {c}
      /\ UNCHANGED <<file, generation, inFlight, run>>
  BY DEF Hear, Heard
<1>2. \A d \in Callers : d # c => CallOf(d)' = CallOf(d)
  BY <1>1 DEF CallOf, OwnEndIsTold
<1>3. CallOf(c)' = "idle"
  BY <1>1 DEF CallOf
<1>4. CASE c \in waiting
  <2>1. IsTold(c)
    BY <1>1, <1>4 DEF IInv, EndsAreOwn, IsTold, OwnEndIsTold
  <2>2. CallOf(c) \in {"result", "failed", "silent"}
    BY <2>1, CallCases
  <2>3. call' = [call EXCEPT ![c] = "idle"]
    BY <1>2, <1>3 DEF call
  <2>4. QED
    BY <1>1, <2>2, <2>3 DEF Contract!Take, Contract!Told, Contract!Callers, Callers, call
<1>5. CASE c \notin waiting
  BY <1>1, <1>2, <1>3, <1>5 DEF CallOf, call
<1>6. QED BY <1>4, <1>5

(* Every step of Storage is a step of the contract or leaves it as it is.  *)
LEMMA EveryStepRefines ==
  IInv /\ IInv' /\ [Next]_vars => [Contract!Next]_(Contract!cvars)
<1> SUFFICES ASSUME IInv, IInv', [Next]_vars
             PROVE  Contract!Next \/ UNCHANGED <<file, call>>
  BY DEF Contract!cvars, Contract!Callers, Callers, call
<1>1. ASSUME NEW f \in Files, Open(f) PROVE Contract!Next \/ UNCHANGED <<file, call>>
  <2>1. CASE file = f
    BY <1>1, <2>1 DEF Open, call, CallOf, OwnEndIsTold
  <2>2. CASE file # f
    <3>1. /\ InEventLoop /\ file' = f /\ generation' \in Nat /\ generation' >= generation
          /\ generation' = generation => file = NoFile
      BY <1>1, <2>2 DEF Open, Dropped, IInv, TypeOK
    <3>2. QED BY <1>1, <2>2, <3>1, SwitchStep DEF Open, Contract!Next
  <2>3. QED BY <2>1, <2>2
<1>2. ASSUME file' = NoFile, InEventLoop, generation' \in Nat, generation' > generation,
             UNCHANGED <<inFlight, run, telling, toHear, waiting>>
      PROVE  Contract!Next \/ UNCHANGED <<file, call>>
  <2>1. generation' >= generation /\ generation' # generation
    BY <1>2 DEF IInv, TypeOK
  <2>2. CASE file = NoFile
    <3>1. \A c \in Callers : HasRun(c) =>
            run[WayOf(c)].since # generation /\ run[WayOf(c)].since # generation'
      <4> SUFFICES ASSUME NEW c \in Callers, HasRun(c)
                   PROVE  run[WayOf(c)].since # generation /\ run[WayOf(c)].since # generation'
        OBVIOUS
      <4>1. run[WayOf(c)] \in Runs /\ WayOf(c) \in Ways /\ run[WayOf(c)] # NoRun
        BY WayOfCaller DEF HasRun, IInv, TypeOK
      <4>2. QED BY <4>1, <2>1, <2>2, FilesAssumption DEF Runs, IInv, RunsAreOwned, TypeOK
    <3>2. \A c \in Callers : CallOf(c)' = CallOf(c)
      <4> SUFFICES ASSUME NEW c \in Callers PROVE CallOf(c)' = CallOf(c)
        OBVIOUS
      <4>1. CASE HasRun(c)
        BY <4>1, <3>1, <1>2, CallCases DEF CallOf, OwnEndIsTold, IsTold
      <4>2. CASE ~HasRun(c)
        BY <4>2, <1>2, CallCases DEF CallOf, OwnEndIsTold, IsTold
      <4>3. QED BY <4>1, <4>2
    <3>3. QED BY <1>2, <2>2, <3>2 DEF call
  <2>3. CASE file # NoFile
    BY <1>2, <2>1, <2>3, SwitchStep DEF Contract!Next
  <2>4. QED BY <2>2, <2>3
<1>3. ASSUME (\E f \in Files : OpenFails(f)) \/ Close
      PROVE  Contract!Next \/ UNCHANGED <<file, call>>
  <2>1. /\ file' = NoFile /\ InEventLoop /\ generation' \in Nat /\ generation' > generation
        /\ UNCHANGED <<inFlight, run, telling, toHear, waiting>>
    BY <1>3 DEF OpenFails, Close, Dropped, IInv, TypeOK
  <2>2. QED BY <2>1, <1>2
<1>4. ASSUME NEW c \in Callers, Ask(c) \/ HearAndAsk(c)
      PROVE  Contract!Next
  <2>1. Ask(c) => toHear' = toHear \ {c} /\ (toHear = {} => telling = Quiet)
    BY DEF Ask, IInv, TellingIsOnItsWay
  <2>2. /\ StartRun(c) /\ toHear' = toHear \ {c} /\ waiting' = waiting \cup {c}
        /\ telling' = IF toHear' = {} THEN Quiet ELSE telling
        /\ UNCHANGED <<file, generation>>
    BY <1>4, <2>1 DEF Ask, HearAndAsk, Heard
  <2>3. QED BY <2>2, AcceptStep DEF Contract!Next, Contract!Callers, Callers
<1>5. ASSUME NEW c \in Callers, Hear(c) PROVE Contract!Next \/ UNCHANGED <<file, call>>
  BY <1>5, TakeStep DEF Contract!Next, Contract!Callers, Callers
<1>6. ASSUME NEW w \in Ways, HandOn(w) PROVE Contract!Next
  BY <1>6, AnswerStep DEF Contract!Next, Contract!Callers, Callers
<1>7. ASSUME NEW w \in Ways, CloneConnection(w) \/ CloneFails(w) \/ Work(w)
      PROVE  UNCHANGED <<file, call>>
  <2>1. PICK s \in Stages, g \in BOOLEAN : run' = [run EXCEPT ![w] = Staged(run[w], s, g)]
    BY <1>7 DEF CloneConnection, CloneFails, Work, Stages
  <2>2. \A v \in Ways : run'[v].since = run[v].since \/ v # w
    BY <2>1 DEF Staged, IInv, TypeOK
  <2>3. \A v \in Ways : v # w => run'[v] = run[v]
    BY <2>1 DEF IInv, TypeOK
  <2>4. UNCHANGED <<file, generation, inFlight, telling, toHear, waiting>>
    BY <1>7 DEF CloneConnection, CloneFails, Work
  <2>5. \A c \in Callers : CallOf(c)' = CallOf(c)
    BY <2>2, <2>3, <2>4, WayOfCaller DEF CallOf, OwnEndIsTold
  <2>6. QED BY <2>4, <2>5 DEF call
<1>8. CASE UNCHANGED vars
  BY <1>8 DEF vars, call, CallOf, OwnEndIsTold
<1>9. QED
  BY <1>1, <1>3, <1>4, <1>5, <1>6, <1>7, <1>8 DEF Next

(* Storage keeps its promise to its callers: at most one call of a way, an *)
(* answer to an accepted call only, and no result and no failure once the  *)
(* storage of the call has fallen.                                         *)
THEOREM KeepsTheContract == Spec => Contract!Spec
<1>1. Init => Contract!Init
  BY InitRefines
<1>2. IInv /\ IInv' /\ [Next]_vars => [Contract!Next]_(Contract!cvars)
  BY EveryStepRefines
<1>3. QED BY <1>1, <1>2, Consistent, PTL DEF Spec, Contract!Spec
=============================================================================
