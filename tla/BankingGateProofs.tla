-------------------------- MODULE BankingGateProofs --------------------------
(***************************************************************************)
(* What the gate of the banking session guarantees for any number of       *)
(* vaults and fetches: a PIN in the cache is the one of the vault that is  *)
(* shown and does not stay for good, and a shutdown neither waits for its  *)
(* own thread nor ends in the library.                                     *)
(***************************************************************************)
EXTENDS BankingGate, TLAPS

(* What PinIsOwn needs to be inductive: a PIN comes from a session, and a  *)
(* session only runs on an interface, so that the end of the fetch finds   *)
(* one to start the expiry on.                                             *)
PinHasAnEnd ==
  pin # NoVault /\ window # "gone" =>
    pin = vault /\ backend /\ (~Idle \/ expiring)

SessionHolds == Out => backend /\ ~expiring

(* A window leaves its event loop only where nothing runs.                 *)
ClosedIsQuiet == window # "open" => Idle /\ wizard = "none"

NotAborted == window # "aborted"

IInv == TypeOK /\ PinHasAnEnd /\ SessionHolds /\ ClosedIsQuiet /\ NotAborted

-----------------------------------------------------------------------------
(* At the start nothing is open.                                           *)
LEMMA InitIInv == Init => IInv
<1> SUFFICES ASSUME Init PROVE IInv
  OBVIOUS
<1>1. fetches \in 0..MaxFetches
  BY GateAssumption DEF Init
<1>2. TypeOK
  BY <1>1 DEF Init, TypeOK, Instances
<1>3. PinHasAnEnd /\ SessionHolds /\ ClosedIsQuiet /\ NotAborted
  BY DEF Init, PinHasAnEnd, SessionHolds, ClosedIsQuiet, NotAborted, Idle, Out
<1> QED
  BY <1>2, <1>3 DEF IInv

(* Every step keeps the types.                                             *)
LEMMA TypeStep == IInv /\ [Next]_vars => TypeOK'
<1> SUFFICES ASSUME IInv, [Next]_vars PROVE TypeOK'
  OBVIOUS
<1> USE GateAssumption DEF IInv, TypeOK, ClosedIsQuiet, Idle, Unblocked, InEventLoop, Instances
<1>1. ASSUME NEW v \in Vaults, OpenVault(v) PROVE TypeOK'
  BY <1>1 DEF OpenVault
<1>2. CASE CloseStorage
  BY <1>2 DEF CloseStorage, PinCleared
<1>3. CASE OpenWizard
  BY <1>3 DEF OpenWizard, Initializes
<1>4. CASE CloseWizard
  BY <1>4 DEF CloseWizard, Fini, OwnInterface
<1>5. CASE StartFetch
  BY <1>5 DEF StartFetch, Initializes, MayBegin
<1>6. CASE CloseWindow
  BY <1>6 DEF CloseWindow
<1>7. CASE SessionCalls
  BY <1>7 DEF SessionCalls
<1>8. CASE SessionEnds
  BY <1>8 DEF SessionEnds
<1>9. CASE Serve
  BY <1>9 DEF Serve
<1>10. CASE Answer
  BY <1>10 DEF Answer
<1>11. CASE Deliver
  BY <1>11 DEF Deliver
<1>12. CASE FetchEnds
  BY <1>12 DEF FetchEnds, Expires
<1>13. CASE ExpiryFires
  BY <1>13 DEF ExpiryFires, PinCleared
<1>14. CASE Finalize
  BY <1>14 DEF Finalize, Fini, OwnInterface
<1>15. CASE UNCHANGED vars
  BY <1>15 DEF vars
<1> QED
  BY <1>1, <1>2, <1>3, <1>4, <1>5, <1>6, <1>7, <1>8, <1>9, <1>10, <1>11, <1>12,
     <1>13, <1>14, <1>15 DEF Next

(* Every step keeps the rest of the invariant.                             *)
LEMMA RestStep ==
  IInv /\ [Next]_vars => (PinHasAnEnd /\ SessionHolds /\ ClosedIsQuiet /\ NotAborted)'
<1> DEFINE Rest == PinHasAnEnd /\ SessionHolds /\ ClosedIsQuiet /\ NotAborted
<1> SUFFICES ASSUME IInv, [Next]_vars PROVE Rest'
  OBVIOUS
<1> USE GateAssumption
    DEF IInv, TypeOK, PinHasAnEnd, SessionHolds, ClosedIsQuiet, NotAborted,
        Idle, Out, Unblocked, InEventLoop
<1>1. ASSUME NEW v \in Vaults, OpenVault(v) PROVE Rest'
  BY <1>1 DEF OpenVault
<1>2. CASE CloseStorage
  BY <1>2 DEF CloseStorage, PinCleared
<1>3. CASE OpenWizard
  BY <1>3 DEF OpenWizard, Initializes
<1>4. CASE CloseWizard
  BY <1>4 DEF CloseWizard, Fini, OwnInterface
<1>5. CASE StartFetch
  BY <1>5 DEF StartFetch, Initializes, MayBegin
<1>6. CASE CloseWindow
  BY <1>6 DEF CloseWindow, MayClose
<1>7. CASE SessionCalls
  BY <1>7 DEF SessionCalls
<1>8. CASE SessionEnds
  BY <1>8 DEF SessionEnds
<1>9. CASE Serve
  BY <1>9 DEF Serve
<1>10. CASE Answer
  BY <1>10 DEF Answer
<1>11. CASE Deliver
  BY <1>11 DEF Deliver
<1>12. CASE FetchEnds
  BY <1>12 DEF FetchEnds, Expires
<1>13. CASE ExpiryFires
  BY <1>13 DEF ExpiryFires, PinCleared
<1>14. CASE Finalize
  BY <1>14 DEF Finalize, Fini, OwnInterface
<1>15. CASE UNCHANGED vars
  BY <1>15 DEF vars
<1> QED
  BY <1>1, <1>2, <1>3, <1>4, <1>5, <1>6, <1>7, <1>8, <1>9, <1>10, <1>11, <1>12,
     <1>13, <1>14, <1>15 DEF Next

(* The inductive invariant holds in every reachable state.                 *)
THEOREM GateHolds == Spec => []IInv
<1>1. IInv /\ [Next]_vars => IInv'
  BY TypeStep, RestStep DEF IInv
<1> QED
  BY <1>1, InitIInv, PTL DEF Spec

(* Every variable keeps its type, and a session is out exactly while the   *)
(* fetch that sent it waits for it.                                        *)
THEOREM GateTypes == Spec => []TypeOK
<1>1. IInv => TypeOK
  BY DEF IInv
<1> QED
  BY <1>1, GateHolds, PTL

(* A cached PIN is never offered to the session of another vault, and      *)
(* there is always a fetch or a timer that will take it away (closeStorage *)
(* and the expiry of BankingGui).                                          *)
THEOREM PinBelongs == Spec => []PinIsOwn
<1>1. IInv => PinIsOwn
  BY DEF IInv, PinHasAnEnd, SessionHolds, PinIsOwn
<1> QED
  BY <1>1, GateHolds, PTL

(* The thread of the window never waits in finalize for a session that     *)
(* waits for it, and no shutdown ends the process (closeEvent, finalize).  *)
THEOREM ShutdownIsFree == Spec => []((window = "closing" => ~Out) /\ window # "aborted")
<1>1. IInv => (window = "closing" => ~Out) /\ window # "aborted"
  BY DEF IInv, TypeOK, ClosedIsQuiet, NotAborted, Idle, Out
<1> QED
  BY <1>1, GateHolds, PTL
=============================================================================
