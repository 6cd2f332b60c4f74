----------------------------- MODULE BankingGate -----------------------------
(***************************************************************************)
(* The gate between the window and the banking session: when a fetch may   *)
(* begin, when the window may close, whose thread waits for whose, and how *)
(* long a PIN stays in the cache of the interface.                         *)
(*                                                                         *)
(* A session runs in a thread of the pool.  Whatever it has to say to the  *)
(* user it hands to the thread of the window and blocks until that has     *)
(* answered (callOnOwnerThread); the answer is given from within an event  *)
(* loop, in which the user goes on clicking.  The window in turn, once it  *)
(* is closed, takes the banking layer down and blocks until the session    *)
(* has returned (finalize).  Nothing but closeEvent keeps the two from     *)
(* waiting for each other.                                                 *)
(*                                                                         *)
(* The wizard brings a banking instance of its own.  The library keeps one *)
(* interface per thread, not one per instance, so the two displace each    *)
(* other in the slot of the thread of the window; a shutdown that finds    *)
(* the slot empty ends the process.                                        *)
(***************************************************************************)
EXTENDS Naturals

CONSTANTS
  Vaults,
  NoVault,
  MaxFetches   \* bound: fetches

ASSUME GateAssumption == NoVault \notin Vaults /\ MaxFetches \in Nat

VARIABLES
  window,    \* open, closing (in finalize), gone, or aborted by the library
  vault,     \* the vault whose page is shown
  backend,   \* whether the banking instance of the window is up
  wizard,    \* none, up, or failed: the one of the wizard, which stands modally
  slot,      \* whose interface is set in the thread of the window
  fetching,  \* none, failing, session or storing: the gate of BankingSession
  session,   \* none, working, calling (blocked in a call), or back
  serving,   \* the thread of the window is inside a call of the session
  pin,       \* the vault the cached PIN was typed for
  expiring,  \* m_passwordCacheExpiry is active
  fetches

vars == <<window, vault, backend, wizard, slot, fetching, session, serving, pin,
          expiring, fetches>>

Out == session \in {"working", "calling"}

Instances == {"window", "wizard"}

(* The thread of the window takes what is queued for it.                   *)
InEventLoop == window = "open"

TypeOK ==
  /\ window \in {"open", "closing", "gone", "aborted"} /\ vault \in Vaults \cup {NoVault}
  /\ fetching \in {"none", "failing", "session", "storing"}
  /\ session \in {"none", "working", "calling", "back"}
  /\ wizard \in {"none", "up", "failed"} /\ slot \in Instances \cup {"none"}
  /\ backend \in BOOLEAN /\ serving \in BOOLEAN /\ expiring \in BOOLEAN
  /\ pin \in Vaults \cup {NoVault}
  /\ fetches \in 0..MaxFetches
  /\ fetching = "session" <=> session # "none"
  /\ serving => session = "calling"

Init ==
  /\ window = "open" /\ vault = NoVault /\ backend = FALSE /\ wizard = "none" /\ slot = "none"
  /\ fetching = "none" /\ session = "none" /\ serving = FALSE
  /\ pin = NoVault /\ expiring = FALSE /\ fetches = 0

-----------------------------------------------------------------------------
(* The entries of the menu, as applyActionStates leaves them.              *)

Idle == fetching = "none"

(* A modal dialog of the application lets nothing else begin.              *)
Unblocked == InEventLoop /\ wizard = "none"

OpenVault(v) ==
  /\ Unblocked /\ vault = NoVault
  /\ vault' = v
  /\ UNCHANGED <<window, backend, wizard, slot, fetching, session, serving, pin, expiring, fetches>>

(* Mutation: the storage alone is closed.                                  *)
PinKept == pin

(* clearPasswordCache, which leaves a running expiry alone.                *)
PinCleared == NoVault

CloseStorage ==
  /\ Unblocked /\ vault # NoVault /\ Idle
  /\ vault' = NoVault /\ pin' = PinCleared
  /\ UNCHANGED <<window, backend, wizard, slot, fetching, session, serving, expiring, fetches>>

(* initialize puts the interface of the instance into the slot of the      *)
(* thread.  A failure before that leaves the slot alone, one after it is   *)
(* undone by finalize, step by step, and leaves it empty.                  *)
Initializes(i, up) ==
  IF up THEN slot' = i ELSE slot' \in {slot, "none"}

(* Mutation: the shutdown relies on what stands in the slot.               *)
Found(i) == slot

(* finalize sets its own interface for its length, and then empties the    *)
(* slot; AB_Banking_Fini reads the interface without asking.               *)
OwnInterface(i) == i

Fini(i, after) ==
  /\ slot' = "none"
  /\ window' = IF OwnInterface(i) = "none" THEN "aborted" ELSE after

(* The wizard reads the accounts as soon as its instance is up, through an *)
(* interface that is set for the length of the call (ThreadGui).           *)
OpenWizard ==
  /\ Unblocked /\ vault # NoVault /\ Idle
  /\ \/ wizard' = "up" /\ slot' = "none"
     \/ wizard' = "failed" /\ Initializes("wizard", FALSE)
  /\ UNCHANGED <<window, vault, backend, fetching, session, serving, pin, expiring, fetches>>

CloseWizard ==
  /\ InEventLoop /\ wizard # "none"
  /\ wizard' = "none"
  /\ IF wizard = "up" THEN Fini("wizard", window) ELSE UNCHANGED <<window, slot>>
  /\ UNCHANGED <<vault, backend, fetching, session, serving, pin, expiring, fetches>>

(* Mutation: each kind of fetch knows only itself.                         *)
MayBeginAnyTime == TRUE

(* beginFetch, one gate for both kinds of fetch.                           *)
MayBegin == Idle

(* start and startAll of either kind of fetch.  The backend may not come   *)
(* up; a fetch with nothing to ask for fails as well; and the banking      *)
(* layer may answer without a session.  holdPasswordCache comes once the   *)
(* backend is there.                                                       *)
StartFetch ==
  /\ Unblocked /\ vault # NoVault /\ MayBegin /\ fetches < MaxFetches
  /\ fetches' = fetches + 1
  /\ IF backend THEN UNCHANGED <<backend, slot>>
     ELSE backend' \in BOOLEAN /\ Initializes("window", backend')
  /\ expiring' = (expiring /\ ~backend')
  /\ \/ fetching' = "failing" /\ UNCHANGED session
     \/ backend' /\ fetching' = "session" /\ session' \in {"working", "back"}
  /\ UNCHANGED <<window, vault, wizard, serving, pin>>

(* Mutation: the window closes whatever is going on.                       *)
MayCloseAnyTime == TRUE

MayClose == Idle

(* closeEvent; the event is ignored where it may not.                      *)
CloseWindow ==
  /\ Unblocked /\ MayClose
  /\ window' = "closing"
  /\ UNCHANGED <<vault, backend, wizard, slot, fetching, session, serving, pin, expiring, fetches>>

-----------------------------------------------------------------------------
(* The session and the thread of the window.                               *)

SessionCalls ==
  /\ session = "working" /\ session' = "calling"
  /\ UNCHANGED <<window, vault, backend, wizard, slot, fetching, serving, pin, expiring, fetches>>

SessionEnds ==
  /\ session = "working" /\ session' = "back"
  /\ UNCHANGED <<window, vault, backend, wizard, slot, fetching, serving, pin, expiring, fetches>>

(* The queued call is taken up, and its own event loop begins.             *)
Serve ==
  /\ InEventLoop /\ session = "calling" /\ ~serving
  /\ serving' = TRUE
  /\ UNCHANGED <<window, vault, backend, wizard, slot, fetching, session, pin, expiring, fetches>>

(* The call returns, perhaps with a PIN the library puts into the cache.   *)
Answer ==
  /\ serving /\ InEventLoop
  /\ serving' = FALSE /\ session' = "working"
  /\ pin' \in {pin, vault}
  /\ UNCHANGED <<window, vault, backend, wizard, slot, fetching, expiring, fetches>>

(* The end of the session reaches the fetch, which may have to store.      *)
Deliver ==
  /\ InEventLoop /\ session = "back"
  /\ session' = "none" /\ fetching' = "storing"
  /\ UNCHANGED <<window, vault, backend, wizard, slot, serving, pin, expiring, fetches>>

(* closeRun: the span of the PIN begins at every way out that has an       *)
(* interface.                                                              *)
Expires == backend

(* closeRun with endFetch                                                  *)
FetchEnds ==
  /\ InEventLoop /\ fetching \in {"failing", "storing"}
  /\ fetching' = "none" /\ expiring' = (expiring \/ Expires)
  /\ UNCHANGED <<window, vault, backend, wizard, slot, session, serving, pin, fetches>>

(* The timer, which the nested event loops run as well.                    *)
ExpiryFires ==
  /\ InEventLoop /\ expiring
  /\ expiring' = FALSE /\ pin' = PinCleared
  /\ UNCHANGED <<window, vault, backend, wizard, slot, fetching, session, serving, fetches>>

(* finalize, from the destructors behind the event loop: blocks until the  *)
(* session is back, and empties the cache with the interface.              *)
Finalize ==
  /\ window = "closing" /\ ~Out
  /\ IF backend THEN Fini("window", "gone") ELSE window' = "gone" /\ UNCHANGED slot
  /\ backend' = FALSE
  /\ pin' = NoVault /\ expiring' = FALSE
  /\ fetching' = "none" /\ session' = "none"
  /\ UNCHANGED <<vault, wizard, serving, fetches>>

Next ==
  \/ \E v \in Vaults : OpenVault(v)
  \/ CloseStorage \/ OpenWizard \/ CloseWizard \/ StartFetch \/ CloseWindow
  \/ SessionCalls \/ SessionEnds \/ Serve \/ Answer \/ Deliver
  \/ FetchEnds \/ ExpiryFires \/ Finalize

(* Threads run and queued calls are delivered; the user answers a dialog   *)
(* the session put up; a session that goes on calling ends at last.        *)
Fairness ==
  /\ WF_vars(Serve) /\ WF_vars(Answer) /\ SF_vars(SessionEnds) /\ WF_vars(Deliver)
  /\ WF_vars(FetchEnds) /\ WF_vars(ExpiryFires) /\ WF_vars(Finalize)

Spec == Init /\ [][Next]_vars /\ Fairness

-----------------------------------------------------------------------------
(* A PIN in the cache was typed for the vault that is shown, and its time  *)
(* is bounded: a fetch is running or its expiry is on the way.  No expiry  *)
(* runs under a session, which asks for the PIN once per signed message.   *)
PinIsOwn ==
  /\ pin # NoVault /\ window # "gone" => pin = vault /\ (~Idle \/ expiring)
  /\ Out => ~expiring

(* A window that closes gets to its end: the thread that waits for the     *)
(* session in finalize is never the one a call of the session waits for,   *)
(* and neither its shutdown nor the one of the wizard, in whatever order   *)
(* they came up, finds no interface in its thread and ends the process.    *)
ShutdownEnds == window \in {"closing", "aborted"} ~> window = "gone"
=============================================================================
