-------------------------- MODULE StorageContract --------------------------
(***************************************************************************)
(* What Storage promises to the callers of receiveItems and storeItems     *)
(* (Storage.h), free of watchers, threads and generation numbers:          *)
(*   - at most one call of a way is under way;                             *)
(*   - every accepted call is answered exactly once;                       *)
(*   - a call whose storage fell meanwhile is answered by its bare end and *)
(*     never by a result or a failure.                                     *)
(***************************************************************************)
CONSTANTS Readers, Writers, Files, NoFile

Callers == Readers \cup Writers

VARIABLES
  file,  \* the open storage, or NoFile
  call   \* by caller: where its call stands

cvars == <<file, call>>

UnderWay == {"out", "stale"}
Told == {"result", "failed", "silent"}

SameWay(c, d) == (c \in Readers) <=> (d \in Readers)

NobodyIsTold == \A c \in Callers : call[c] \notin Told

Init == file = NoFile /\ call = [c \in Callers |-> "idle"]

(* A call is accepted on an open storage, by a caller that has none under  *)
(* way; it may have just been told the end of its previous one.            *)
Accept(c) ==
  /\ file # NoFile
  /\ call[c] \notin UnderWay
  /\ \A d \in Callers : SameWay(c, d) => call[d] \notin UnderWay
  /\ call' = [call EXCEPT ![c] = "out"]
  /\ UNCHANGED file

(* Another storage is opened, or the open one is closed: every call that   *)
(* is under way has outlived its storage.                                  *)
Switch(f) ==
  /\ NobodyIsTold
  /\ f # file
  /\ file' = f
  /\ call' = [c \in Callers |-> IF call[c] = "out" THEN "stale" ELSE call[c]]

Answer(c) ==
  /\ NobodyIsTold
  /\ \/ call[c] = "out" /\ \E kind \in {"result", "failed"} :
                             call' = [call EXCEPT ![c] = kind]
     \/ call[c] = "stale" /\ call' = [call EXCEPT ![c] = "silent"]
  /\ UNCHANGED file

Take(c) ==
  /\ call[c] \in Told
  /\ call' = [call EXCEPT ![c] = "idle"]
  /\ UNCHANGED file

Next ==
  \/ \E c \in Callers : Accept(c) \/ Answer(c) \/ Take(c)
  \/ \E f \in Files \cup {NoFile} : Switch(f)

Spec == Init /\ [][Next]_cvars

(* The answer comes, and who is told takes it. *)
FairSpec ==
  /\ Spec
  /\ \A c \in Callers : SF_cvars(Answer(c)) /\ WF_cvars(Take(c) \/ (call[c] \in Told /\ Accept(c)))
=============================================================================
