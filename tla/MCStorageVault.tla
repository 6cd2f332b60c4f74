--------------------------- MODULE MCStorageVault ---------------------------
(* Two names that differ in case only, so that the connection of one may   *)
(* be taken for the other's; two pass phrases; and a vault of each kind    *)
(* another build may have left: before the unique index, with a booking    *)
(* twice and two of null, or two of the empty value, for a fingerprint;    *)
(* before the columns; without a column at the current version; and newer. *)
EXTENDS StorageVault

MCFold == [n \in Names |-> IF n = "Haus" THEN "haus" ELSE n]
MCPrintOf == <<"p", "p", "null", "null", "q", "empty", "empty">>

File(k, tables, rows, indexed, version) ==
  [key |-> k, tables |-> tables, rows |-> rows, indexed |-> indexed, version |-> version]

MCOlderFiles ==
  {File("k1", "full", {1, 2, 3, 4, 6}, FALSE, 3), File("k1", "full", {1, 3, 6}, TRUE, 5),
   File("k1", "full", {1, 2, 6, 7}, FALSE, 3),
   File("k1", "old", {1, 2}, FALSE, 2), File("k1", "old", {1}, TRUE, 5),
   File("k1", "full", {1}, TRUE, 6)}
=============================================================================
