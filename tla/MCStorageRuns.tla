--------------------------- MODULE MCStorageRuns ---------------------------
(* Two readers, two writers and two files: enough for a foreign run on     *)
(* each way and for a result of one file to arrive under the other.        *)
EXTENDS StorageRuns
CONSTANTS r1, r2, w1, w2, f1, f2, none
=============================================================================
