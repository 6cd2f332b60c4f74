--------------------------- MODULE MCTableReaders ---------------------------
(* Two accounts in one file, one in another; pages of two bookings and up  *)
(* to three bookings, so that a holding spans two pages.                   *)
EXTENDS TableReaders, TLC
CONSTANTS f1, f2, none, a1, a2, b1, nobody
MCHomeOf == (a1 :> f1) @@ (a2 :> f1) @@ (b1 :> f2)
MCHeld == (a1 :> 2) @@ (a2 :> 3) @@ (b1 :> 3)
=============================================================================
