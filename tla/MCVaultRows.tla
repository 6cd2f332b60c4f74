---------------------------- MODULE MCVaultRows ----------------------------
(* Two accounts, of which one carries two bookings whose days lie further  *)
(* apart than the lead; two identifiers and two fingerprints of standing   *)
(* orders, neither of which can be told apart by anything but equality.    *)
EXTENDS VaultRows, TLC
CONSTANTS a1, a2, b1, b2, b3, i1, i2, A, B, none

Account == b1 :> a1 @@ b2 :> a1 @@ b3 :> a2
Day == b1 :> 1 @@ b2 :> 3 @@ b3 :> 5
Orders == Permutations({i1, i2}) \cup Permutations({A, B})
=============================================================================
