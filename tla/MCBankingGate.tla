---------------------------- MODULE MCBankingGate ----------------------------
(* Two vaults, so that a PIN can outlive the one it was typed for, and a   *)
(* fetch after the one that left it.                                       *)
EXTENDS BankingGate
=============================================================================
