------------------------ MODULE MCStandingOrderFetch ------------------------
(* Three accounts, so that a fetch goes on from one to the next, two fetches *)
(* in a row, one run of the wizard and one connection that falls.          *)
EXTENDS StandingOrderFetch
=============================================================================
