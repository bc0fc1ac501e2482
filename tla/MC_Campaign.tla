---------------------------- MODULE MC_Campaign ----------------------------
(* TLC instances of Campaign. *)
EXTENDS Campaign
=============================================================================
