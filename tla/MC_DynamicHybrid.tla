-------------------------- MODULE MC_DynamicHybrid --------------------------
(* Instances of DynamicHybrid for TLC: every fault the code can meet, or none. *)
EXTENDS DynamicHybrid

AllFaults == {"spawn", "pin", "cpu", "gpu"}
NoFaults  == {}
=============================================================================
