--------------------------- MODULE MC_EnergyMeter ---------------------------
(* Constants of the run of EnergyMeter. *)
EXTENDS EnergyMeter

AllFaults == {"rapl", "nvml", "power", "batch", "join", "interrupt"}
=============================================================================
