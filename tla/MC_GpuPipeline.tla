--------------------------- MODULE MC_GpuPipeline ---------------------------
(* Instances of GpuPipeline for TLC. *)
EXTENDS GpuPipeline

\* Every count up to one the reducer must refuse.
EveryCount == 0 .. MaxElements + 1
=============================================================================
