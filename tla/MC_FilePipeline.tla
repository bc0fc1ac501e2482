-------------------------- MODULE MC_FilePipeline --------------------------
(* Constants of the run of FilePipeline. *)
EXTENDS FilePipeline

AllFaults == {"file", "cuda"}
=============================================================================
