------------------------- MODULE MC_StaticPartition -------------------------
(* Constants of the runs of StaticPartition. *)
EXTENDS StaticPartition

AllFaults == {"spawn", "pin", "cpu", "gpu"}
NoFaults  == {}

\* Sample sizes that divide the dataset, that do not, and that exceed it.
SomeCandidates == {1, 2, 16}

\* From an engine that is predicted to do nothing to a much faster one.
SomeCapacities == {0, 1, 2, 5}
=============================================================================
