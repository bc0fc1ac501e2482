-------------------------- MODULE MC_DatasetCache --------------------------
(* TLC instances of DatasetCache. *)
EXTENDS DatasetCache, TLC

\* Campaigns are interchangeable.
Symmetry == Permutations(Procs)
=============================================================================
