------------------------- MODULE ParallelReduction -------------------------
(***************************************************************************)
(* What every IReductionStrategy promises of a call of run_once (the       *)
(* interface in native/include/prbench/strategy.hpp), whatever engines     *)
(* share the work and in whatever order they run.                          *)
(*                                                                         *)
(* A call folds the dataset piece by piece.  No element is folded twice,   *)
(* and the call returns only when every element has been folded: a value   *)
(* that reaches the caller counts each element exactly once.  A call that  *)
(* cannot do so throws, and a strategy that has thrown is never run again  *)
(* (main.cpp reports the error and exits).                                 *)
(***************************************************************************)
EXTENDS Naturals

CONSTANT N          \* number of elements of the dataset

VARIABLES
  phase,            \* "idle", "running" (inside run_once) or "over"
  absorbed,         \* elements folded by the current call
  returned          \* multiplicity of each element in the last value returned

absVars == <<phase, absorbed, returned>>

Elements == 0 .. N - 1

\* A value is represented by how often each element was combined into it.
Identity == [e \in Elements |-> 0]
Total    == [e \in Elements |-> 1]

Init ==
  /\ phase = "idle"
  /\ absorbed = {}
  /\ returned = Identity

Start ==
  /\ phase = "idle"
  /\ phase' = "running"
  /\ absorbed' = {}
  /\ UNCHANGED returned

Absorb ==
  /\ phase = "running"
  /\ \E S \in SUBSET (Elements \ absorbed) : absorbed' = absorbed \cup S
  /\ UNCHANGED <<phase, returned>>

Return ==
  /\ phase = "running"
  /\ absorbed = Elements
  /\ phase' = "idle"
  /\ returned' = Total
  /\ UNCHANGED absorbed

\* The call throws, or the process dies in it.  A strategy can also be over
\* before its first call: prepare() threw.
Fail ==
  /\ phase \in {"idle", "running"}
  /\ phase' = "over"
  /\ UNCHANGED <<absorbed, returned>>

Next == Start \/ Absorb \/ Return \/ Fail

Spec == Init /\ [][Next]_absVars
=============================================================================
