-------------------------- MODULE MC_WorkerSession --------------------------
(* Constants of the runs of WorkerSession. *)
EXTENDS WorkerSession

\* A worker that answers, rightly or wrongly, refuses, throws or dies.
AnyWorkerFault == {"unsupported", "throw", "crash", "wrong"}
Hangs          == {"hang"}
\* ... or stops answering.
AllFaults      == AnyWorkerFault \cup Hangs
None           == {}

\* Every kind of task; one with neither extra batch.
AllModes == [auto : BOOLEAN, energy : BOOLEAN]
Plain    == {[auto |-> FALSE, energy |-> FALSE]}

AnyRunnerFault == {"gate", "telemetry", "meter", "slow_exit"}
=============================================================================
