-------------------------- MODULE StaticPartition --------------------------
(***************************************************************************)
(* MultiGpuStrategy, StaticHybridStrategy (native/src/strategy.cpp) and    *)
(* FileStreamStrategy (native/src/integrated_strategy.cu): prepare cuts    *)
(* the dataset into one range per engine, equally, by a fraction for the   *)
(* CPU, or in proportion to what each engine is predicted to reduce in a   *)
(* given time, and every call of run_once has each engine reduce its own   *)
(* range.  With the CPU among them the first range is its, on the calling  *)
(* thread; each GPU is driven by a host thread of its own.                 *)
(*                                                                         *)
(* Values are multiplicities of elements, as in DynamicHybrid.             *)
(***************************************************************************)
EXTENDS Integers, FiniteSets

CONSTANTS
  N,           \* elements in the dataset
  G,           \* number of GPUs
  Candidates,  \* the sample sizes of profile_and_partition, scaled down
  Samples,     \* BOUND: calibration sample indices
  Capacities,  \* BOUND: predicted capacities of an engine, in any unit
  Replicas,    \* copies of the dataset kept for cache rotation
  Faults,      \* the operations that may throw
  MaxCalls     \* BOUND: calls of run_once

ASSUME StaticAssumption ==
  /\ N \in Nat \ {0}
  /\ G \in Nat \ {0}
  /\ Candidates \subseteq Nat \ {0} /\ Candidates # {}
  /\ Samples \in Nat
  /\ Capacities \subseteq Nat /\ Capacities # {}
  /\ Replicas \in Nat \ {0}
  /\ Faults \subseteq {"spawn", "pin", "cpu", "gpu"}
  /\ MaxCalls \in Nat

VARIABLES
  streamed,   \* FileStreamStrategy, or one that has the dataset in memory
  hybrid,     \* the CPU is engine 0: StaticHybridStrategy, file streams with a CPU share
  profiled,   \* model_partition after a calibration, or equal_partition
  ranges,     \* ranges_, one per engine
  capacity,   \* max_elements of the reducer of each GPU
  sample,     \* the last calibration sample
  replica,    \* Dataset::replica_index_
  pc,         \* where the calling thread (0) and the GPU threads are
  results,    \* cpu.result and gpu_results
  errors,     \* GPUs whose thread recorded an exception
  merged,     \* gpu_results merged so far
  value,      \* result, while it is being merged
  returned,   \* the last value run_once returned
  outcome,    \* how the last call ended
  calls       \* calls of run_once made

vars == <<streamed, hybrid, profiled, ranges, capacity, sample, replica, pc, results, errors, merged,
          value, returned, outcome, calls>>
plan == <<streamed, hybrid, profiled, ranges, capacity, sample>>

Gpus     == 1 .. G
Threads  == 0 .. G
Engines  == IF hybrid THEN Threads ELSE Gpus
Elements == 0 .. N - 1
Identity == [e \in Elements |-> 0]
Total    == [e \in Elements |-> 1]
NoRange  == [offset |-> 0, count |-> 0]

Span(r) == r.offset .. r.offset + r.count - 1
MinOf(a, b)  == IF a <= b THEN a ELSE b
MaxOf(a, b)  == IF a >= b THEN a ELSE b

-----------------------------------------------------------------------------
(* Partitions *)

\* What the engines before engine i take, up to engine G + 1, which there is not.
Before(count) ==
  LET sum[i \in 0 .. G + 1] ==
        IF i = 0 THEN 0 ELSE sum[i - 1] + (IF i - 1 \in Engines THEN count[i - 1] ELSE 0)
  IN sum

TotalOf(count) == Before(count)[G + 1]

\* Ranges laid one after the other.
LaidOut(count) == [i \in Engines |-> [offset |-> Before(count)[i], count |-> count[i]]]

\* Equal shares; the first engines take what is left over, one element each.
Equal(total, engines) ==
  LET n == Cardinality(engines)
  IN [i \in engines |->
        total \div n + (IF Cardinality({j \in engines : j < i}) < total % n THEN 1 ELSE 0)]

EqualPartition(total) == LaidOut(Equal(total, Engines))

\* A share of the CPU, then equal ones.
FilePartition(total, cpu) ==
  LaidOut([i \in Engines |-> IF i = 0 THEN cpu ELSE Equal(total - cpu, Gpus)[i]])

\* (Mutant: the last engine's share rounded down as well.)
LastRoundedDown(total, raw) ==
  IF TotalOf(raw) = 0
  THEN EqualPartition(total)
  ELSE LaidOut([i \in Engines |-> (raw[i] * total) \div TotalOf(raw)])

\* raw[i] is what engine i is predicted to reduce in the common finishing time;
\* the last engine takes what the rounding down leaves.
ModelPartition(total, raw) ==
  LET sum   == TotalOf(raw)
      share == [i \in Engines |-> (raw[i] * total) \div sum]
  IN IF sum = 0
     THEN EqualPartition(total)
     ELSE LaidOut([share EXCEPT ![G] = total - Before(share)[G]])

CalibrationOffset(total, n, k) ==
  IF n = 0 \/ n >= total THEN 0 ELSE (k % MaxOf(1, total \div n)) * n

SampleSizes == {MinOf(n, N) : n \in Candidates}

Combine(v, u) == [e \in Elements |-> v[e] + u[e]]

\* What a reducer returns for a range.
Fold(r) == [e \in Elements |-> IF e \in Span(r) THEN 1 ELSE 0]

-----------------------------------------------------------------------------
\* The strategy's constructor: MultiGpuStrategy needs two GPUs, file streams are
\* never calibrated.
Init ==
  /\ streamed \in BOOLEAN
  /\ hybrid \in BOOLEAN /\ (G < 2 => hybrid \/ streamed)
  /\ profiled \in BOOLEAN /\ (profiled => ~ streamed)
  /\ ranges = [i \in Engines |-> NoRange]
  /\ capacity = [g \in Gpus |-> 0]
  /\ sample = NoRange
  /\ replica = 0
  /\ pc = [t \in Threads |-> IF t = 0 THEN "prepare" ELSE "off"]
  /\ results = [t \in Threads |-> Identity]
  /\ errors = {}
  /\ merged = 0
  /\ value = Identity
  /\ returned = Identity
  /\ outcome = "none"
  /\ calls = 0

\* One calibration sample of one engine: another replica, another part of it.
Profile ==
  /\ profiled
  /\ pc[0] = "prepare"
  /\ \E n \in SampleSizes, k \in 0 .. Samples :
       sample' = [offset |-> CalibrationOffset(N, n, k), count |-> n]
  /\ replica' = (replica + 1) % Replicas
  /\ UNCHANGED <<streamed, hybrid, profiled, ranges, capacity, pc, results, errors, merged, value,
                 returned, outcome, calls>>

\* The ranges, then a reducer for each GPU, sized for its range; a file stream
\* takes any range through its buffers (see FilePipeline).  Whatever cpu_fraction
\* is, the CPU's share lies between nothing and all.
Partition ==
  /\ pc[0] = "prepare"
  /\ \/ profiled /\ \E raw \in [Engines -> Capacities] : ranges' = ModelPartition(N, raw)
     \/ streamed /\ \E cpu \in IF hybrid THEN 0 .. N ELSE {0} : ranges' = FilePartition(N, cpu)
     \/ ~ profiled /\ ~ streamed /\ ranges' = EqualPartition(N)
  /\ capacity' = [g \in Gpus |-> IF streamed THEN N ELSE MaxOf(1, ranges'[g].count)]
  /\ pc' = [pc EXCEPT ![0] = "idle"]
  /\ UNCHANGED <<streamed, hybrid, profiled, sample, replica, results, errors, merged, value, returned,
                 outcome, calls>>

PrepareFails ==
  /\ Faults \cap {"cpu", "gpu"} # {}
  /\ pc[0] = "prepare"
  /\ pc' = [pc EXCEPT ![0] = "over"]
  /\ outcome' = "threw"
  /\ UNCHANGED <<plan, replica, results, errors, merged, value, returned, calls>>

\* run_once up to the threads.
Start ==
  /\ pc[0] = "idle"
  /\ calls < MaxCalls
  /\ calls' = calls + 1
  /\ replica' = IF streamed THEN replica ELSE (replica + 1) % Replicas
  /\ pc' = [t \in Threads |-> IF t = 0 THEN "spawn" ELSE "off"]
  /\ results' = [t \in Threads |-> Identity]
  /\ errors' = {}
  /\ merged' = 0
  /\ value' = Identity
  /\ outcome' = "none"
  /\ UNCHANGED <<plan, returned>>

Unspawned == {g \in Gpus : pc[g] = "off"}

\* Once the threads run the calling thread reduces its range, if it has one.
AfterSpawn == IF hybrid /\ ranges[0].count > 0 THEN "cpu" ELSE "join"

Spawn(g) ==
  /\ pc[0] = "spawn"
  /\ g \in Unspawned
  /\ \A h \in Unspawned : g <= h
  /\ pc' = [pc EXCEPT ![g] = "reduce", ![0] = IF Unspawned = {g} THEN AfterSpawn ELSE "spawn"]
  /\ UNCHANGED <<plan, replica, results, errors, merged, value, returned, outcome, calls>>

\* An exception leaves run_once.  Destroying a joinable std::thread terminates
\* the process, so that it is reported only if no thread was started.
Unwind ==
  /\ IF Unspawned = Gpus
     THEN pc' = [pc EXCEPT ![0] = "over"] /\ outcome' = "threw"
     ELSE pc' = [t \in Threads |-> "over"] /\ outcome' = "aborted"
  /\ UNCHANGED <<plan, replica, results, errors, merged, value, returned, calls>>

SpawnFails == "spawn" \in Faults /\ pc[0] = "spawn" /\ Unwind

ReduceCpu ==
  /\ pc[0] = "cpu"
  /\ results' = [results EXCEPT ![0] = Fold(ranges[0])]
  /\ pc' = [pc EXCEPT ![0] = "join"]
  /\ UNCHANGED <<plan, replica, errors, merged, value, returned, outcome, calls>>

CpuFails == "cpu" \in Faults /\ pc[0] = "cpu" /\ Unwind

\* A GPU reduces its range; one beyond the capacity of its reducer throws, and
\* an empty one gives the identity.
ReduceGpu(g) ==
  /\ pc[g] = "reduce"
  /\ ranges[g].count <= capacity[g]
  /\ results' = [results EXCEPT ![g] = Fold(ranges[g])]
  /\ pc' = [pc EXCEPT ![g] = "exited"]
  /\ UNCHANGED <<plan, replica, errors, merged, value, returned, outcome, calls>>

\* Pinning the thread or the reducer throws: the thread records the exception.
GpuFails(g) ==
  /\ pc[g] = "reduce"
  /\ Faults \cap {"gpu", "pin"} # {} \/ ranges[g].count > capacity[g]
  /\ errors' = errors \cup {g}
  /\ pc' = [pc EXCEPT ![g] = "exited"]
  /\ UNCHANGED <<plan, replica, results, merged, value, returned, outcome, calls>>

\* (Mutant: the threads polled and not joined.)
JoinPolls == pc[0] = "join" /\ UNCHANGED vars

AllExited == \A g \in Gpus : pc[g] = "exited"
CallFailed == errors # {}

\* The first recorded exception is rethrown; otherwise the merge starts.
Join ==
  /\ pc[0] = "join"
  /\ AllExited
  /\ pc' = [t \in Threads |->
              CASE t = 0 -> IF CallFailed THEN "over" ELSE "merge"
                [] t # 0 -> IF pc[t] = "exited" THEN "joined" ELSE pc[t]]
  /\ IF CallFailed
     THEN outcome' = "threw" /\ UNCHANGED value
     ELSE value' = results[0] /\ UNCHANGED outcome
  /\ UNCHANGED <<plan, replica, results, errors, merged, returned, calls>>

\* (Mutant: the merge keeps the larger of two values.)
MergeKeepsOne(v, u) == IF v = Identity THEN u ELSE v

Merge(v, u) == Combine(v, u)

MergeGpu ==
  /\ pc[0] = "merge"
  /\ merged < G
  /\ value' = Merge(value, results[merged + 1])
  /\ merged' = merged + 1
  /\ UNCHANGED <<plan, replica, pc, results, errors, returned, outcome, calls>>

Return ==
  /\ pc[0] = "merge"
  /\ merged = G
  /\ returned' = value
  /\ outcome' = "ok"
  /\ pc' = [pc EXCEPT ![0] = "idle"]
  /\ UNCHANGED <<plan, replica, results, errors, merged, value, calls>>

Finished ==
  /\ pc[0] = "over" \/ (pc[0] = "idle" /\ calls = MaxCalls)
  /\ UNCHANGED vars

Next ==
  \/ Profile \/ Partition \/ PrepareFails \/ Start \/ SpawnFails \/ ReduceCpu
  \/ CpuFails \/ Join \/ MergeGpu \/ Return
  \/ \E g \in Gpus : Spawn(g) \/ ReduceGpu(g) \/ GpuFails(g)
  \/ Finished

Spec == Init /\ [][Next]_vars

\* Every thread is scheduled, the calibration comes to an end; a call need not
\* be made.
Fairness ==
  /\ WF_vars(Partition) /\ WF_vars(ReduceCpu \/ CpuFails)
  /\ WF_vars(Join) /\ WF_vars(MergeGpu) /\ WF_vars(Return)
  /\ \A g \in Gpus : WF_vars(Spawn(g)) /\ WF_vars(ReduceGpu(g) \/ GpuFails(g))

FairSpec == Spec /\ Fairness

-----------------------------------------------------------------------------
(* Properties *)

DataRange == [offset : 0 .. N, count : 0 .. N]

\* Types; a range never passes the end of the dataset.
TypeOK ==
  /\ {streamed, hybrid, profiled} \subseteq BOOLEAN
  /\ ranges \in [Engines -> DataRange]
  /\ capacity \in [Gpus -> 0 .. N]
  /\ sample \in DataRange
  /\ replica \in 0 .. Replicas - 1
  /\ pc \in [Threads -> {"prepare", "idle", "spawn", "cpu", "join", "merge", "over",
                         "off", "reduce", "exited", "joined"}]
  /\ results \in [Threads -> [Elements -> 0 .. 1]]
  /\ errors \subseteq Gpus
  /\ merged \in 0 .. G
  /\ value \in [Elements -> 0 .. G + 1]
  /\ returned \in [Elements -> 0 .. G + 1]
  /\ outcome \in {"none", "ok", "threw", "aborted"}
  /\ calls \in 0 .. MaxCalls

\* The ranges tile the dataset, whatever capacities were predicted -- none at
\* all, one engine that would do everything, shares that round down to
\* nothing -- and each fits the reducer that was made for it; before that, the
\* calibration samples lie inside the dataset, whatever their size and index.
RangesTile ==
  /\ TypeOK
  /\ sample.offset + sample.count <= N
  /\ pc[0] \notin {"prepare", "over"} =>
       /\ \A e \in Elements : \E i \in Engines :
            /\ e \in Span(ranges[i])
            /\ \A j \in Engines \ {i} : e \notin Span(ranges[j])
       /\ \A g \in Gpus : ranges[g].count <= capacity[g]

\* A call that has begun ends, even when several engines fail.
CallEnds == pc[0] \in {"spawn", "cpu", "join", "merge"} ~> pc[0] \in {"idle", "over"}

Phase ==
  IF pc[0] \in {"prepare", "idle"} THEN "idle" ELSE
  IF pc[0] = "over" THEN "over" ELSE "running"
Absorbed == {e \in Elements : \E t \in Threads : results[t][e] > 0}

Abstract == INSTANCE ParallelReduction WITH phase <- Phase, absorbed <- Absorbed

\* All static strategies keep the promise of a strategy: a value is returned
\* only if every engine folded its range, each element once, and no GPU thread,
\* which uses run_once's locals by reference, goes on folding after the call.
ImplementsReduction == Abstract!Spec
=============================================================================
