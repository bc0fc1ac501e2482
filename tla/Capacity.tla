------------------------------ MODULE Capacity ------------------------------
(***************************************************************************)
(* What a task will hold in memory, three times: as capacity.py estimates  *)
(* it, as preflight and runner compare it with their budgets, and as the   *)
(* worker allocates it (strategy.cpp, gpu_backend.cu,                      *)
(* integrated_strategy.cu, dataset.cpp).  The estimates were written after *)
(* the allocations and nothing but care keeps them together.               *)
(*                                                                         *)
(* A task t has a scheduler, transfer policy, memory path and storage      *)
(* policy, a set of GPUs, a number of elements (size, which also names its *)
(* dataset), and the parameters chunk, maxChunk, streams, chunks and       *)
(* chunkElements, whose defaults are the same in capacity.py and in        *)
(* _worker_command.  Elements are one byte.                                *)
(***************************************************************************)
EXTENDS Integers, FiniteSets

Lesser(a, b)  == IF a <= b THEN a ELSE b
Greater(a, b) == IF a <= b THEN b ELSE a
DivUp(a, b)   == (a + b - 1) \div b

Count(t) == Cardinality(t.gpus)
Async(t) == t.transfer = "async_pipeline"

\* Paths on which a GPU reads memory of the host, and paths that copy chunks.
HostPaths  == {"zero_copy", "hmm_system", "managed_fault", "managed_prefetch", "managed_advised"}
ChunkPaths == {"chunked_sync", "pinned_direct"}
Dynamic    == {"dynamic_fixed", "dynamic_guided", "dynamic_adaptive"}

\* The catalogue of algorithms and the validation of parameters: a parameter an
\* algorithm does not list stays at its default, so that only pipelines have
\* chunk elements, and a chunk size is positive.
Catalogued(t) ==
  /\ t.scheduler \in {"cpu_only", "gpu_only", "gpu_static_equal", "gpu_static_profiled",
                      "static_equal", "static_profiled"} \cup Dynamic
  /\ t.storage \in {"host_resident", "file_stream", "gds"}
  /\ {t.size, t.chunk, t.maxChunk, t.streams, t.chunks} \subseteq Nat \ {0}
  /\ t.chunkElements \in Nat /\ (t.chunkElements > 0 => Async(t))
  /\ IsFiniteSet(t.gpus) /\ (t.scheduler = "cpu_only" <=> t.gpus = {})
  /\ t.path \in ChunkPaths => ~ Async(t)
  /\ t.scheduler \in Dynamic => ~ Async(t) /\ t.storage = "host_resident"

-----------------------------------------------------------------------------
(* capacity.py *)

\* (Mutant: one stream's buffer instead of all.)
OneStream(t, m) == IF t.chunkElements > 0 THEN Lesser(m, t.chunkElements) ELSE DivUp(m, t.chunks)

\* The buffers of a pipeline for m elements.
Pipelined(t, m) ==
  t.streams * IF t.chunkElements > 0 THEN Lesser(m, t.chunkElements) ELSE DivUp(m, t.chunks)

Buffered(t, m) == IF Async(t) THEN Pipelined(t, m) ELSE m

\* File streaming and explicit chunks: bounded buffers, whatever the share.
Bounded(t) ==
  IF Async(t)
  THEN t.streams * Lesser(t.size, IF t.chunkElements > 0 THEN t.chunkElements ELSE t.chunk)
  ELSE Lesser(t.size, t.chunk)

Of(kind, elements) == [kind |-> kind, elements |-> elements]

\* gpu_input_allocation_estimates: the same for every GPU of the task.
Estimate(t) ==
  IF t.path \in HostPaths THEN Of("managed_or_host_mapped", 0)
  ELSE IF t.storage # "host_resident" \/ t.path \in ChunkPaths THEN Of("exact", Bounded(t))
  ELSE CASE t.scheduler = "gpu_only"         -> Of("exact", Buffered(t, t.size))
         [] t.scheduler = "gpu_static_equal" -> Of("exact", Buffered(t, DivUp(t.size, Count(t))))
         [] t.scheduler = "static_equal"     -> Of("exact", Buffered(t, DivUp(t.size, Count(t) + 1)))
         [] t.scheduler = "gpu_static_profiled" -> Of("reference", DivUp(t.size, Count(t)))
         [] t.scheduler = "static_profiled" ->
              IF Async(t) THEN Of("upper_bound", Pipelined(t, t.size))
              ELSE Of("reference", DivUp(t.size, Count(t) + 1))
         [] t.scheduler = "dynamic_fixed" -> Of("exact", Lesser(t.size, t.chunk))
         [] t.scheduler \in {"dynamic_guided", "dynamic_adaptive"} ->
              Of("exact", Lesser(t.size, t.maxChunk))
         [] OTHER -> Of("reference", t.size)

\* gpu_capacity_rows: percentages of what was free when the machine was discovered.
SafeVram(m, g) == (m.free[g] * m.vramPercent) \div 100

OverVram(m, t) == {g \in t.gpus : Estimate(t).elements > SafeVram(m, g)}

\* cache_rotation_replicas and cache_rotated_resident_bytes
Replicas(m, size) ==
  IF size <= 0 \/ m.target <= 0 THEN 1
  ELSE Greater(1, Lesser(m.maxReplicas, DivUp(m.target, size)))

Resident(m, size) == size * Replicas(m, size)

-----------------------------------------------------------------------------
(* The worker *)

\* The elements of a GPU's share: sizes of ranges, calibration samples, chunks.
\* Predicted shares can be anything; a sample is never more than the dataset, the
\* adaptive scheduler's never more than a chunk.
Shares(t) ==
  CASE t.scheduler = "gpu_only"         -> {t.size}
    [] t.scheduler = "gpu_static_equal" -> {t.size \div Count(t), DivUp(t.size, Count(t))}
    [] t.scheduler = "static_equal" ->
         IF t.storage = "file_stream" THEN 0 .. t.size \* cpu_fraction
         ELSE {t.size \div (Count(t) + 1), DivUp(t.size, Count(t) + 1)}
    [] t.scheduler \in {"gpu_static_profiled", "static_profiled"} -> 0 .. t.size
    [] t.scheduler = "dynamic_fixed" -> {t.chunk}
    [] t.scheduler \in {"dynamic_guided", "dynamic_adaptive"} -> {t.maxChunk}

\* CudaGpuReducer for at most m elements: setup_sync or setup_pipeline.
ReducerInput(t, m) ==
  IF Async(t)
  THEN t.streams * Greater(1, IF t.chunkElements > 0 THEN Lesser(m, t.chunkElements)
                              ELSE DivUp(m, t.chunks))
  ELSE Greater(1, m)

\* FileStreamStrategy::prepare for a range of m elements.
FileInput(t, m) ==
  (IF Async(t) THEN t.streams ELSE 1)
    * Greater(1, Lesser(IF t.chunkElements > 0 THEN t.chunkElements ELSE t.chunk, Greater(1, m)))

\* uses_integrated_strategy, as far as memory goes
Integrated(t) ==
  \/ t.storage # "host_resident"
  \/ t.scheduler = "gpu_only" /\ t.path \in HostPaths \cup ChunkPaths

\* What the input of a task may take on one of its GPUs.
DeviceInputs(t) ==
  IF t.storage = "file_stream" THEN {FileInput(t, m) : m \in Shares(t)}
  ELSE IF t.path \in HostPaths THEN {0}
  ELSE IF t.path \in ChunkPaths THEN {Greater(1, Lesser(t.size, t.chunk))}
  ELSE {ReducerInput(t, Greater(1, m)) : m \in Shares(t)}

\* Dataset keeps replicas, the integrated strategies one copy, file streams none.
HostInput(m, t) ==
  IF t.storage # "host_resident" THEN 0
  ELSE IF Integrated(t) \/ m.target = 0 THEN t.size
  ELSE t.size * Greater(1, Lesser(m.maxReplicas, DivUp(m.target, t.size)))
=============================================================================
