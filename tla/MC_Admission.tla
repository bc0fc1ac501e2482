---------------------------- MODULE MC_Admission ----------------------------
(* Machines, configurations and plans for TLC. *)
EXTENDS Admission

Kind(s, tr, p, st) == [scheduler |-> s, transfer |-> tr, path |-> p, storage |-> st]

\* The memory behaviours of the algorithm catalogue, on one GPU and on several.
OneGpu ==
  {Kind("gpu_only", "sync", p, "host_resident") : p \in {"default", "chunked_sync", "zero_copy"}}
  \cup {Kind("gpu_only", "async_pipeline", "async_pipeline", st) : st \in {"host_resident", "file_stream"}}
  \cup {Kind("gpu_only", "sync", "chunked_sync", "file_stream"), Kind("gpu_only", "sync", "gds", "gds")}
Multi ==
  {Kind(s, "sync", "default", "host_resident") :
     s \in {"gpu_static_equal", "gpu_static_profiled", "static_equal", "static_profiled"} \cup Dynamic}
  \cup {Kind(s, "async_pipeline", "async_pipeline", "host_resident") :
          s \in {"gpu_static_equal", "static_equal", "static_profiled"}}
  \cup {Kind(s, "async_pipeline", "async_pipeline", "file_stream") :
          s \in {"gpu_static_equal", "static_equal"}}
NoGpu == {Kind("cpu_only", "sync", "default", st) : st \in {"host_resident", "file_stream"}}

Parameters == [chunk : {2, 6}, maxChunk : {4}, streams : {2}, chunks : {3}, chunkElements : {0, 2}]

Make(kind, gpus, size, p) ==
  [scheduler |-> kind.scheduler, transfer |-> kind.transfer, path |-> kind.path,
   storage |-> kind.storage, gpus |-> gpus, size |-> size, chunk |-> p.chunk,
   maxChunk |-> p.maxChunk, streams |-> p.streams, chunks |-> p.chunks,
   chunkElements |-> p.chunkElements]

SomeParameters == CHOOSE p \in Parameters : p.chunkElements = 0

Tasks(size) ==
  {t \in {Make(k, {0}, size, p) : k \in OneGpu, p \in Parameters}
          \cup {Make(k, {0, 1}, size, p) : k \in Multi, p \in Parameters}
          \cup {Make(k, {}, size, SomeParameters) : k \in NoGpu} : Catalogued(t)}

\* A file_stream task of the same or of another dataset goes first or last.
Other(size) == CHOOSE t \in Tasks(size) : t.storage = "file_stream" /\ t.gpus = {}
Plans == {<<t>> : t \in Tasks(3) \cup Tasks(8)} \cup {<<Other(8), t>> : t \in Tasks(8) \cup Tasks(3)}

Healthy ==
  [ram |-> 20, ramPercent |-> 65, target |-> 12, maxReplicas |-> 1, free |-> [g \in {0, 1} |-> 10 - 2 * g],
   vramPercent |-> 80, disk |-> 10, diskPercent |-> 90, nvml |-> TRUE, rapl |-> TRUE,
   powered |-> {0, 1}, masked |-> FALSE, dirty |-> FALSE, unclassified |-> FALSE]

Machines == {[Healthy EXCEPT !.maxReplicas = r, !.free[1] = f] : r \in {1, 2}, f \in {4, 8}}

Lax    == [strict |-> FALSE, graphics |-> FALSE, timeout |-> 0, cpuEnergy |-> FALSE, gpuEnergy |-> TRUE]
Strict == [Lax EXCEPT !.strict = TRUE, !.timeout = 2, !.cpuEnergy = TRUE]

\* Every plan on every machine, left alone.
Memory ==
  {[machine |-> m, config |-> Strict, plan |-> p, troubles |-> {}] : m \in Machines, p \in Plans}

Troubles ==
  {<<"hot", Cpu>>, <<"busy", Cpu>>, <<"blind", Cpu>>}
  \cup {<<k, g>> : k \in {"hot", "compute", "blind"}, g \in {0, 1}}
  \cup {<<"graphics", 0>>, <<"lost", 1>>}

\* One plan under every configuration, with every trouble; without energy the
\* gate before the timing batch is the only one with the worker on the GPU.
Disturbed ==
  {[machine |-> Healthy, config |-> c, troubles |-> Troubles,
    plan |-> <<Make(Kind("gpu_static_equal", "sync", "default", "host_resident"), {0, 1}, 3,
                    SomeParameters)>>] :
     c \in {Lax, Strict, [Strict EXCEPT !.graphics = TRUE], [Lax EXCEPT !.timeout = 1],
            [Strict EXCEPT !.timeout = 0],
            [Strict EXCEPT !.cpuEnergy = FALSE, !.gpuEnergy = FALSE]}}

\* Machines on which energy cannot be measured, or the plan not be trusted.
Unfit ==
  {[machine |-> m, config |-> c, troubles |-> {},
    plan |-> <<CHOOSE t \in Tasks(3) : t.gpus = IF m.nvml THEN {0, 1} ELSE {}>>] :
     c \in {Lax, Strict},
     m \in {[Healthy EXCEPT !.nvml = FALSE], [Healthy EXCEPT !.rapl = FALSE],
            [Healthy EXCEPT !.powered = {0}], [Healthy EXCEPT !.masked = TRUE],
            [Healthy EXCEPT !.dirty = TRUE], [Healthy EXCEPT !.unclassified = TRUE]}}

MCScenarios == Memory \cup Disturbed \cup Unfit
=============================================================================
