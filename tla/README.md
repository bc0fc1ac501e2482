# A TLA+ development of prbench

`prbench` measures parallel reductions on CPUs and GPUs. A Python harness
(`src/prbench`) plans a campaign of tasks, prepares datasets and runs each task
in a worker process of its own; the worker (`src/native`, C++ and CUDA) loads
the dataset, sets up a reduction strategy and executes it in batches on command.
This directory models the parts of it whose correctness depends on the order in
which threads, streams, processes and failures act.

## The system

| Component | State | Operations | Hard parts | What makes it correct |
|---|---|---|---|---|
| Strategies (`strategy.cpp`) | cursor, per-engine values, recorded errors, active replica | `prepare`, `run_once`, `claim` | host threads race for chunks; failures of threads; reuse of locals by reference | every element folded once or the call throws; no thread outlives a call |
| Async pipeline (`gpu_backend.cu`) | pinned staging buffers, device buffers, result slots, stream queues | `setup_pipeline`, `reduce_pipeline` | the device runs behind the host; buffers are reused | no chunk or call sees another's data |
| Worker (`main.cpp`) | position in a fixed script of commands | PROBE, TIMING, ENERGY, DUMP | exceptions, crashes, hangs, full pipes | answers every command it is sent with what the runner expects |
| Task runner (`runner.py`, `protocol.py`) | position, worker process, energy meter, rows written | `run_task`, `_run_worker`, `read_event` | exceptions on every line, Ctrl-C, timeouts, cleanup in nested `finally` | rows tell the truth; worker and meter are released |
| Dataset cache (`datasets.py`) | data file, metadata file, temporary file | `cached_artifact`, `get_or_create` | crashes between writes, two campaigns on one cache | an artifact's data are what its metadata say |
| Campaign (`cli.py`, `results.py`) | result files, manifest, summary | `cmd_run`, `write_summary`, `finalize_manifest` | interrupts, failed tasks among good ones | the manifest's status and the exit code agree with the rows |
| Energy meters (`energy.py`) | two reads of each counter, samples, a polling thread, the window | `start`, `stop`, `close`, `_poll_loop`, `_integrate_samples` | counter wraparound, a thread that reads the clock before the power, exceptions half-way | energy of the window and no other; the thread ends |
| Planner (`sweep.py`, `topology.py`) | control threads assigned so far, what is left of the pool | GPU sets, parameter grids, CPU pools, `_assign_gpu_control_cpus` | greedy assignment on SMT siblings, NUMA nodes, offline and forbidden CPUs | distinct control cores, local where possible; no refusal without a reason |
| Memory estimates (`capacity.py`) | none | `gpu_input_allocation_estimates`, cache rotation | written by hand after allocations in C++ | not below what the worker allocates |
| Admission (`cli.py`, `runner.py`) | findings, troubles of the machine, sleeps of the guard | `_evaluate_preflight`, budgets, `ThermalGuard`, `_validate_runtime_idleness` | the machine changes between check and use; three copies of the same arithmetic | preflight and runner agree; what is measured was admitted |
| File streams (`integrated_strategy.cu`) | ring of slots with a `pending` flag, file position | `prepare`, `run_once`, `reduce_gpu_file_range` | file reads overlapped with device copies; flags that outlive rounds | each element of the range folded once in the last round |

The campaign calls the runner once per task; the runner talks to the worker
through two pipes, one line per command and per event, and brackets one batch
with the energy meter; the worker calls its strategy's `run_once` once per
repetition; a strategy drives one GPU reducer per GPU from one host thread each.
An exception in a strategy reaches the worker's `main`, which reports it as an
`error` event; the runner turns it into a `failed` row; the campaign goes on.
Before any of this the planner turns the configuration into tasks, the preflight
accepts or refuses the campaign, and each task passes the runner's own gates.

`PROJECT.json` lists the hazards of this code line by line, with the property
that watches each.

## The modules

### DatasetCache

`DatasetFactory.get_or_create` as a sequence of file-system calls. A campaign is
a process of `Procs`; files are inodes that a name or an open descriptor refers
to, so that renaming or unlinking a file somebody else is writing has its real
effect. `Abandon` is a kill at any point, or an `OSError`. Three history variables
say how rough the use has been: `overlapped` (two campaigns at once), `killed`,
and `clobbered` (two had the temporary file open); each property holds up to one
of them.

### TaskOutcomes, Campaign

`Campaign` is `cmd_run` with the files of `ResultsStore`. It uses of `run_task`
only the set `Outcomes` of rows and exceptions that `TaskOutcomes` defines, and
`WorkerSession` is checked to stay within it (`OutcomeKnown`): the two models
meet there, and neither contains the other. `finalize_manifest` is two steps,
because it empties the file before it writes it.

### Planner

`SweepPlanner` for one algorithm of one group: `Init` is what discovery makes of a
machine and a configuration, an action resolves the pool of the next GPU set,
`_assign_gpu_control_cpus` is one step per GPU, and `Emit` builds the tasks, with
the checks of parameter combinations. CPUs the program cannot see or may not use are part of the machine.

### Capacity, Admission

`Capacity` writes the memory of a task down twice, as `capacity.py` estimates it
and as the worker's constructors allocate it, one operator per piece of code on
either side. `Admission` is the way of a campaign past the preflight, and of each
task past the runner's budgets and, three times, past `ThermalGuard` and the idleness
gate: before the worker is started (runner.py:134-135), with the worker on the GPU before
its timing batch (287-288), which every task meets, and before its energy batch
(336-337). `Change` lets the machine get hot, busy or unreadable at any time. `always`
and `ever` remember what was amiss since the worker last finished something: its
warm-up and probe, or its timing batch.

### EnergyMeter

`CompositeEnergyMeter` inside the energy block of `_run_worker`: the runner's
calls one by one, the polling thread beside them, a clock that ticks at any
time, and every exception a call can raise. The row's energies are compared with
what the machine really consumed between the reads.

### ParallelReduction, DynamicHybrid, StaticPartition

`ParallelReduction` says what any strategy promises of `run_once`: it folds the
dataset piece by piece and returns only when every element has been folded,
each once; or it throws, and is then over. A *value* is represented by the
multiplicity with which each element was combined into it, so that an element
lost or counted twice shows whatever the operation is.

`DynamicHybrid` is `DynamicHybridStrategy`. Worker 0 is the calling thread,
worker g the host thread of GPU g. `claim` is two steps, `Load` and the
exchange, with any worker in between; a relaxed load may return any earlier
value of the cursor, and `compare_exchange_weak` may fail spuriously. `Spawn`
starts threads in order and lets pinning fail; `GpuFails` is the `catch (...)`
of a thread; `Unwind` is an exception on the calling thread, which reaches the
destructors of `std::thread`: unless none was started this ends the process.
`Join`, `MergeGpu` and `Return` are the rest of `run_once`. Chunk sizes of the
guided scheduler are computed, those of the adaptive one range over everything
`std::clamp` can return, because measured throughput can be anything.

`StaticPartition` is `MultiGpuStrategy`, `StaticHybridStrategy` and
`FileStreamStrategy`; `Init` chooses which (`hybrid`, `streamed`), and whether it is
calibrated (`profiled`). `Profile` draws calibration samples, `Partition` cuts the dataset
by `equal_partition`, by `model_partition` for any predicted capacities, or, for a
file, by any share of the CPU, and
`run_once` is as above without claims.

Both modules implement `ParallelReduction` (`ImplementsReduction`); the mapping takes
`absorbed` to the elements in some worker's value.

### FilePipeline

What `StaticPartition` takes as one step of a GPU of a file stream:
`reduce_gpu_file_range`, with the `slots` of `GpuFilePipeline` and the streams that
work behind the host. `InUse` is the flag `pending`, the only thing that keeps a
staging buffer or a scalar from being overwritten too early. It implements
`ParallelReduction` for the GPU's own range, over all `reuse_count` rounds of a call.

### GpuPipeline

`CudaGpuReducer::reduce` with the transfer policy `async_pipeline`. The host
loop (`IssueChunk`) fills a staging buffer and enqueues three operations;
`Execute` is a stream performing its next one, whenever it likes. Elements are
tagged with the call they belong to, so that stale data are recognised.

### WorkerProcess, WorkerSession

`WorkerProcess` is `main` of the worker: its script of `getline`s, the lines it
writes to a pipe of bounded size, exceptions, crashes, hangs, signals.
`WorkerSession` extends it with `run_task`: one action for each call that can
raise or block. `Catcher` says which handler or `finally` clause an exception
raised at each point reaches. `read_event` is `Select`, `Fill`, `Take` and
`ReadEof`: the text stream reads ahead of the descriptor `select` looks at. Its
timeout has no action, because the code discards it (see the findings).
`Interrupt` is Ctrl-C at any point, the `finally` clauses included, and it may
hit the worker as well. `struck` remembers where it hit, so that the properties
can say exactly which points are not protected.

## What the runs check

| Run | Module | Checks | Shows |
|---|---|---|---|
| `DynamicAdaptive` | `DynamicHybrid` | `CapacityContract`, `ExactlyOneHolder`, `ResultExact`, `NoThreadOutlivesCall`, `CallEnds`, `QuiescentUpdates`, `ImplementsReduction` | The adaptive scheduler, whose chunks may have any size between the bounds and whose calibration hands every reducer a sample first, with two GPUs, a short last chunk and every fault: each element is claimed and folded by one worker, no reducer is handed more than it was sized for, a call returns the whole or throws, no thread outlives it, and under fair scheduling it ends, whatever fails. |
| `ChunkBounds` (violation) | `DynamicHybrid` | `CapacityContract` | With min_chunk_size above max_chunk_size a GPU can be handed more elements than its reducer was sized for. |
| `PipelineReuse` | `GpuPipeline` | `ChunkIntegrity`, `ReturnsWhole`, `CallEnds` | Every input length in three calls, up to four chunks over two streams, CUDA errors: reusing staging buffers and result slots never mixes up chunks or calls, the slots suffice, and every call ends. |
| `FileStream` | `FilePipeline` | `ImplementsReduction` | One, two and three slots, a range of three full chunks and a short one, two rounds in each of two calls, files and CUDA calls that fail: however far the streams lag behind the host, a GPU's value counts each element of its range once. |
| `StaticHybrid` | `StaticPartition` | `RangesTile`, `CallEnds`, `ImplementsReduction` | Hybrid and multi-GPU, profiled or not, and streams from a file, with two GPUs and a remainder: whatever the profile predicts the ranges tile the dataset, the samples lie in it, and a call ends and returns the whole or throws. |
| `SessionFaults` | `WorkerSession` | `InStep`, `VerdictEarned`, `RowPerTask`, `OutcomeKnown`, `WorkerReaped`, `MeterReleased`, `InterruptHeard`, `TaskEnds` | Tasks of every kind with three repetitions, every fault of worker and runner and up to two Ctrl-C anywhere: both scripts stay in step, the rows tell the truth, worker and meter are released - or where exactly they are not - and unless the worker hangs run_task ends and leaves no process. |
| `SilentWorker` (violation) | `WorkerSession` | `SilenceTimesOut` | A worker that hangs is waited for without end: the event timeout never takes effect. |
| `CacheShared` | `DatasetCache` | `SizeTellsAll`, `ArtifactSound`, `RepairUnderWay`, `EntryKept` | Two campaigns that call the cache again and again, are killed anywhere, and delete, empty and rename each other's temporary file: what is safe when they take turns, what while none is killed, and the one way to a wrong entry. |
| `CampaignVerdict` | `Campaign` | `ManifestHonest`, `FilesAgree` | Two tasks with every outcome run_task can have, and an exception or Ctrl-C anywhere: the manifest never claims too much, and a returned code agrees with the files. |
| `PlannerSweep` | `Planner` | `ControlCoresDistinct`, `ComputeCoresFree`, `RefusedOnlyIfShort`, `LocalFirst` | Two GPUs anywhere on small machines with SMT, NUMA, offline and forbidden CPUs, every kind of pool, mode, GPU set and algorithm: control threads have cores of their own, the rest of the pool computes, locality gives way only to earlier GPUs, and the greedy search gives up only when cores are short. |
| `EnergyWindow` | `EnergyMeter` | `CpuEnergyTrue`, `GpuEnergySound`, `StopRaises`, `PollerEnds` | One energy batch with counters that wrap or not, a GPU that is polled or counted, and every fault: the energies of a row are those of its window, stop fails of itself only in one race, and the polling thread ends - or where it does not. |
| `AdmissionGates` | `Admission` | `AdmittedFits`, `VerdictsAgree`, `QuietWhenMeasured`, `WaitEnds` | Every memory behaviour of the catalogue with machines that have room and that have not, and a task of two GPUs while the machine changes around it: what is admitted fits, preflight and runner agree, nothing that was amiss since the worker was ready, or since its timing batch, is timed or measured unnoticed but for what could not be read, and none of the three waits is endless. |

### Bounds

*Strategies.* Two calls suffice where the state of one could leak into the next,
as every call starts from the same reset. Three elements make full chunks and a
short last one, and as many chunks as workers; two GPUs and the CPU every race
between two claims with a third party. The guided scheduler, whose chunk sizes are among
those of the adaptive one, has a run of its own only for the finding below; the proofs
are about all schedulers. Two replicas of the dataset show when they are
changed. Five elements leave a remainder for two
engines and for three. *File streams.* Four chunks over two and three slots:
every slot is refilled while its last chunk may be under way, and in three some slots
are used once more than others; a second round and a second call find the flags the first left. *Pipeline.* Two streams and up to four chunks, three calls of
different lengths: buffers are reused, and a shorter call leaves result slots of a
longer one untouched. *Session.* A pipe of two lines lets the worker block on it
and the runner read ahead; the real pipe only has more room. Two Ctrl-C's cover one that strikes while
the first is being handled. *Cache.* There is no counter to bound: inodes are reused, campaigns call and
are killed for ever; two chunks are enough for a file with a hole and for one cut
short. *Campaign.* Two tasks make one that is never begun. *Planner.* Five CPUs on three cores - two with
SMT siblings, one without on a node of its own - with every place two GPUs can have, masks that
split siblings or leave no core, and a set that repeats a GPU, so that three
control threads compete for two or three cores. *Energy.* Two ticks and two powers
let a sample fall before, inside, at the edge of and after the window, and the
counter wrap or not. *Admission.* Datasets below and above the
chunk sizes and the budgets; a configuration without energy, in which only the gate before the
timing batch sees the worker; two changes make a trouble that comes and goes between two checks,
or one that hides another. All bounds are marked `BOUND` where they are declared.

### Fairness

`DynamicHybrid` needs that threads are scheduled (weak fairness), that a thread
which keeps loading sees the newest cursor value again and again, and that an
exchange against the newest value does not fail spuriously for ever (strong
fairness of `Load(w, next)` and `ExchangeSucceeds(w)`). The C++ standard asks
both of an implementation, and without them a claim loop need not end. The other
modules need only weak fairness of threads, streams and processes: in
`EnergyMeter` of the runner and of the polling thread, each on its own; in
`Admission` of the campaign, while nothing need ever change around it. No fault, no
Ctrl-C and no call of `run_once` is ever obliged to happen; a worker that hangs
is outside `TaskEnds` because the code does not deal with one.

## What the runs found

* **Event timeout without effect** (`SilentWorker`). `read_event` raises
  `TimeoutError` inside a `try` whose `except OSError` catches it, then blocks in
  `readline`: `worker_event_timeout_s` never ends a wait.
* **Chunk bounds out of order** (`ChunkBounds`). When only one of
  `min_chunk_size` and `max_chunk_size` is configured, the planner does not
  compare it with the other's default; `std::clamp` is then undefined and can
  hand a GPU more than its reducer was sized for.

Nothing in the repository promises otherwise, but two
campaigns that share a cache directory can hand out an artifact whose data are
still being written (one deletes the other's temporary file and renames its own
unfinished successor), and if one of them is killed can leave a file of full
length with a hole in it, which the cache then accepts for good. `ArtifactSound`
is therefore stated for campaigns that take turns, `RepairUnderWay` while none is
killed, and `SizeTellsAll` says what is left in every case. Ctrl-C outside `run_task`, between two tasks for example, leaves a manifest
without a `run_status`.

The models also show where the code's promises end, and the properties say so:
a Ctrl-C between `Popen` and the `try`, or inside the `finally` clause, leaves a
worker unreaped; one between the meter's constructor and its `try`, or inside
its `finally`, leaves the meter open; a worker that outlives SIGKILL's wait makes
`TimeoutExpired` replace a `KeyboardInterrupt`; a worker that reports
`unsupported` and is slow to exit gets two rows.
Among the gates, a GPU whose temperature cannot be read makes the thermal guard
take all GPUs of the task for safe, and the idleness gate sees no process on a
GPU it cannot read: `QuietWhenMeasured` excepts both. The dynamic schedulers'
"exact" estimate is below what they allocate on data smaller than a chunk
(`ChunkBeyondData`). The polling thread of the energy meter outlives the task
when `stop` fails on RAPL before it reaches the GPUs, or Ctrl-C strikes before the meter counts as started
(`PollerEnds` excepts both), and a GPU whose power could never be read is charged
nothing. With offline CPUs the ids beyond their count are never looked at, so that a
refusal is justified only by the CPUs the program knows of.

## What is proved

Every safety invariant, action property and refinement that a run checks is also a
theorem, for every value of the constants under the assumptions that the component's
module names; TLC evaluates those assumptions in the runs. Eight modules hold the
proofs. `Harness_proofs` is about `WorkerSession` and `Campaign`, `Pipelines_proofs`
about `GpuPipeline` and `FilePipeline`; the identifiers of such a pair are disjoint, so
that one module can extend both and a theorem can speak of both (`OutcomeExpected`).
Every proof has the same shape: an inductive invariant (`IInv`; `SessionInv`,
`CampaignInv` and `FileInv` where two share a module), one lemma per action or group of
actions, `Invariance`, and a theorem per property.

### DynamicHybrid_proofs

* `Invariance`: The inductive invariant IInv - types, where each worker can be, claims, ranges, single ownership, phases of the call, merge - holds of every reachable state.
* `TypeCorrect`: Every variable keeps its type; the cursor never passes the end of the dataset and no worker asks for elements beyond it.
* `ClaimsExact`: For any dataset, number of GPUs, scheduler and chunk parameters, each element is held by at most one worker, those below the cursor by exactly one.
* `ReturnsExact`: A value run_once returns counts every element exactly once, and none is returned if a GPU thread failed.
* `ThreadsJoined`: No GPU thread is alive once run_once has returned, thrown, or gone on to the merge.
* `CapacityKept`: If min_chunk_size <= max_chunk_size, no GPU reducer is ever handed more than it was sized for.
* `UpdatesQuiescent`: The cursor is rewound, the replica changed and the values merged only while no GPU thread runs.
* `Refinement`: DynamicHybrid implements ParallelReduction: calls fold the data piece by piece and return only the whole.

### StaticPartition_proofs

* `Invariance`: The inductive invariant - the ranges that prepare leaves (PlanInv), where each thread can be, what was reduced and merged (IInv) - holds of every reachable state.
* `TypeCorrect`: Every variable of the strategy keeps its type.
* `Tiling`: For any dataset, number of GPUs, kind of partition and prediction, the ranges tile the dataset, fit their reducers, and calibration samples lie inside the data.
* `ThreadsJoined`: No GPU thread goes on once run_once merges, has returned or has thrown.
* `Refinement`: The static strategies implement ParallelReduction, whichever thread fails or cannot be started.

### Pipelines_proofs

* `Invariance`: The inductive invariant IInv of GpuPipeline - which operations of a stream's last chunk are left and what the buffers they read hold - holds of every reachable state.
* `TypeCorrect`: Every variable of GpuPipeline keeps its type; no stream is given more than the operations of one chunk.
* `DataKept`: No staging buffer, device buffer or result slot is reused before its last use, for any number of streams, chunk sizes and calls.
* `CallsExact`: reduce combines each element of its input exactly once and refuses only inputs longer than it was made for, whatever order the streams run in.
* `FileInvariance`: The inductive invariant FileInv of FilePipeline - what was read of the range is merged or carried by exactly one pending slot - holds of every reachable state.
* `FileRefinement`: For any range, buffer size, number of slots, rounds and calls, what reduce_gpu_file_range returns counts each element of its range once.

### DatasetCache_proofs

* `Invariance`: The inductive invariant IInv - descriptors, contents and writers' positions, the steps of a campaign that is alone - holds of every reachable state.
* `TypeCorrect`: Every variable keeps its type for any number of campaigns; an inode is always free for a new temporary file.
* `SizeSuffices`: However campaigns interleave and are killed, as long as no two had one temporary file open, a data file of the right size is whole.
* `ArtifactsSound`: Any number of campaigns that take turns are handed only artifacts whose data and metadata are complete.
* `RepairsUnderWay`: While none is killed, no incomplete file keeps its name without a campaign at work on it.
* `EntryStays`: A complete entry is not rewritten by a campaign that found it complete.

### Harness_proofs

* `Invariance`: The inductive invariant SessionInv - how far the worker can be for each place of the runner, what is between them, and what runner, meter and rows owe to that - holds of every reachable state.
* `TypeCorrect`: Every variable of WorkerSession keeps its type: at most one command is unread and a task has at most two rows.
* `ScriptsAgree`: Whatever failed before, an unread command is one the worker's next getline accepts, and a line on its way one the runner expects.
* `Verdicts`: A task is recorded as measured only with every repetition, a worker that was done and the energy batch exactly if asked for, and as ok exactly when no value was wrong.
* `Rows`: run_task leaves a row or raises, and two rows only if something went wrong after the first was written.
* `OutcomesKept`: run_task leaves and raises only what TaskOutcomes lists.
* `NoWorkerLeft`: run_task leaves no worker behind, except where its finally clause does not protect it.
* `MeterClosed`: The meter is closed once the energy block is left and runs around the energy batch and no other.
* `InterruptKept`: A Ctrl-C is not swallowed.
* `OutcomeExpected`: Whatever run_task leaves, raises and has appended is a choice of Campaign's RunTask: the two models meet.
* `CampaignInvariance`: The inductive invariant CampaignInv - rows and the next task; manifest, summary and exit code phase by phase - holds of every reachable state of Campaign.
* `CampaignTypeCorrect`: Every variable of Campaign keeps its type for any number of tasks and repetitions; no task leaves more than two rows.
* `ManifestTrue`: A manifest that says how the campaign ended is right about all the planned tasks, however many there are.
* `CodesAgree`: An exit code that claims a finished campaign agrees with manifest, counts and summary.

### Planner_proofs

* `Invariance`: The inductive invariant IInv - the control threads assigned so far and what they leave of the pool - holds of every reachable state.
* `TypeCorrect`: Every variable keeps its type; every CPU assigned is usable.
* `CoresDistinct`: On every machine and for any number of GPUs, every task has a control thread per GPU, each on a physical core of its own.
* `PoolLessControl`: A task computes on its pool less the dedicated control cores with all their SMT siblings.
* `RefusalJustified`: The greedy search refuses a GPU set only if there are fewer usable cores than GPUs, and an empty pool only if it had no more cores than that.
* `LocalityKept`: A GPU is controlled from afar only if the GPUs before it took every selected core near it.

### EnergyMeter_proofs

* `Invariance`: The inductive invariant IInv - the order of the reads around the batch, where the samples lie - holds of every reachable state.
* `TypeCorrect`: Every variable keeps its type; the polling thread takes at most one sample per tick.
* `CpuTrue`: The CPU energy of a row is right to one unit of the counter, whatever its range and wherever it stood, if the batch consumed less than a range.
* `OnlyStraySamples`: stop raises of its own accord only if all samples of a GPU were taken after the end of the window.
* `ReadsInOrder`: The samples of every GPU are in the order of time, and the GPU counters are read before the batch is sent.
* `GpuTrue`: The energy of a GPU in a row lies between what its least and its greatest sample would give over the whole window, however many there are and wherever they lie; a counted GPU is charged at least the batch.

### Admission_proofs

* `Invariance`: The inductive invariant IInv - the budgets a task has passed, what its worker holds, what was seen of the machine's troubles - holds of every reachable state.
* `TypeCorrect`: Every variable keeps its type for every plan, machine and course of events.
* `WorkersFit`: For every task of the catalogue and all its parameters, a worker that was admitted takes no more memory than the estimate that calls itself exact or an upper bound, and than the budgets, the dynamic schedulers on data smaller than a chunk excepted.
* `OneVerdict`: Preflight and runner judge memory alike for every plan and machine, and a campaign left alone fails no task at a budget or at any of the three gates of heat and idleness, two of them passed with the task's own worker on the GPU.
* `NothingUnnoticed`: When the timing or the energy batch of a strict campaign starts, whatever was amiss ever since the worker finished what it did before could not be read, or is allowed.

### The arguments

*DynamicHybrid.* `ExactlyOneHolder` is not inductive: a claim is exclusive only
because a worker at the exchange still holds the chunk it computed from a cursor
value not above the current one (`ClaimInv`), because the range of every worker
lies below the cursor and is empty outside `reduce` unless the worker failed
(`RangeInv`), because each worker can be only at certain points (`PcInv`), and
because the GPU threads are where the phase of the calling thread allows
(`PhaseInv`, which contains `NoThreadOutlivesCall` and says that a merge starts
only after every thread has left its loop with the cursor at the end). `MergeInv`
relates the value being merged to the workers already merged; with it
`ResultExact` follows at `Return`: every element is below the cursor, so it has a
holder, no range is left, so the holder is a value, and exactly one. `IInv` is
the conjunction of these. TLC checks the properties on the instances above before
anything is proved about them. `CapacityKept` has the hypothesis
`ChunkBoundsOrdered`, which the planner does not always guarantee: without it the
run `ChunkBounds` refutes the conclusion.

*StaticPartition.* The ranges are laid out by a running sum, `Before`, which is a recursive
function over the engines. The provers cannot apply the library's induction, so it is done by
hand: a set of naturals without a least element is empty (`LeastElement`), hence a
set that contains 0 and, with each number below a bound, the next, contains all up to it (`UpTo`).
So `Before` exists and is monotonic, shares that add up to the dataset tile it
(`LaidOutTiles`), and those of every partition do (`EqualTotal` and the lemmas after it).
`PlanInv` carries this through calibration to the calls, where `IInv` - the phase of the
calling thread, what each thread's result holds, what was merged - gives
`ThreadsJoined` and, with each step, one of `ParallelReduction` or a stutter.

*FilePipeline.* No arithmetic of slot numbers is needed: `Shared` says that some
assignment of sets to slots exists such that each pending slot `Carries` its set -
in the staging buffer, the device buffer or a scalar, according to the operations its
stream has left - and that the sets and what is merged partition what was read.

*GpuPipeline.* `ChunkIntegrity` speaks of buffers while operations on them are
queued. `StreamInv` says of each stream that only the latest chunk given to it
(`Latest`) can be under way, which of its three operations are left, and what the
buffers hold at that point; a stream is given a chunk only after it was synchronised,
so the chunk before has none left. `ResultInv` says that
a slot whose chunk is through holds exactly that chunk's elements; the chunks
partition the input by `t \div ChunkCapacity`, and `ReturnsWhole` follows. The
number of chunks is never above what `setup_pipeline` allocated (arithmetic of
divisions rounded up).

*WorkerSession.* The properties speak of the end of a task, `SessionInv` of every step on
the way. `Protocol` says, for each place of the runner, how far the worker can be and
what is between them, where `Pipe` is what the runner has read ahead followed by
what the pipe still holds: nothing, one command, one event, or during DUMP as many results as the
worker is ahead of the runner's count, and `done` behind the last. `CmdInv` adds that an unread
command is one the next `getline` accepts even after the runner has given up, which is
`InStep`; `CountInv` that a verdict was given with all repetitions in the files, the
worker at its end and the meter closed; `ControlInv`, `RowInv`, `MeterInv` and `GoneInv`
follow the exception, the rows, the meter and the worker through the handlers and
`finally` clauses, up to where Ctrl-C `struck`. `OutcomeExpected` joins the two models of the
module: whatever a task leaves is something `Campaign` chooses from.

*DatasetCache.* `InodeInv`: while no temporary file was shared, an inode holds the
chunks up to its length, which is its writer's position, and has one writer. The
descriptors in use are fewer than the inodes, so a free one exists (by
cardinality). `AloneInv` follows a campaign that has the cache to itself from step to step.

*Campaign.* `RowsInv` bounds the rows by the next task, `PhaseInv` says who may
have stopped early, `ManifestInv` and `ExitInv` what the files and the code owe to the rows at
each phase. Of `run_task` only the shape of `Outcomes` is used.

*Planner.* `Sound` says of the control threads assigned so far that their cores
are separate and that each is local unless earlier ones took all local cores. A refusal
means that every usable core is taken by the ones before, so the greedy search never fails
where another order would succeed (a bijection between threads and cores).

*EnergyMeter.* `BlockInv` orders what had been consumed at the reads of RAPL
and at the edges of the batch; `CpuTrue` is then the arithmetic of a counter
modulo its range. `PollInv` bounds the times of samples by the clock and the window,
`OrderInv` puts them in order. Both what `_integrate_samples` clips and its sum of trapezoids
are recursive functions over the samples, with induction as in `StaticPartition`
(`ClippedSound`, `AreaBetween`); the ends of the window add the
first and the last sample (`IntegralBetween`), and `GpuTrue` follows because `stop`
has raised if nothing was clipped.

*Admission.* `AcceptedInv` and `TaskInv` carry the verdict of the preflight to the gates of the
runner, whose comparison without division is shown equivalent to the
preflight's with division; `EstimateCovers` goes through the catalogue, scheduler by
scheduler, and needs its rules (`Catalogued`: only pipelines have chunk elements, dynamic
schedulers are synchronous). `QuietInv` relates what was amiss at a gate to what was
amiss before and after it; one lemma about the guard and one about the idleness gate
(`WorkerWaitInv`, `WorkerIdleInv`) serve both places where the worker is there, and `LeftAlone`
shows that all three gates open on a machine left alone, the worker's pid being allowed.

Only model-checked: the liveness properties `CallEnds`, `TaskEnds`, `PollerEnds` and
`WaitEnds`, because fairness and `ENABLED` are out of the prover's reach, and the two runs
that expect a violation. The proofs rely on no axiom; the constants' assumptions are the
`ASSUME`s of the modules, all of them shapes (positive counts, subsets) except the rules of the
catalogue in `Admission`, and the hypotheses a theorem states itself
(`ChunkBoundsOrdered` in `CapacityKept`, equal repetition counts in `OutcomeExpected`).

## What is not modelled

Loss of power: a rename that outlives the data it names (nothing is `fsync`ed).
I/O of discovery (topology's probes, build, manifest, telemetry), configuration parsing,
floating-point tolerances of the validator, the kernels' arithmetic, metrics and
everything printed. Throughput estimates and linear models are inputs: any value
the code could compute. Preflight findings that only warn; free memory that
changes after discovery (the code does not look again). `WorkerSession` lets a
gate raise at any time, `Admission` says when it does.

## Plan

Done: 1. `ParallelReduction`, `DynamicHybrid` with proofs; 2. `GpuPipeline`;
3. `WorkerProcess`, `WorkerSession`; 4. `StaticPartition`;
5. `DatasetCache`; 6. `TaskOutcomes`, `Campaign`; 7. `Planner`; 8. `EnergyMeter`;
9. `Capacity`, `Admission`;
10. `FilePipeline`; 11. proofs about all of them.

Next, in this order:

1. The single-GPU memory paths of `integrated_strategy.cu` (managed, mapped, graphs,
   chunked) as strategies that implement `ParallelReduction`.
2. `AtomicOrdered`: the compare-and-swap loops for floating-point min and max on
   the device; `BlockReduce`: the shared-memory tree and the two-pass kernel,
   against a fold.
3. A theorem that the GPU step of `StaticPartition`, for a file, is what `FilePipeline`
   does, by composing the two refinements.
