------------------------------ MODULE Planner ------------------------------
(***************************************************************************)
(* SweepPlanner (prbench/sweep.py) turns an experiment into tasks on the   *)
(* machine topology.py discovered: for every set of GPUs it resolves the   *)
(* pool of CPUs that compute and gives each GPU a CPU for the host thread  *)
(* that controls it, on a physical core no other GPU's thread has.  A      *)
(* dedicated control core leaves the pool, with its SMT siblings.          *)
(*                                                                         *)
(* One algorithm of one experiment group is planned; the loops over        *)
(* groups, datasets and operations repeat the same plan.  Lists of CPUs,   *)
(* which the code keeps in ascending order, are sets; so are the GPU sets  *)
(* and parameter combinations, whose order the plan shuffles.              *)
(***************************************************************************)
EXTENDS Integers, Sequences, FiniteSets

CONSTANTS
  Cpus,      \* ids the system may give a logical CPU
  Gpus,      \* indices of the GPUs
  None,      \* Python's None
  Machines,  \* what discovery may find
  Requests,  \* experiment sections and algorithm definitions
  Blocks     \* measurement.blocks

\* A CPU is on one core - (socket, core id) in the code - and one NUMA node; only
\* online CPUs can be allowed.  numa and cpulist are what sysfs says of each
\* GPU, probe what the native worker says of each CPU (None: the probe failed).
ASSUME PlannerAssumption ==
  /\ Cpus \subseteq Nat
  /\ IsFiniteSet(Cpus) /\ IsFiniteSet(Gpus)
  /\ \A m \in Machines :
       /\ m.allowed \subseteq m.online /\ m.online \subseteq Cpus
       /\ \A g \in Gpus : m.cpulist[g] \subseteq Cpus

\* The mode is validated by models.py; an entry of gpu_sets is one of three words
\* or a list of integers, anything else is refused.
ASSUME RequestAssumption ==
  \A r \in Requests :
    /\ r.mode \in {"dedicated", "shared"}
    /\ \A raw \in r.gpuSets :
         raw.kind \in {"each", "pairs", "all"} \/ (raw.kind = "list" /\ raw.ids \in Seq(Int))

VARIABLES
  machine,   \* SystemTopologyModel
  request,   \* group.hardware, the request's params, the AlgorithmDefinition
  pc,        \* where the planner is
  left,      \* GPU sets not yet planned
  gpus,      \* the GPU set being planned
  pool,      \* cpu_pool, the CPUs selected to compute
  remaining, \* the pool less the dedicated cores
  bindings,  \* gpu_control_bindings so far, one per GPU of the set
  tasks,     \* base, the tasks of one block
  instances, \* the tasks of every block
  reason     \* why the experiment was refused

input  == <<machine, request>>
vars   == <<machine, request, pc, left, gpus, pool, remaining, bindings, tasks, instances, reason>>

-----------------------------------------------------------------------------
(* What discovery makes of the machine *)

\* psutil.cpu_count counts the CPUs that are online, and the ids below that
\* count are looked at: with offline CPUs among them, higher ids are not.
Known == {c \in Cpus : c < Cardinality(machine.online)}

Usable == Known \cap machine.allowed

Core(c) == machine.core[c]
Node(c) == machine.node[c]

\* _discover_gpus: without a PCI list, the CPUs of the GPU's NUMA node.
LocalCpus(g) ==
  IF machine.cpulist[g] = {} /\ machine.numa[g] # None
  THEN {c \in Known : Node(c) = machine.numa[g]}
  ELSE machine.cpulist[g]

\* A failed probe leaves every class unknown.
CoreClass(c) == IF machine.probe = None THEN "unknown" ELSE machine.probe[c]

Least(S) == CHOOSE c \in S : \A d \in S : c <= d

\* choose_one_thread_per_core
OnePerCore(S) == {c \in S : \A d \in S : Core(d) = Core(c) => c <= d}

OnNode(hw)     == {c \in Usable \cap machine.online : hw.node \in {None, Node(c)}}
Candidates(hw) == {c \in OnNode(hw) : hw.class \in {"all", CoreClass(c)}}

\* resolve_cpu_pool: the CPUs, or an error.
PoolError(hw) ==
  IF hw.explicit # None
  THEN ~ (hw.explicit \subseteq Usable \cap machine.online)
  ELSE \/ hw.node # None /\ OnNode(hw) = {}
       \/ hw.class # "all" /\ Candidates(hw) = {}

CpuPool(hw) ==
  IF hw.explicit # None THEN hw.explicit
  ELSE IF hw.policy = "one_thread_per_core" THEN OnePerCore(Candidates(hw))
  ELSE Candidates(hw)

-----------------------------------------------------------------------------
(* GPU sets and parameters *)

Algo  == request.algorithm
Ids   == [1 .. Cardinality(Gpus) -> Gpus]
Each  == {<<g>> : g \in Gpus}
Pairs == {<<g, h>> : g, h \in Gpus}
Whole == {s \in Ids : \A i, j \in DOMAIN s : i < j => s[i] < s[j]}

\* One entry of gpu_sets; an integer is a list of one.
Expansion(raw) ==
  CASE raw.kind = "each"  -> Each
    [] raw.kind = "pairs" -> {s \in Pairs : s[1] < s[2]}
    [] raw.kind = "all"   -> IF Algo.multi THEN Whole ELSE Each
    [] raw.kind = "list"  -> {raw.ids}

Resolved == UNION {Expansion(raw) : raw \in request.gpuSets}

Enough(s) == Len(s) >= Algo.minGpus

SetsError ==
  \/ \E raw \in request.gpuSets : raw.kind = "pairs" /\ ~ Algo.multi
  \/ \E s \in Resolved : \E i \in DOMAIN s : s[i] \notin Gpus
  \/ \E s \in Resolved : Enough(s) /\ ~ Algo.multi /\ Len(s) # 1

\* Of a machine without GPUs nothing is asked.  A set that is too small is
\* skipped without a word.
GpuSets ==
  IF ~ Algo.gpu THEN {<<>>}
  ELSE IF Gpus = {} THEN {}
  ELSE {s \in Resolved : Enough(s)}

GpuSetsRefused == Algo.gpu /\ Gpus # {} /\ SetsError

\* _expand_params: the product of the values, less the combinations that
\* contradict themselves.
Combinations(params) ==
  {c \in [DOMAIN params -> UNION {params[k] : k \in DOMAIN params}] :
     \A k \in DOMAIN params : c[k] \in params[k]}

Contradicts(c, small, large) ==
  {small, large} \subseteq DOMAIN c /\ c[small] > c[large]

ValidParams ==
  {c \in Combinations(request.params) :
     /\ ~ Contradicts(c, "min_chunk_size", "max_chunk_size")
     /\ ~ Contradicts(c, "pipeline_streams", "pipeline_chunks")}

-----------------------------------------------------------------------------
Init ==
  /\ machine \in Machines
  /\ request \in Requests
  /\ pc = "resolve"
  /\ left = {}
  /\ gpus = <<>>
  /\ pool = {} /\ remaining = {}
  /\ bindings = <<>>
  /\ tasks = {}
  /\ instances = {}
  /\ reason = "none"

Refuse(why) ==
  /\ pc' = "refused"
  /\ reason' = why
  /\ UNCHANGED <<machine, request, left, gpus, pool, remaining, bindings, tasks, instances>>

\* _plan_group up to the loop over GPU sets.
Resolve ==
  /\ pc = "resolve"
  /\ IF GpuSetsRefused THEN Refuse("gpu_sets")
     ELSE IF ValidParams = {} THEN Refuse("params")
     ELSE /\ left' = GpuSets
          /\ pc' = "next_set"
          /\ UNCHANGED <<machine, request, gpus, pool, remaining, bindings, tasks, instances, reason>>

\* The next GPU set and the CPU pool it is planned with.
TakeSet ==
  /\ pc = "next_set"
  /\ \E s \in left :
       IF PoolError(request.hw) THEN Refuse("pool")
       ELSE /\ left' = left \ {s}
            /\ gpus' = s
            /\ pool' = CpuPool(request.hw)
            /\ remaining' = CpuPool(request.hw)
            /\ bindings' = <<>>
            /\ pc' = "assign"
            /\ UNCHANGED <<machine, request, tasks, instances, reason>>

Taken == {Core(bindings[i].cpu) : i \in DOMAIN bindings}

\* (Mutant: used_control_cores not consulted but by CPU id.)
FreeById(S) == {c \in S \cap Usable : \A i \in DOMAIN bindings : bindings[i].cpu # c}

Free(S) == {c \in S \cap Usable : Core(c) \notin Taken}

NumaLocal(g) == {c \in Usable : machine.numa[g] # None /\ Node(c) = machine.numa[g]}

\* The places a control CPU is looked for, best first.
Tiers == <<"pci_local_selected", "numa_local_selected", "selected_pool",
           "pci_local_fallback", "numa_local_fallback", "global_fallback">>

\* (Mutant: the GPU's own CPUs before the selected ones.)
FallbackFirst(tier, g) ==
  CASE tier = 1 -> LocalCpus(g)
    [] tier = 2 -> NumaLocal(g)
    [] OTHER    -> pool \cup machine.allowed

\* (Mutant: the search ends with the CPUs local to the GPU.)
NoGlobalTier(tier, g) ==
  CASE tier = 1 -> LocalCpus(g) \cap pool
    [] tier = 2 -> NumaLocal(g) \cap pool
    [] tier = 3 -> pool
    [] tier = 4 -> LocalCpus(g)
    [] OTHER    -> NumaLocal(g)

TierCpus(tier, g) ==
  CASE tier = 1 -> LocalCpus(g) \cap pool
    [] tier = 2 -> NumaLocal(g) \cap pool
    [] tier = 3 -> pool
    [] tier = 4 -> LocalCpus(g)
    [] tier = 5 -> NumaLocal(g)
    [] tier = 6 -> machine.allowed

\* (Mutant: the chosen CPU leaves the pool without its siblings.)
WithoutCpu(c) == IF request.mode = "dedicated" THEN remaining \ {c} ELSE remaining

Without(c) ==
  IF request.mode = "dedicated" THEN {d \in remaining : Core(d) # Core(c)} ELSE remaining

NextGpu == gpus[Len(bindings) + 1]

OpenTiers == {t \in DOMAIN Tiers : Free(TierCpus(t, NextGpu)) # {}}

\* _assign_gpu_control_cpus, one GPU: the first free CPU of the best tier that
\* has one.
Assign ==
  /\ pc = "assign"
  /\ Len(bindings) < Len(gpus)
  /\ OpenTiers # {}
  /\ LET tier == Least(OpenTiers)
         c    == Least(Free(TierCpus(tier, NextGpu)))
     IN /\ bindings' = Append(bindings, [gpu |-> NextGpu, cpu |-> c, locality |-> Tiers[tier]])
        /\ remaining' = Without(c)
  /\ UNCHANGED <<machine, request, pc, left, gpus, pool, tasks, instances, reason>>

AssignFails ==
  /\ pc = "assign"
  /\ Len(bindings) < Len(gpus)
  /\ OpenTiers = {}
  /\ Refuse("cores")

\* The tasks of the GPU set, one per valid combination of parameters.
Emit ==
  /\ pc = "assign"
  /\ Len(bindings) = Len(gpus)
  /\ IF Algo.cpu /\ remaining = {} THEN Refuse("no_cpu")
     ELSE /\ tasks' = tasks \cup
               {[gpus |-> gpus, params |-> p, bindings |-> bindings,
                 affinity |-> IF Algo.cpu THEN remaining ELSE {}] : p \in ValidParams}
          /\ pc' = "next_set"
          /\ UNCHANGED <<machine, request, left, gpus, pool, remaining, bindings, instances, reason>>

\* plan: every block holds a copy of each task, shuffled.
Clone ==
  /\ pc = "next_set"
  /\ left = {}
  /\ instances' = [task : tasks, block : 0 .. Blocks - 1]
  /\ pc' = "planned"
  /\ UNCHANGED <<machine, request, left, gpus, pool, remaining, bindings, tasks, reason>>

Finished == pc \in {"planned", "refused"} /\ UNCHANGED vars

Next == Resolve \/ TakeSet \/ Assign \/ AssignFails \/ Emit \/ Clone \/ Finished

Spec == Init /\ [][Next]_vars

-----------------------------------------------------------------------------
(* Properties *)

CoresOf(bs) == {Core(bs[i].cpu) : i \in DOMAIN bs}

\* The first n bindings.
Earlier(bs, n) == SubSeq(bs, 1, n)

Binding == [gpu : Gpus, cpu : Usable, locality : {Tiers[t] : t \in DOMAIN Tiers}]

TypeOK ==
  /\ machine \in Machines /\ request \in Requests
  /\ pc \in {"resolve", "next_set", "assign", "planned", "refused"}
  /\ gpus \in Seq(Gpus)
  /\ \A s \in left : s \in Seq(Gpus)
  /\ pool \subseteq Usable /\ remaining \subseteq pool
  /\ bindings \in Seq(Binding) /\ Len(bindings) <= Len(gpus)
  /\ \A t \in tasks :
       /\ t.gpus \in Seq(Gpus) /\ t.bindings \in Seq(Binding)
       /\ t.affinity \subseteq CpuPool(request.hw)
       /\ t.params \in ValidParams
  /\ \A i \in instances : i.task \in tasks
  /\ reason \in {"none", "gpu_sets", "params", "pool", "cores", "no_cpu"}

Separate(bs) ==
  \A i, j \in DOMAIN bs : Core(bs[i].cpu) = Core(bs[j].cpu) => i = j

\* In every task the host threads of its GPUs run on physical cores of their
\* own, whatever locality, SMT siblings and a GPU named twice made of the search.
ControlCoresDistinct ==
  /\ TypeOK
  /\ \A t \in tasks :
       /\ Len(t.bindings) = Len(t.gpus)
       /\ \A i \in DOMAIN t.gpus : t.bindings[i].gpu = t.gpus[i]
       /\ Separate(t.bindings)

\* A task computes on the whole of its pool and, in dedicated mode, on no thread
\* of a core that controls a GPU; nothing else is taken from the pool, and a
\* task whose algorithm needs the CPU keeps one.
ComputeCoresFree ==
  \A t \in tasks : Algo.cpu =>
    /\ t.affinity # {}
    /\ t.affinity =
         {c \in CpuPool(request.hw) :
            request.mode = "dedicated" => Core(c) \notin CoresOf(t.bindings)}

\* The greedy search gives up only if there are not enough cores, however the
\* earlier GPUs chose theirs; and a pool is used up only by as many GPUs as it
\* has cores.
RefusedOnlyIfShort ==
  /\ reason = "cores" => Cardinality({Core(c) : c \in Usable}) < Len(gpus)
  /\ reason = "no_cpu" => Cardinality({Core(c) : c \in pool}) <= Len(gpus)

\* A GPU is controlled from a core that is not local to it, or not selected,
\* only if earlier GPUs have all those that are.  So a task that computes on the
\* CPU with dedicated cores takes none from outside its pool: the pool would
\* have been used up first.
LocalFirst ==
  \A t \in tasks : \A i \in DOMAIN t.bindings :
    LET g == t.gpus[i]
        c == t.bindings[i].cpu
        best == LocalCpus(g) \cap CpuPool(request.hw)
    IN /\ c \notin best =>
            \A d \in best : Core(d) \in CoresOf(Earlier(t.bindings, i - 1))
       /\ Algo.cpu /\ request.mode = "dedicated" => c \in CpuPool(request.hw)
=============================================================================
