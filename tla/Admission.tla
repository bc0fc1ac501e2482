----------------------------- MODULE Admission -----------------------------
(***************************************************************************)
(* What stands between a plan and a measurement: the preflight of a        *)
(* campaign (_evaluate_preflight, prbench/cli.py), and the gates each task *)
(* passes later (run_task and _run_worker, prbench/runner.py): memory      *)
(* budgets before its worker is started, and ThermalGuard with the strict  *)
(* idleness gate three times - before the worker is started, before its    *)
(* timing batch and before its energy batch, if there is one.  Meanwhile   *)
(* the machine gets hot or is used by others.                              *)
(*                                                                         *)
(* A trouble <<kind, place>> is present or not: "hot" of a GPU or the CPU, *)
(* "busy" of the CPU, a "compute" or "graphics" process on a GPU, "blind": *)
(* temperature and process lists cannot be read, "lost": the GPU has no    *)
(* handle any more.  The worker's own failures are WorkerSession's.        *)
(***************************************************************************)
EXTENDS Capacity, Sequences, FiniteSetsExt

CONSTANTS
  Cpu,        \* the place that is not a GPU
  Scenarios,  \* the machine, the configuration, the plan, the troubles there may be
  MaxChanges  \* BOUND: troubles that come or go

ASSUME AdmissionAssumption ==
  /\ MaxChanges \in Nat
  /\ \A s \in Scenarios :
       /\ s.plan # <<>> /\ s.plan \in Seq({s.plan[i] : i \in DOMAIN s.plan})
       /\ s.config.timeout \in Nat
       /\ {s.machine.ram, s.machine.maxReplicas} \subseteq Nat \ {0}
       /\ {s.machine.ramPercent, s.machine.vramPercent, s.machine.target} \subseteq Nat
       /\ \A i \in DOMAIN s.plan :
            /\ Catalogued(s.plan[i])
            /\ \A g \in s.plan[i].gpus : s.machine.nvml \* only NVML finds GPUs
                                         /\ s.machine.free[g] \in Nat

VARIABLES
  scenario, \* chosen once
  cached,   \* datasets in the cache
  amiss,    \* the troubles there are
  changes,  \* how often they changed
  pc,       \* where cmd_run, run_task or _run_worker is
  index,    \* task instance
  fatal,    \* what the preflight found
  waited,   \* sleeps of the thermal guard
  held,     \* input memory of the worker: a GPU's and the host's
  always,   \* troubles there all the time since the worker last finished something:
            \* its warm-up and probe, or its timing batch
  ever,     \* troubles there at any time since
  failed    \* tasks that failed, and why

world == <<amiss, changes, always, ever>>
vars  == <<scenario, cached, world, pc, index, fatal, waited, held, failed>>

Config  == scenario.config
Machine == scenario.machine
Plan    == scenario.plan
Planned == {Plan[i] : i \in DOMAIN Plan}
Task    == Plan[index]
GpuIds  == UNION {t.gpus : t \in Planned}
Sizes   == {t.size : t \in Planned}

There(kind, place) == <<kind, place>> \in amiss

-----------------------------------------------------------------------------
(* The preflight *)

\* _gpu_processes stops at the first GPU without a handle.
Listed == {g \in GpuIds : Machine.nvml /\ \A h \in GpuIds : h <= g => ~ There("lost", h)}

Seen(kind) == \E g \in Listed : There(kind, g) /\ ~ There("blind", g)

\* (Mutant: the first task of a dataset decides for all of them.)
FirstNeedsHost(size) ==
  LET first == CHOOSE i \in DOMAIN Plan : /\ Plan[i].size = size
                                          /\ \A j \in DOMAIN Plan : Plan[j].size = size => i <= j
  IN Plan[first].storage = "host_resident"

NeedsHost(size) == \E t \in Planned : t.size = size /\ t.storage = "host_resident"

\* One check per dataset: what the worker would keep resident.
RamLimit == (Machine.ram * Machine.ramPercent) \div 100
TooBig   == {size \in Sizes : NeedsHost(size) /\ Resident(Machine, size) > RamLimit}

Missing == SumSet(Sizes \ cached)
Growth  == (Machine.disk * Machine.diskPercent) \div 100

\* One check per task and GPU; only an exact estimate is fatal.
Overcommitted == {t \in Planned : Estimate(t).kind = "exact" /\ OverVram(Machine, t) # {}}

Reasons == {"masked", "rapl", "nvml", "power", "compute", "graphics", "load", "dirty",
            "classes", "ram", "storage", "vram"}

\* _evaluate_preflight: everything that is fatal.  "classes": the plan asks for
\* P- or E-cores and they cannot be told apart.
Fatal ==
  {r \in Reasons :
     \/ r = "masked"   /\ Machine.masked
     \/ r = "rapl"     /\ Config.cpuEnergy /\ ~ Machine.rapl
     \/ r = "nvml"     /\ Config.gpuEnergy /\ GpuIds # {} /\ ~ Machine.nvml
     \/ r = "power"    /\ Config.strict /\ Config.gpuEnergy /\ ~ (GpuIds \subseteq Machine.powered)
     \/ r = "compute"  /\ Seen("compute")
     \/ r = "graphics" /\ Config.strict /\ ~ Config.graphics /\ Seen("graphics")
     \/ r = "load"     /\ Config.strict /\ There("busy", Cpu)
     \/ r = "dirty"    /\ Config.strict /\ Machine.dirty
     \/ r = "classes"  /\ Machine.unclassified
     \/ r = "ram"      /\ TooBig # {}
     \/ r = "storage"  /\ Missing > Growth
     \/ r = "vram"     /\ Overcommitted # {}}

-----------------------------------------------------------------------------
Init ==
  /\ scenario \in Scenarios
  /\ cached \in SUBSET Sizes
  /\ amiss \in SUBSET scenario.troubles /\ Cardinality(amiss) <= 1
  /\ changes = 0
  /\ pc = "preflight" /\ index = 0
  /\ fatal = {}
  /\ waited = 0
  /\ held = [gpu |-> 0, at |-> Cpu, host |-> 0]
  /\ always = {} /\ ever = {}
  /\ failed = {}

\* The machine changes under the campaign.
Change ==
  /\ pc \notin {"refused", "done"}
  /\ changes < MaxChanges
  /\ changes' = changes + 1
  /\ \E x \in scenario.troubles :
       amiss' = IF x \in amiss THEN amiss \ {x} ELSE amiss \cup {x}
  /\ always' = always \cap amiss'
  /\ ever' = ever \cup amiss'
  /\ UNCHANGED <<scenario, cached, pc, index, fatal, waited, held, failed>>

At(p)   == pc = p /\ UNCHANGED <<scenario, amiss, changes>>
Goto(p) == pc' = p /\ UNCHANGED failed

\* An exception of the task: one row, and the campaign goes on.
Fail(why) ==
  /\ pc' = "next"
  /\ failed' = failed \cup {<<index, why>>}

Preflight ==
  /\ At("preflight")
  /\ fatal' = Fatal
  /\ Goto(IF Fatal = {} THEN "datasets" ELSE "refused")
  /\ UNCHANGED <<cached, index, waited, held, always, ever>>

\* cmd_run generates what is missing before the first task.
PrepareDatasets ==
  /\ At("datasets")
  /\ cached' = Sizes
  /\ Goto("next")
  /\ UNCHANGED <<index, fatal, waited, held, always, ever>>

NextTask ==
  /\ At("next")
  /\ held' = [gpu |-> 0, at |-> Cpu, host |-> 0]
  /\ always' = {} /\ ever' = {}
  /\ IF index < Len(Plan) THEN index' = index + 1 /\ Goto("spec")
     ELSE Goto("done") /\ UNCHANGED index
  /\ UNCHANGED <<cached, fatal, waited>>

Gate(p) == At(p) /\ UNCHANGED <<cached, index, fatal, held, always, ever>>

\* The fraction of the memory is compared, not the number of bytes.
OverRam(t) ==
  /\ t.storage = "host_resident"
  /\ Resident(Machine, t.size) * 100 > Machine.ramPercent * Greater(1, Machine.ram)

\* _validate_dataset_spec_memory_budget
CheckSpec ==
  /\ Gate("spec")
  /\ IF OverRam(Task) THEN Fail("ram") ELSE Goto("vram")
  /\ UNCHANGED waited

OverExactVram(t) == Estimate(t).kind = "exact" /\ OverVram(Machine, t) # {}

\* _validate_exact_gpu_memory_budget
CheckGpu ==
  /\ Gate("vram")
  /\ IF OverExactVram(Task) THEN Fail("vram") ELSE Goto("artifact")
  /\ UNCHANGED waited

\* get_or_create returns what PrepareDatasets made; its size is checked again.
CheckArtifact ==
  /\ Gate("artifact")
  /\ IF OverRam(Task) THEN Fail("ram") ELSE Goto("thermal")
  /\ waited' = 0

\* A temperature that cannot be read is taken for safe; a GPU that cannot be
\* read makes it so for all of them.
CpuSafe == There("hot", Cpu) => There("blind", Cpu)
GpuSafe ==
  \/ ~ Machine.nvml
  \/ \E g \in Task.gpus : There("blind", g) \/ There("lost", g)
  \/ \A g \in Task.gpus : ~ There("hot", g)

Expired == waited >= Config.timeout

\* (Mutant: the deadline set anew in every round.)
SleepAnew == waited' = 0
Sleep     == waited' = waited + 1

\* ThermalGuard.wait_until_safe; the timeout is counted in sleeps.
WaitUntilSafe(p, safe) ==
  /\ Gate(p)
  /\ IF Config.timeout = 0 \/ (CpuSafe /\ GpuSafe) THEN Goto(safe) /\ UNCHANGED waited
     ELSE IF Expired THEN Fail("heat") /\ UNCHANGED waited
     ELSE pc' = p /\ Sleep /\ UNCHANGED failed

\* Processes on a GPU that a gate sees and that are not allowed.  The worker
\* is one itself, at the two gates it has been started for.
Worker == "worker"

Computing(g) ==
  {k \in {"compute"} : There(k, g)} \cup {k \in {Worker} : pc \in {"timing_idle", "energy_idle"}}

Intruders(g, allowed) ==
  IF There("blind", g) THEN {}
  ELSE (Computing(g) \ allowed) \cup {k \in {"graphics"} : There(k, g) /\ ~ Config.graphics}

\* (Mutant: no energy-phase check.)
OnceIdle(allowed) ==
  /\ Config.strict => \/ pc = "energy_idle" \/ ~ There("busy", Cpu)
  /\ Config.strict /\ Machine.nvml /\ pc # "energy_idle" =>
       \A g \in Task.gpus : ~ There("lost", g) /\ Intruders(g, allowed) = {}

\* _validate_runtime_idleness: whether it returns.
RuntimeIdle(allowed) ==
  /\ Config.strict => ~ There("busy", Cpu)
  /\ Config.strict /\ Machine.nvml =>
       \A g \in Task.gpus : ~ There("lost", g) /\ Intruders(g, allowed) = {}

ThermalWait == WaitUntilSafe("thermal", "idle")

StayIdle(p, allowed, next) ==
  /\ Gate(p)
  /\ IF RuntimeIdle(allowed) THEN Goto(next) ELSE Fail("idle")
  /\ UNCHANGED waited

Idle == StayIdle("idle", {}, "launch")

\* The worker loads the dataset, allocates, warms up and is probed, or does not
\* support the task.
Launch ==
  /\ At("launch")
  /\ IF Task.storage = "gds" THEN Goto("next") /\ UNCHANGED <<held, always, ever>>
     ELSE /\ Goto("timing_thermal")
          /\ always' = amiss /\ ever' = amiss
          /\ \/ Task.gpus = {} /\ held' = [gpu |-> 0, at |-> Cpu, host |-> HostInput(Machine, Task)]
             \/ \E g \in Task.gpus : \E input \in DeviceInputs(Task) :
                  held' = [gpu |-> input, at |-> g, host |-> HostInput(Machine, Task)]
  /\ waited' = 0
  /\ UNCHANGED <<cached, index, fatal>>

\* The gate of every task, whether or not its energy is measured.
TimingThermalWait == WaitUntilSafe("timing_thermal", "timing_idle")

\* (Mutant: a process of its own is foreign to the task.)
TimingIdleForeign == StayIdle("timing_idle", {}, "timing")
TimingIdle        == StayIdle("timing_idle", {Worker}, "timing")

EnergyEnabled == Config.cpuEnergy \/ (Config.gpuEnergy /\ Task.gpus # {})

\* The TIMING batch.
TimingDone ==
  /\ At("timing")
  /\ always' = amiss /\ ever' = amiss
  /\ waited' = 0
  /\ Goto(IF EnergyEnabled THEN "energy_thermal" ELSE "next")
  /\ UNCHANGED <<cached, index, fatal, held>>

EnergyThermalWait == WaitUntilSafe("energy_thermal", "energy_idle")

EnergyIdle == StayIdle("energy_idle", {Worker}, "measure")

\* The ENERGY batch and the rest of the task.
Measure ==
  /\ Gate("measure")
  /\ Goto("next")
  /\ UNCHANGED waited

Finished == pc \in {"refused", "done"} /\ UNCHANGED vars

Campaign ==
  \/ Preflight \/ PrepareDatasets \/ NextTask \/ CheckSpec \/ CheckGpu \/ CheckArtifact
  \/ ThermalWait \/ Idle \/ Launch \/ TimingThermalWait \/ TimingIdle \/ TimingDone
  \/ EnergyThermalWait \/ EnergyIdle \/ Measure

Next == Campaign \/ Change \/ Finished

Spec == Init /\ [][Next]_vars

\* The campaign runs on; nothing need change around it.
FairSpec == Spec /\ WF_vars(Campaign)

-----------------------------------------------------------------------------
(* Properties *)

TypeOK ==
  /\ cached \subseteq Sizes
  /\ amiss \subseteq scenario.troubles /\ changes \in 0 .. MaxChanges
  /\ pc \in {"preflight", "refused", "datasets", "next", "spec", "vram", "artifact", "thermal",
             "idle", "launch", "timing_thermal", "timing_idle", "timing", "energy_thermal",
             "energy_idle", "measure", "done"}
  /\ index \in 0 .. Len(Plan)
  /\ fatal \subseteq Reasons
  /\ waited \in 0 .. Config.timeout
  /\ always \subseteq amiss /\ always \subseteq ever
  /\ failed \subseteq (1 .. Len(Plan)) \X {"ram", "vram", "heat", "idle"}

Running  == pc \in {"timing_thermal", "timing_idle", "timing", "energy_thermal", "energy_idle",
                    "measure"}
Accepted == pc \notin {"preflight", "refused"}

\* A dynamic scheduler sizes its reducers for a whole chunk, even when the
\* dataset is smaller.
ChunkBeyondData(t) ==
  t.scheduler \in Dynamic /\ t.size < (IF t.scheduler = "dynamic_fixed" THEN t.chunk ELSE t.maxChunk)

\* A worker that runs fits: its input takes no more of a GPU than an estimate
\* that calls itself exact or an upper bound, so no more than the safe share of
\* what was free if exact, and on the host no more than the budget.  Only the
\* dynamic schedulers on small data take more than their "exact" estimate.
AdmittedFits ==
  /\ TypeOK
  /\ Running =>
       /\ held.host <= RamLimit
       /\ held.at \in Task.gpus /\ ~ ChunkBeyondData(Task) =>
            /\ Estimate(Task).kind \in {"exact", "upper_bound"} =>
                 held.gpu <= Estimate(Task).elements
            /\ Estimate(Task).kind = "exact" => held.gpu <= SafeVram(Machine, held.at)

\* Preflight and runner agree, though each has its own arithmetic: no task of an
\* accepted campaign fails at a memory budget, none fails at any of its gates
\* while the machine is left alone - with its own worker on the GPU at those
\* before its timing and its energy batch -, and a campaign is refused for memory
\* only if one of its tasks would be.
VerdictsAgree ==
  /\ \A f \in failed : f[2] \notin {"ram", "vram"}
  /\ changes = 0 /\ amiss = {} => failed = {}
  /\ "ram" \in fatal => \E t \in Planned : OverRam(t)
  /\ "vram" \in fatal => \E t \in Planned : OverExactVram(t)

\* When a strict campaign starts a timing or an energy batch, nothing that has
\* been amiss ever since the worker finished what it did before goes unnoticed,
\* but for what could not be read: the processes of a GPU that was blind, and
\* every GPU's temperature if one of the task's was blind or lost.
QuietWhenMeasured ==
  pc \in {"timing", "measure"} /\ Config.strict /\ Machine.nvml =>
    /\ <<"busy", Cpu>> \notin always
    /\ \A g \in Task.gpus :
         /\ <<"lost", g>> \notin always
         /\ <<"compute", g>> \in always => <<"blind", g>> \in ever
         /\ <<"graphics", g>> \in always => Config.graphics \/ <<"blind", g>> \in ever
         /\ <<"hot", g>> \in always =>
              Config.timeout = 0 \/ \E h \in Task.gpus : {<<"blind", h>>, <<"lost", h>>} \cap ever # {}
    /\ <<"hot", Cpu>> \in always => Config.timeout = 0 \/ <<"blind", Cpu>> \in ever

\* A machine that stays hot costs a task, never the campaign: each of the three
\* waits of the guard ends.
WaitEnds == \A p \in {"thermal", "timing_thermal", "energy_thermal"} : pc = p ~> pc # p
=============================================================================
