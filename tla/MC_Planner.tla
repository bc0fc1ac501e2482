----------------------------- MODULE MC_Planner -----------------------------
(* Machines and requests for TLC: two cores with SMT siblings on node 0, one
   single-threaded core on node 1, two GPUs. *)
EXTENDS Planner

AllCpus == 0 .. 4
CoreOf  == [c \in AllCpus |-> IF c = 4 THEN "C" ELSE IF c < 2 THEN "A" ELSE "B"]
NodeOf  == [c \in AllCpus |-> IF c = 4 THEN 1 ELSE 0]
ClassOf == [c \in AllCpus |-> IF c = 4 THEN "efficiency" ELSE "performance"]

\* Where a GPU is: nothing known, a node with or without a PCI list, a list that
\* crosses nodes.
Places == {[numa |-> None, list |-> {}], [numa |-> 0, list |-> {}],
           [numa |-> 1, list |-> {4}], [numa |-> None, list |-> {1, 2}]}

\* All CPUs online, or SMT siblings offline, and then some allowed.
Masks == {[online |-> AllCpus, allowed |-> a] : a \in {AllCpus, {0, 1, 4}, {1, 2, 3}, {2, 3}}}
    \cup {[online |-> {0, 2, 4}, allowed |-> a] : a \in {{0, 2, 4}, {4}}}

MCMachines ==
  {[core |-> CoreOf, node |-> NodeOf, online |-> m.online, allowed |-> m.allowed, probe |-> p,
    numa |-> [g \in Gpus |-> at[g].numa], cpulist |-> [g \in Gpus |-> at[g].list]] :
     m \in Masks, at \in [Gpus -> Places], p \in {None, ClassOf}}

Selection(class, policy, node) ==
  [class |-> class, policy |-> policy, node |-> node, explicit |-> None]

Sections ==
  {Selection("all", "one_thread_per_core", None), Selection("all", "all_threads", None),
   Selection("performance", "one_thread_per_core", None), Selection("all", "all_threads", 1),
   [Selection("all", "all_threads", None) EXCEPT !.explicit = {0, 1}],
   [Selection("all", "all_threads", None) EXCEPT !.explicit = {1, 4}]}

\* cpu_only, gpu_only, gpu_static_equal and the hybrids.
Algorithms ==
  {[cpu |-> c, gpu |-> ~ c, multi |-> FALSE, minGpus |-> 0] : c \in BOOLEAN}
  \cup {[cpu |-> c, gpu |-> TRUE, multi |-> TRUE, minGpus |-> IF c THEN 0 ELSE 2] : c \in BOOLEAN}

Word(k)    == [kind |-> k, ids |-> <<>>]
List(s)    == [kind |-> "list", ids |-> s]
GpuChoices ==
  {{Word("each"), Word("all")}, {Word("pairs")}, {List(<<0, 1, 0>>)}, {List(<<>>), List(<<1, 0>>)},
   {List(<<2>>)}}

Plain  == [block_size |-> {1}]
Sweeps == {Plain, [min_chunk_size |-> {1, 2}, max_chunk_size |-> {1, 2}],
           [pipeline_streams |-> {2}, pipeline_chunks |-> {1}]}

MCRequests ==
  {[hw |-> h, mode |-> m, algorithm |-> a, gpuSets |-> s, params |-> p] :
     h \in Sections, m \in {"dedicated", "shared"}, a \in Algorithms, s \in GpuChoices, p \in {Plain}}
  \cup
  {[hw |-> Selection("all", "all_threads", None), mode |-> "shared", algorithm |-> a,
    gpuSets |-> {Word("each")}, params |-> p] : a \in Algorithms, p \in Sweeps}
=============================================================================
