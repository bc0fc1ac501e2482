\* All strategies, profiled or not, in memory or from a file, with two GPUs: three engines share 5 elements
\* when the CPU is one of them, two otherwise; every fault.
CONSTANTS
  N = 5
  G = 2
  Candidates <- SomeCandidates
  Samples = 4
  Capacities <- SomeCapacities
  Replicas = 2
  Faults <- AllFaults
  MaxCalls = 2
SPECIFICATION FairSpec
INVARIANTS RangesTile
PROPERTIES CallEnds ImplementsReduction
