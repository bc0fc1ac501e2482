\* dynamic_adaptive: chunks of one or two out of three elements and calibration
\* samples of two, two GPUs, two replicas, every fault, two calls,
\* which end under the fairness of threads and of compare-and-swap.
CONSTANTS
  N = 3
  G = 2
  Kind = "DynamicAdaptive"
  ChunkSize = 1
  MinChunk = 1
  MaxChunk = 2
  GuidedDenom = 3
  CalibrationTarget = 2
  Replicas = 2
  Faults <- AllFaults
  MaxCalls = 2
SPECIFICATION FairSpec
INVARIANTS CapacityContract ExactlyOneHolder ResultExact NoThreadOutlivesCall
PROPERTIES CallEnds QuiescentUpdates ImplementsReduction
