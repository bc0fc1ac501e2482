CONSTANTS
  N = 5
  G = 1
  Kind = "DynamicGuided"
  ChunkSize = 1
  MinChunk = 3
  MaxChunk = 2
  GuidedDenom = 2
  CalibrationTarget = 3
  Replicas = 1
  Faults <- NoFaults
  MaxCalls = 1
SPECIFICATION Spec
INVARIANTS CapacityContract
