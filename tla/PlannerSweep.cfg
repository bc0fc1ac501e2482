\* Two GPUs in every place, every pool, mode and kind of algorithm; three control
\* threads for two or three cores.
CONSTANTS
  None = None
  Cpus <- AllCpus
  Gpus = {0, 1}
  Machines <- MCMachines
  Requests <- MCRequests
  Blocks = 2
SPECIFICATION Spec
INVARIANTS ControlCoresDistinct ComputeCoresFree RefusedOnlyIfShort LocalFirst
