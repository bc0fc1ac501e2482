\* One GPU, with or without an energy counter, two ticks, two powers; the RAPL
\* counter wraps within the window or not at all, and every fault.
CONSTANTS
  None = None
  Gpus = {0}
  MaxRange = 3
  Powers = {1, 2}
  Offsets = {2}
  MaxTime = 2
  Faults <- AllFaults
SPECIFICATION FairSpec
INVARIANTS CpuEnergyTrue
PROPERTIES GpuEnergySound StopRaises PollerEnds
