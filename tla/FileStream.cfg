\* One, two and three slots; four chunks, the last one short; two rounds in each
\* of two calls, so that slots are reused within and between rounds; every fault.
CONSTANTS
  N = 7
  Capacity = 2
  SlotCounts = {1, 2, 3}
  ReuseCount = 2
  Faults <- AllFaults
  None = None
  MaxRanges = 2
SPECIFICATION FileSpec
PROPERTIES ImplementsReduction
