\* Every memory behaviour with every budget on a machine left alone, and one task
\* of two GPUs under up to two changes of the machine around it.
CONSTANTS
  Cpu = Cpu
  Scenarios <- MCScenarios
  MaxChanges = 2
SPECIFICATION FairSpec
INVARIANTS AdmittedFits VerdictsAgree QuietWhenMeasured
PROPERTIES WaitEnds
