\* Every fault of the worker and of the runner, and Ctrl-C up to twice,
\* anywhere; a pipe of two lines, so that the worker can block on it and the runner
\* read ahead. A worker that hangs may stop the system.
CONSTANTS
  Repetitions = 3
  PipeSize = 2
  WorkerFaults <- AllFaults
  Modes <- AllModes
  RunnerFaults <- AnyRunnerFault
  MaxInterrupts = 2
SPECIFICATION FairSpec
INVARIANTS InStep VerdictEarned RowPerTask OutcomeKnown WorkerReaped MeterReleased InterruptHeard
PROPERTIES TaskEnds
CHECK_DEADLOCK FALSE
