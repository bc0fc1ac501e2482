\* A worker that hangs.  The runner then waits for ever: there is no next step.
CONSTANTS
  Repetitions = 1
  PipeSize = 1
  WorkerFaults <- Hangs
  Modes <- Plain
  RunnerFaults <- None
  MaxInterrupts = 0
SPECIFICATION FairSpec
PROPERTIES SilenceTimesOut
CHECK_DEADLOCK FALSE
