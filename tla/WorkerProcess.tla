--------------------------- MODULE WorkerProcess ---------------------------
(***************************************************************************)
(* prbench-worker (main in native/src/main.cpp), the process that runs one *)
(* task: it prepares a strategy, answers a fixed script of commands read   *)
(* from stdin with one JSON line each on stdout, dumps one line for every  *)
(* timed repetition, and exits.  The two pipes are the only things it      *)
(* shares with the runner; a line is small enough to be written whole.     *)
(***************************************************************************)
EXTENDS Naturals, Sequences

CONSTANTS
  Repetitions,   \* the argument of TIMING, positive (models.py)
  PipeSize,      \* BOUND: lines that fit in the stdout pipe
  WorkerFaults   \* what may go wrong in the worker

ASSUME RepetitionsAssumption == Repetitions \in Nat \ {0}
ASSUME PipeAssumption == PipeSize \in Nat \ {0}
ASSUME WorkerFaultsAssumption ==
  WorkerFaults \subseteq {"unsupported", "throw", "crash", "hang", "wrong"}

VARIABLES
  wpc,       \* where the worker is
  dumped,    \* result lines written
  hung,      \* the worker makes no more progress of its own
  signal,    \* the strongest signal the runner sent it
  cmds,      \* stdin: commands written and not read
  events,    \* stdout: lines written and not read
  hungup     \* the runner's ends of both pipes are closed

workerVars == <<wpc, dumped, hung, signal, cmds, events, hungup>>

EventName == {"unsupported", "ready", "probe_done", "timing_done",
              "measure_done", "result", "done", "error"}

\* A line, and whether the value it carries passes the validator.
Event == [event : EventName, right : BOOLEAN]
Line(name) == [event |-> name, right |-> TRUE]

Gone == wpc \in {"off", "exited"}

\* What main accepts at each of its four calls of getline, and where it goes.
Script ==
  [first  |-> [PROBE |-> "probing", TIMING |-> "timing"],
   second |-> [TIMING |-> "timing"],
   third  |-> [ENERGY |-> "energy", DUMP |-> "dumping"],
   fourth |-> [DUMP |-> "dumping"]]

\* The batches of run_once: the line that ends each, and the next getline.
BatchDone == [probing |-> "probe_done", timing |-> "timing_done", energy |-> "measure_done"]
BatchNext == [probing |-> "second", timing |-> "third", energy |-> "fourth"]

Busy == {"starting"} \cup DOMAIN BatchNext

WorkerInit ==
  /\ wpc = "off"
  /\ dumped = 0
  /\ hung = FALSE
  /\ signal = "none"
  /\ cmds = <<>>
  /\ events = <<>>
  /\ hungup = FALSE

\* std::cout << ... << std::endl: waits for room in the pipe.
Emit(ev) ==
  /\ ~ hungup
  /\ Len(events) < PipeSize
  /\ events' = Append(events, ev)

\* Values a batch or a repetition may carry.
Values(name) == {Line(name)} \cup
  IF "wrong" \in WorkerFaults THEN {[event |-> name, right |-> FALSE]} ELSE {}

Steady == ~ hung /\ UNCHANGED <<hung, signal, hungup>>

\* Dataset, strategy and prepare, then "ready" -- or "unsupported" and the end.
GetReady ==
  /\ Steady
  /\ wpc = "starting"
  /\ \/ Emit(Line("ready")) /\ wpc' = "first"
     \/ "unsupported" \in WorkerFaults /\ Emit(Line("unsupported")) /\ wpc' = "closing"
  /\ UNCHANGED <<dumped, cmds>>

\* getline and the test of the verb; any other verb is an error.
Obey ==
  /\ Steady
  /\ wpc \in DOMAIN Script
  /\ cmds # <<>>
  /\ cmds' = Tail(cmds)
  /\ wpc' = IF Head(cmds) \in DOMAIN Script[wpc] THEN Script[wpc][Head(cmds)] ELSE "erring"
  /\ UNCHANGED <<dumped, events>>

RunBatch ==
  /\ Steady
  /\ wpc \in DOMAIN BatchNext
  /\ \E ev \in IF wpc = "energy" THEN Values("measure_done") ELSE {Line(BatchDone[wpc])} : Emit(ev)
  /\ wpc' = BatchNext[wpc]
  /\ UNCHANGED <<dumped, cmds>>

MoreToDump == dumped < Repetitions

Dump ==
  /\ Steady
  /\ wpc = "dumping"
  /\ IF MoreToDump
     THEN /\ \E ev \in Values("result") : Emit(ev)
          /\ dumped' = dumped + 1
          /\ UNCHANGED wpc
     ELSE /\ Emit(Line("done"))
          /\ wpc' = "closing"
          /\ UNCHANGED dumped
  /\ UNCHANGED cmds

\* An exception reaches main's handler, which reports it and returns 1.
Throw ==
  /\ Steady
  /\ "throw" \in WorkerFaults
  /\ wpc \in Busy
  /\ wpc' = "erring"
  /\ UNCHANGED <<dumped, cmds, events>>

Report ==
  /\ Steady
  /\ wpc = "erring"
  /\ Emit(Line("error"))
  /\ wpc' = "closing"
  /\ UNCHANGED <<dumped, cmds>>

\* Destructors, then the process is gone.
Close ==
  /\ Steady
  /\ wpc = "closing"
  /\ wpc' = "exited"
  /\ UNCHANGED <<dumped, cmds, events>>

\* A signal of its own making, or std::terminate: no line is written.
Crash ==
  /\ "crash" \in WorkerFaults
  /\ ~ Gone
  /\ wpc' = "exited"
  /\ UNCHANGED <<dumped, hung, signal, cmds, events, hungup>>

\* A kernel that never ends, a driver call that never returns.
Hang ==
  /\ "hang" \in WorkerFaults
  /\ ~ hung
  /\ wpc \in Busy \cup {"closing"}
  /\ hung' = TRUE
  /\ UNCHANGED <<wpc, dumped, signal, cmds, events, hungup>>

\* SIGTERM and SIGKILL both end it: the worker installs no handler.
DieOfSignal ==
  /\ signal # "none"
  /\ ~ Gone
  /\ wpc' = "exited"
  /\ UNCHANGED <<dumped, hung, signal, cmds, events, hungup>>

\* Its peer has closed the pipes: getline fails or SIGPIPE is delivered.
LosePeer ==
  /\ hungup
  /\ ~ Gone
  /\ ~ hung
  /\ wpc' = "exited"
  /\ UNCHANGED <<dumped, hung, signal, cmds, events, hungup>>

WorkerProgress == GetReady \/ Obey \/ RunBatch \/ Dump \/ Report \/ Close \/ DieOfSignal \/ LosePeer
=============================================================================
