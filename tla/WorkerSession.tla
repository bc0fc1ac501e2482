--------------------------- MODULE WorkerSession ---------------------------
(***************************************************************************)
(* One call of ExperimentRunner.run_task (prbench/runner.py) and the       *)
(* worker process it starts.  The runner walks the worker through its      *)
(* script, opens an energy meter around the ENERGY batch, appends rows to  *)
(* the results files as lines arrive, and whatever happens terminates the  *)
(* worker and records the task.  The worker may fail in every way, the     *)
(* gates, the meter and Popen may raise, and Ctrl-C may strike anywhere.   *)
(***************************************************************************)
EXTENDS WorkerProcess, FiniteSets, TaskOutcomes

CONSTANTS
  Modes,          \* the tasks: [auto, energy]
  RunnerFaults,   \* "gate": a guard, a check or Popen raises; "telemetry":
                  \* a snapshot cannot be taken or appended; "meter": NVML or
                  \* RAPL raises; "slow_exit": a signalled or finished worker
                  \* outlives the runner's patience
  MaxInterrupts   \* BOUND: Ctrl-C's

ASSUME ModeAssumption == Modes \subseteq [auto : BOOLEAN, energy : BOOLEAN]
ASSUME RunnerFaultsAssumption == RunnerFaults \subseteq {"gate", "telemetry", "meter", "slow_exit"}
ASSUME InterruptsAssumption == MaxInterrupts \in Nat

VARIABLES
  rpc,        \* where the runner is
  stage,      \* read_event: before select, or at readline
  buffered,   \* lines the text stream has read ahead
  exc,        \* the exception in flight, at "done" what run_task raised
  rows,       \* statuses appended to tasks.jsonl
  reps,       \* rows appended to repetitions.jsonl (repetitions_seen)
  batches,    \* rows appended to energy_batches.jsonl
  mismatch,   \* fatal_numerical_mismatch
  meter,      \* the CompositeEnergyMeter
  struck,     \* where Ctrl-C struck
  mode        \* what the task asks for

session == <<rows, reps, batches, mismatch>>
runnerVars == <<rpc, stage, buffered, exc, session, meter, struck, mode>>
vars == <<workerVars, runnerVars>>

\* timing_repetitions is "auto": PROBE first.  An energy meter is enabled.
AutoTiming == mode.auto
Energy == mode.energy

\* Reading an event: from where, what is expected.
Expected ==
  [ready   |-> {"ready", "unsupported"}, probe  |-> {"probe_done"},
   timing  |-> {"timing_done"},          energy |-> {"measure_done"},
   results |-> {"result", "done"}]
Awaiting == DOMAIN Expected

MeterBlock == {"opened", "send_energy", "energy", "stop_meter"}
CleanupPcs == {"cleanup", "wait_term", "wait_kill"}

\* Where an exception raised at p is caught: the energy block's finally, the
\* finally that stops the worker, the handlers of run_task, its caller.
\* (Mutant: no finally around the energy block.)
SkipsMeterFinally(p) ==
  CASE p \in {"entry", "spawned"} \cup CleanupPcs -> "handle"
    [] p \in {"called", "handle"} -> "done"
    [] OTHER -> "cleanup"

Catcher(p) ==
  CASE p \in MeterBlock -> "close_meter"
    [] p \in {"entry", "spawned"} \cup CleanupPcs -> "handle"
    [] p \in {"called", "handle"} -> "done"
    [] OTHER -> "cleanup"

Init ==
  /\ WorkerInit
  /\ rpc = "called"
  /\ stage = "select"
  /\ buffered = <<>>
  /\ exc = "none"
  /\ rows = <<>>
  /\ reps = 0
  /\ batches = 0
  /\ mismatch = FALSE
  /\ meter = "none"
  /\ struck = {}
  /\ mode \in Modes

\* The last reference to the Popen object goes with run_task's frame.
Goto(p) ==
  /\ rpc' = p
  /\ hungup' = (p = "done")

Raise(e) ==
  /\ exc' = e
  /\ stage' = "select"
  /\ Goto(Catcher(rpc))

Continue(p) ==
  /\ Goto(p)
  /\ UNCHANGED <<stage, exc>>

-----------------------------------------------------------------------------
(* Starting the worker, sending commands *)

MayRaise(causes) == RunnerFaults \cap causes # {}

\* The first snapshot is taken before the try statement of run_task.
Call ==
  /\ rpc = "called"
  /\ \/ Continue("entry")
     \/ MayRaise({"telemetry"}) /\ Raise("error")
  /\ UNCHANGED <<wpc, dumped, hung, signal, cmds, events, buffered, session, meter, struck>>

\* Budgets, dataset, thermal guard, idleness gate, telemetry; then Popen.
Enter ==
  /\ rpc = "entry"
  /\ \/ Continue("spawned") /\ wpc' = "starting"
     \/ MayRaise({"gate", "telemetry"}) /\ Raise("error") /\ UNCHANGED wpc
  /\ UNCHANGED <<dumped, hung, signal, cmds, events, buffered, session, meter, struck>>

\* The try statement is entered one step after Popen returned.
EnterTry ==
  /\ rpc = "spawned"
  /\ Continue("ready")
  /\ UNCHANGED <<wpc, dumped, hung, signal, cmds, events, buffered, session, meter, struck>>

\* send_command, after the checks made on the way.  Writing to a worker that
\* has exited raises BrokenPipeError.
Send(p, cmd, q, causes) ==
  /\ rpc = p
  /\ \/ /\ wpc # "exited"
        /\ cmds' = Append(cmds, cmd)
        /\ Continue(q)
     \/ /\ wpc = "exited" \/ MayRaise(causes)
        /\ Raise("error")
        /\ UNCHANGED cmds
  /\ UNCHANGED <<wpc, dumped, hung, signal, events, buffered, session, meter, struck>>

SendProbe  == Send("send_probe", "PROBE", "probe", {})
SendTiming == Send("send_timing", "TIMING", "timing", {"gate", "telemetry"})
SendEnergy == Send("send_energy", "ENERGY", "energy", {})
SendDump   == Send("send_dump", "DUMP", "results", IF Energy THEN {} ELSE {"telemetry"})

-----------------------------------------------------------------------------
(* read_event *)

\* (Mutant: the end of file not seen.)
NeverSeesEof == FALSE

Eof == wpc = "exited"

\* select looks at the descriptor, not at the lines already read ahead.  When
\* it times out the TimeoutError raised is an OSError, which the except clause
\* around it discards: either way read_event goes on to readline.
Select ==
  /\ rpc \in Awaiting
  /\ stage = "select"
  /\ stage' = "readline"
  /\ UNCHANGED <<workerVars, rpc, buffered, exc, session, meter, struck>>

\* readline blocks until the pipe holds something, and reads ahead.
Fill ==
  /\ rpc \in Awaiting
  /\ stage = "readline"
  /\ buffered = <<>>
  /\ \E k \in 1 .. Len(events) :
       /\ buffered' = SubSeq(events, 1, k)
       /\ events' = SubSeq(events, k + 1, Len(events))
  /\ UNCHANGED <<wpc, dumped, hung, signal, cmds, hungup, rpc, stage, exc, session, meter, struck>>

ReadEof ==
  /\ rpc \in Awaiting
  /\ stage = "readline"
  /\ buffered = <<>> /\ events = <<>> /\ Eof
  /\ Raise("error")
  /\ UNCHANGED <<wpc, dumped, hung, signal, cmds, events, buffered, session, meter, struck>>

\* (Mutant: a second PROBE.)
ProbesTwice(ev) ==
  CASE ev.event = "unsupported"  -> "reaping"
    [] ev.event = "ready"        -> "send_probe"
    [] ev.event = "probe_done"   -> "send_probe"
    [] OTHER                     -> "account"

\* Where an expected event takes the runner.
Branch(ev) ==
  CASE ev.event = "unsupported"  -> "reaping"
    [] ev.event = "ready"        -> IF AutoTiming THEN "send_probe" ELSE "send_timing"
    [] ev.event = "probe_done"   -> "send_timing"
    [] ev.event = "timing_done"  -> IF Energy THEN "open_meter" ELSE "send_dump"
    [] ev.event = "measure_done" -> "stop_meter"
    [] ev.event = "result"       -> "results"
    [] ev.event = "done"         -> "account"

Take ==
  /\ rpc \in Awaiting
  /\ stage = "readline"
  /\ buffered # <<>>
  /\ buffered' = Tail(buffered)
  /\ LET ev == Head(buffered)
     IN IF ev.event \in Expected[rpc]
        THEN /\ Goto(Branch(ev))
             /\ stage' = "select"
             /\ reps' = IF ev.event = "result" THEN reps + 1 ELSE reps
             /\ mismatch' = (mismatch \/ ~ ev.right)
             /\ rows' = IF ev.event = "unsupported" THEN Append(rows, "skipped") ELSE rows
             /\ UNCHANGED exc
        ELSE Raise("error") /\ UNCHANGED <<reps, mismatch, rows>>
  /\ UNCHANGED <<wpc, dumped, hung, signal, cmds, events, batches, meter, struck>>

\* process.wait(timeout=...) expires on a worker that takes its time to go, and
\* on one that hangs until a signal ends it.
Expires == ~ Gone /\ ("slow_exit" \in RunnerFaults \/ (hung /\ signal = "none"))

\* process.wait(timeout=10) after the row of a skipped task.
Reap ==
  /\ rpc = "reaping"
  /\ \/ Gone /\ Continue("cleanup")
     \/ Expires /\ Raise("error")
  /\ UNCHANGED <<wpc, dumped, hung, signal, cmds, events, buffered, session, meter, struck>>

-----------------------------------------------------------------------------
(* The energy block *)

OpenMeter ==
  /\ rpc = "open_meter"
  /\ \/ meter' = "open" /\ Continue("opened")
     \/ MayRaise({"telemetry"}) /\ Raise("error") /\ UNCHANGED meter
  /\ UNCHANGED <<wpc, dumped, hung, signal, cmds, events, buffered, session, struck>>

\* Gates, then energy.start().
StartMeter ==
  /\ rpc = "opened"
  /\ \/ meter' = "started" /\ Continue("send_energy")
     \/ MayRaise({"gate", "telemetry", "meter"}) /\ Raise("error") /\ UNCHANGED meter
  /\ UNCHANGED <<wpc, dumped, hung, signal, cmds, events, buffered, session, struck>>

\* energy.stop() and the telemetry after it.
StopMeter ==
  /\ rpc = "stop_meter"
  /\ \/ meter' = "stopped" /\ Continue("close_meter")
     \/ MayRaise({"meter"}) /\ UNCHANGED meter /\ Raise("error")
     \/ MayRaise({"telemetry"}) /\ meter' = "stopped" /\ Raise("error")
  /\ UNCHANGED <<wpc, dumped, hung, signal, cmds, events, buffered, session, struck>>

\* The finally clause: stop it if it was started and not stopped, close it.
CloseMeter ==
  /\ rpc = "close_meter"
  /\ meter' = "closed"
  /\ Continue(IF exc = "none" THEN "send_dump" ELSE "cleanup")
  /\ UNCHANGED <<wpc, dumped, hung, signal, cmds, events, buffered, session, struck>>

-----------------------------------------------------------------------------
(* The verdict and the end *)

CountMatches == reps = Repetitions

\* The count of result rows, then the row of the energy batch.
Account ==
  /\ rpc = "account"
  /\ IF CountMatches
     THEN /\ batches' = batches + (IF Energy THEN 1 ELSE 0)
          /\ Continue("conclude")
     ELSE Raise("error") /\ UNCHANGED batches
  /\ UNCHANGED <<wpc, dumped, hung, signal, cmds, events, buffered, rows, reps,
                 mismatch, meter, struck>>

\* (Mutant: mismatches not fatal.)
AlwaysOk == "ok"

Verdict == IF mismatch THEN "invalid" ELSE "ok"

Conclude ==
  /\ rpc = "conclude"
  /\ \/ rows' = Append(rows, Verdict) /\ Continue("cleanup")
     \/ MayRaise({"telemetry"}) /\ UNCHANGED rows /\ Raise("error")
  /\ UNCHANGED <<wpc, dumped, hung, signal, cmds, events, buffered, reps, batches,
                 mismatch, meter, struck>>

\* (Mutant: the finally clause swallows the exception.)
LeaveQuietly == Goto("done") /\ exc' = "none" /\ UNCHANGED stage

Leave == Continue(IF exc = "none" THEN "done" ELSE "handle")

\* (Mutant: a worker that has not exited left to itself.)
NeverPolled == TRUE

Polled == Gone

\* The finally clause: poll, terminate, wait, kill, wait.
Cleanup ==
  /\ rpc = "cleanup"
  /\ IF Polled
     THEN Leave /\ UNCHANGED signal
     ELSE signal' = "term" /\ Continue("wait_term")
  /\ UNCHANGED <<wpc, dumped, hung, cmds, events, buffered, session, meter, struck>>

WaitTerm ==
  /\ rpc = "wait_term"
  /\ \/ Gone /\ Leave /\ UNCHANGED signal
     \/ Expires /\ signal' = "kill" /\ Continue("wait_kill")
  /\ UNCHANGED <<wpc, dumped, hung, cmds, events, buffered, session, meter, struck>>

\* TimeoutExpired out of the finally clause replaces what was in flight.
WaitKill ==
  /\ rpc = "wait_kill"
  /\ \/ Gone /\ Leave
     \/ Expires /\ Raise("error")
  /\ UNCHANGED <<wpc, dumped, hung, signal, cmds, events, buffered, session, meter, struck>>

\* (Mutant: both handlers return.)
NeverReraised == "none"

\* Only the handler of KeyboardInterrupt raises again.
Reraised == IF exc = "interrupt" THEN "interrupt" ELSE "none"

\* The except clauses of run_task; a snapshot comes before the row.
Handle ==
  /\ rpc = "handle"
  /\ \/ /\ rows' = Append(rows, IF exc = "interrupt" THEN "interrupted" ELSE "failed")
        /\ exc' = Reraised
        /\ Goto("done")
        /\ UNCHANGED stage
     \/ MayRaise({"telemetry"}) /\ Raise("error") /\ UNCHANGED rows
  /\ UNCHANGED <<wpc, dumped, hung, signal, cmds, events, buffered, reps, batches,
                 mismatch, meter, struck>>

\* KeyboardInterrupt.  The terminal signals the whole foreground group, so the
\* worker may die of the same Ctrl-C.  Between the constructor of the meter
\* and the try it is not yet protected.
Interrupt ==
  /\ rpc # "done"
  /\ Cardinality(struck) < MaxInterrupts
  /\ struck' = struck \cup {rpc}
  /\ exc' = "interrupt"
  /\ stage' = "select"
  /\ \/ Goto(Catcher(rpc))
     \/ rpc = "opened" /\ Goto("cleanup")
  /\ wpc' \in {wpc} \cup IF Gone THEN {} ELSE {"exited"}
  /\ UNCHANGED <<dumped, hung, signal, cmds, events, buffered, session, meter, mode>>

RunnerStep ==
  /\ \/ Call \/ Enter \/ EnterTry
     \/ SendProbe \/ SendTiming \/ SendEnergy \/ SendDump
     \/ Select \/ Fill \/ ReadEof \/ Take \/ Reap
     \/ OpenMeter \/ StartMeter \/ StopMeter \/ CloseMeter
     \/ Account \/ Conclude \/ Cleanup \/ WaitTerm \/ WaitKill \/ Handle
  /\ UNCHANGED mode

Ended == rpc = "done" /\ Gone /\ UNCHANGED vars

WorkerStep(A) == A /\ UNCHANGED runnerVars

Next ==
  \/ RunnerStep
  \/ Interrupt
  \/ WorkerStep(GetReady) \/ WorkerStep(Obey) \/ WorkerStep(RunBatch)
  \/ WorkerStep(Dump) \/ WorkerStep(Throw) \/ WorkerStep(Report)
  \/ WorkerStep(Close) \/ WorkerStep(Crash) \/ WorkerStep(Hang)
  \/ WorkerStep(DieOfSignal) \/ WorkerStep(LosePeer)
  \/ Ended

Spec == Init /\ [][Next]_vars

\* Both processes are scheduled, a batch of run_once comes to an end unless the
\* worker hangs, and a signalled process dies.  No fault is ever obliged to
\* happen, nor a Ctrl-C.
Fairness == WF_vars(RunnerStep) /\ WF_vars(WorkerStep(WorkerProgress))

FairSpec == Spec /\ Fairness

-----------------------------------------------------------------------------
(* Properties *)

RunnerPc == Awaiting \cup MeterBlock \cup CleanupPcs \cup
  {"called", "entry", "spawned", "send_probe", "send_timing", "send_dump", "reaping",
   "open_meter", "close_meter", "account", "conclude", "handle", "done"}

WorkerPc == {"off", "exited", "erring", "dumping", "closing"} \cup Busy \cup DOMAIN Script

\* Types, with two bounds the protocol implies: never more than one command is
\* unread, and never more result rows than repetitions.
TypeOK ==
  /\ wpc \in WorkerPc
  /\ dumped \in 0 .. Repetitions
  /\ hung \in BOOLEAN
  /\ signal \in {"none", "term", "kill"}
  /\ cmds \in Seq({"PROBE", "TIMING", "ENERGY", "DUMP"}) /\ Len(cmds) <= 1
  /\ events \in Seq(Event) /\ Len(events) <= PipeSize
  /\ hungup \in BOOLEAN
  /\ rpc \in RunnerPc
  /\ stage \in {"select", "readline"}
  /\ buffered \in Seq(Event) /\ Len(buffered) <= PipeSize
  /\ exc \in {"none", "error", "interrupt"}
  /\ rows \in Seq({"ok", "invalid", "skipped", "failed", "interrupted"}) /\ Len(rows) <= 2
  /\ reps \in 0 .. dumped
  /\ batches \in 0 .. 1
  /\ mismatch \in BOOLEAN
  /\ meter \in {"none", "open", "started", "stopped", "closed"}
  /\ struck \subseteq RunnerPc
  /\ mode \in Modes

\* The two scripts agree: a command the worker has not read is one its next
\* getline accepts, and a line the runner waits for is one it expects there
\* (or the report of an error).  Neither depends on who is ahead.
InStep ==
  /\ TypeOK
  /\ wpc \in DOMAIN Script /\ cmds # <<>> => Head(cmds) \in DOMAIN Script[wpc]
  /\ rpc \in Awaiting /\ buffered \o events # <<>> =>
       Head(buffered \o events).event \in Expected[rpc] \cup {"error"}

\* A task is recorded as measured only when it was: every repetition has its
\* row, the worker had said it was done, the energy batch has its row exactly
\* when it was asked for and its meter has been closed, and the verdict is
\* "ok" exactly when no value was wrong.
VerdictEarned ==
  \A i \in DOMAIN rows : rows[i] \in {"ok", "invalid"} =>
    /\ reps = Repetitions
    /\ dumped = Repetitions
    /\ wpc \in {"closing", "exited"}
    /\ batches = (IF Energy THEN 1 ELSE 0)
    /\ meter = (IF Energy THEN "closed" ELSE "none")
    /\ rows[i] = "ok" <=> ~ mismatch

\* run_task leaves a row, unless Ctrl-C or an error strikes before its try or
\* while it handles an exception -- in which case it raises.  It leaves two only
\* if something went wrong after the first was written: a Ctrl-C, or a worker
\* that outlived a wait.
RowPerTask ==
  rpc = "done" =>
    /\ struck \cap {"called", "handle"} = {} /\ exc # "error" => rows # <<>>
    /\ Len(rows) = 2 =>
         /\ rows[1] \notin {"failed", "interrupted"}
         /\ rows[2] \in {"failed", "interrupted"}
         /\ struck # {} \/ rows[1] = "skipped" \/ signal = "kill"

\* run_task leaves and raises what the campaign is prepared for (TaskOutcomes).
OutcomeKnown ==
  rpc = "done" => [rows |-> rows, raised |-> exc] \in Outcomes

\* run_task does not leave a worker behind.  It does only where the worker is
\* not yet or no more protected by the finally clause -- a Ctrl-C between Popen
\* and the try, or in the clause itself -- and after both waits have expired.
WorkerReaped ==
  rpc = "done" /\ struck \cap ({"spawned"} \cup CleanupPcs) = {} /\ signal # "kill" => Gone

\* Once past the energy block, by whatever way, the meter is closed; it is
\* not where Ctrl-C strikes between its constructor and the try, or in the
\* finally clause.  And while run_task has met no exception, the worker's energy
\* batch runs under a started meter and no other batch runs beside one.
MeterReleased ==
  /\ rpc \notin MeterBlock \cup {"close_meter"} /\ struck \cap {"opened", "close_meter"} = {}
       => meter \in {"none", "closed"}
  /\ rpc # "done" /\ exc = "none" =>
       /\ wpc = "energy" => meter = "started"
       /\ wpc \in {"probing", "timing"} => meter = "none"

\* A Ctrl-C is not swallowed: run_task raises, so that the campaign stops --
\* unless the worker outlives SIGKILL's wait, whose TimeoutExpired replaces it.
InterruptHeard ==
  rpc = "done" /\ struck # {} /\ signal # "kill" => exc # "none"

\* run_task comes to an end, and so does the worker, even one left behind, whose
\* pipes are closed - as long as the worker does not hang.
TaskEnds == <>(hung \/ (rpc = "done" /\ Gone))

\* A worker that stops answering is given up after worker_event_timeout_s.
SilenceTimesOut == hung /\ rpc \in Awaiting ~> rpc \notin Awaiting
=============================================================================
