---------------------------- MODULE EnergyMeter ----------------------------
(***************************************************************************)
(* CompositeEnergyMeter (prbench/energy.py) around one ENERGY batch of     *)
(* ExperimentRunner._run_worker: the CPU's energy is the difference of two *)
(* reads of a RAPL counter that wraps, a GPU's that of two reads of its    *)
(* NVML counter or, where it has none, the integral of power samples that  *)
(* a polling thread takes meanwhile.                                       *)
(*                                                                         *)
(* CPU and GPUs draw the same power, a whole number of units per tick of   *)
(* the clock; used is what each of them has consumed.  Energies computed   *)
(* from samples are doubled to stay whole.                                 *)
(***************************************************************************)
EXTENDS Integers, Sequences, FiniteSetsExt

CONSTANTS
  Gpus,     \* task.gpu_ids
  MaxRange, \* max_energy_range_uj of the RAPL zone
  Powers,   \* BOUND: powers drawn
  Offsets,  \* BOUND: energy consumed before the meter is opened
  MaxTime,  \* BOUND: ticks of the clock
  Faults,   \* what may go wrong: see Fail and Interrupt
  None

ASSUME EnergyAssumption ==
  /\ MaxRange \in Nat \ {0} /\ Powers \subseteq Nat /\ Offsets \subseteq Nat /\ MaxTime \in Nat
  /\ Faults \subseteq {"rapl", "nvml", "power", "batch", "join", "interrupt"}

VARIABLES
  now,       \* time.perf_counter_ns
  power,     \* drawn at present
  used,      \* consumed so far
  rapl,      \* enable_cpu, and a readable RAPL zone was found
  nvml,      \* enable_gpu, and NvmlEnergyMeter.available
  counted,   \* counter_supported: the GPUs that have an energy counter
  pc,        \* where _run_worker is in its energy block
  started,   \* energy_started
  exc,       \* the exception that ends the block
  retry,     \* the stop of the finally clause
  cpuRead,   \* used at the two reads of RAPL
  gpuRead,   \* used at the two reads of the NVML counters
  window,    \* start_ns and end_ns of NvmlEnergyMeter
  batch,     \* used when ENERGY is sent and when measure_done is received
  running,   \* _running
  handle,    \* _thread is not None
  poller,    \* where the polling thread is
  ts,        \* ts of _poll_loop
  samples,   \* samples of each GPU: time and power
  row        \* what stop returned, for the energy row

clock  == <<now, power, used>>
setup  == <<rapl, nvml, counted>>
block  == <<pc, started, exc, retry>>
reads  == <<cpuRead, gpuRead, window, batch>>
thread == <<running, handle, poller, ts, samples>>
vars   == <<clock, setup, block, reads, thread, row>>

Unread == [from |-> None, to |-> None]
Polled == Gpus \ counted

-----------------------------------------------------------------------------
(* What the meter computes *)

\* The kernel's counter takes every value up to its range.
RaplCounter(u) == u % (MaxRange + 1)

\* (Mutant: the counter taken to be monotonic.)
DeltaUnwrapped(start, end) == end - start

\* RaplEnergyMeter.delta_j
Delta(start, end) == IF end >= start THEN end - start ELSE (MaxRange - start) + end

\* (Mutant: the edges of the window left out.)
InWindowOpen(s, w) == w.from < s.ts /\ s.ts < w.to

InWindow(s, w) == w.from <= s.ts /\ s.ts <= w.to

\* clipped, of the first i of the samples s.
Clipped(s, w) ==
  LET clip[i \in 0 .. Len(s)] ==
        IF i = 0 THEN <<>>
        ELSE IF InWindow(s[i], w) THEN Append(clip[i - 1], s[i]) ELSE clip[i - 1]
  IN clip

Inside(g) == Clipped(samples[g], window)[Len(samples[g])]

\* The trapezoids up to the sample number i, doubled.
Trapezoids(c) ==
  LET area[i \in 1 .. Len(c)] ==
        IF i = 1 THEN 0 ELSE area[i - 1] + (c[i - 1].p + c[i].p) * (c[i].ts - c[i - 1].ts)
  IN area

\* (Mutant: nothing before the first sample nor after the last.)
IntegralCut(c, w) == Trapezoids(c)[Len(c)]

\* _integrate_samples of what was clipped, doubled; one sample stands for the whole window.
Integral(c, w) ==
  Trapezoids(c)[Len(c)] + 2 * c[1].p * (c[1].ts - w.from) + 2 * c[Len(c)].p * (w.to - c[Len(c)].ts)

GpuEnergy(g) ==
  IF g \in counted THEN gpuRead.to - gpuRead.from
  ELSE IF samples[g] = <<>> THEN 0 ELSE Integral(Inside(g), window)

\* Samples, but none in the window: the integral indexes an empty list.
Stray ==
  \E g \in Polled : samples[g] # <<>> /\ \A i \in DOMAIN samples[g] : ~ InWindow(samples[g][i], window)

-----------------------------------------------------------------------------
Init ==
  /\ now = 0 /\ power \in Powers /\ used \in Offsets
  /\ rapl \in BOOLEAN /\ nvml \in BOOLEAN
  /\ counted \in SUBSET Gpus
  /\ pc = "start_cpu" /\ started = FALSE /\ exc = "none" /\ retry = FALSE
  /\ cpuRead = Unread /\ gpuRead = Unread /\ window = Unread /\ batch = Unread
  /\ running = FALSE /\ handle = FALSE /\ poller = "off" /\ ts = None
  /\ samples = [g \in Gpus |-> <<>>]
  /\ row = None

\* Time stops mattering once the block is left.
Tick ==
  /\ now < MaxTime
  /\ pc \notin {"closed", "left"}
  /\ now' = now + 1
  /\ used' = used + power
  /\ power' \in Powers
  /\ UNCHANGED <<setup, block, reads, thread, row>>

At(p)   == pc = p /\ UNCHANGED <<clock, setup>>
Goto(p) == pc' = p /\ UNCHANGED <<started, exc, retry>>

\* An exception goes to the finally clause, which stops a meter that was started
\* and not stopped; there Exceptions are swallowed and the meter is closed.
Raise(e) ==
  /\ IF retry THEN pc' = "close" /\ UNCHANGED <<exc, retry>>
     ELSE /\ pc' = IF started THEN "stop_cpu" ELSE "close"
          /\ retry' = started
          /\ exc' = e
  /\ UNCHANGED started

Fail(f) == f \in Faults /\ Raise(f) /\ UNCHANGED <<reads, thread>>

\* CompositeEnergyMeter.start
StartCpu ==
  /\ At("start_cpu")
  /\ \/ /\ cpuRead' = [cpuRead EXCEPT !.from = IF rapl THEN used ELSE None]
        /\ Goto(IF nvml THEN "start_gpu" ELSE "flag")
        /\ UNCHANGED <<gpuRead, window, batch, thread>>
     \/ rapl /\ Fail("rapl")
  /\ UNCHANGED row

\* NvmlEnergyMeter.start: the time, the counters, the thread.
StartGpu ==
  /\ At("start_gpu")
  /\ \/ /\ window' = [window EXCEPT !.from = now]
        /\ gpuRead' = [gpuRead EXCEPT !.from = used]
        /\ running' = (Polled # {}) /\ handle' = running'
        /\ poller' = IF Polled # {} THEN "loop" ELSE "off"
        /\ Goto("flag")
        /\ UNCHANGED <<cpuRead, batch, ts, samples>>
     \/ counted # {} /\ Fail("nvml")
  /\ UNCHANGED row

\* energy_started, then the command.
Flag ==
  /\ At("flag")
  /\ started' = TRUE /\ pc' = "batch"
  /\ batch' = [batch EXCEPT !.from = used]
  /\ UNCHANGED <<exc, retry, cpuRead, gpuRead, window, thread, row>>

\* measure_done, or something else.
Batch ==
  /\ At("batch")
  /\ \/ batch' = [batch EXCEPT !.to = used] /\ Goto("stop_cpu")
        /\ UNCHANGED <<cpuRead, gpuRead, window, thread>>
     \/ Fail("batch")
  /\ UNCHANGED row

\* CompositeEnergyMeter.stop
StopCpu ==
  /\ At("stop_cpu")
  /\ \/ /\ cpuRead' = [cpuRead EXCEPT !.to = IF rapl THEN used ELSE None]
        /\ Goto(IF nvml THEN "stop_gpu" ELSE "total")
        /\ UNCHANGED <<gpuRead, window, batch, thread>>
     \/ rapl /\ Fail("rapl")
  /\ UNCHANGED row

\* NvmlEnergyMeter.stop reads the time, then lowers the flag.
StopGpu ==
  /\ At("stop_gpu")
  /\ window' = [window EXCEPT !.to = now]
  /\ Goto("lower")
  /\ UNCHANGED <<cpuRead, gpuRead, batch, thread, row>>

\* (Mutant: the flag left up.)
LowerForgotten ==
  /\ At("lower")
  /\ Goto(IF handle THEN "join" ELSE "total")
  /\ UNCHANGED <<reads, thread, row>>

Lower ==
  /\ At("lower")
  /\ running' = FALSE
  /\ Goto(IF handle THEN "join" ELSE "total")
  /\ UNCHANGED <<reads, handle, poller, ts, samples, row>>

\* thread.join gives up on a thread that is slow to end.
Join ==
  /\ At("join")
  /\ poller = "ended" \/ "join" \in Faults
  /\ handle' = FALSE
  /\ Goto("total")
  /\ UNCHANGED <<reads, running, poller, ts, samples, row>>

\* The counters once more, the integrals; a value is returned or an exception.
Total ==
  /\ At("total")
  /\ \/ nvml /\ counted # {} /\ Fail("nvml") /\ UNCHANGED row
     \/ /\ gpuRead' = [gpuRead EXCEPT !.to = used]
        /\ UNCHANGED <<cpuRead, window, batch, thread>>
        /\ IF nvml /\ Stray THEN Raise("index") /\ UNCHANGED row
           ELSE /\ Goto("close")
                /\ row' = IF retry THEN None ELSE
                     [cpu |-> IF rapl THEN Delta(RaplCounter(cpuRead.from), RaplCounter(cpuRead.to)) ELSE None,
                      gpu |-> IF nvml THEN [g \in Gpus |-> GpuEnergy(g)'] ELSE None]

Close ==
  /\ At("close")
  /\ Goto("closed")
  /\ UNCHANGED <<reads, thread, row>>

\* Ctrl-C anywhere in the block.  In the finally clause it is not swallowed and
\* the meter is not closed.
Interrupt ==
  /\ "interrupt" \in Faults
  /\ pc \notin {"closed", "left"}
  /\ exc' = "interrupt"
  /\ row' = None
  /\ IF retry \/ pc = "close" THEN pc' = "left" /\ UNCHANGED retry
     ELSE pc' = (IF started THEN "stop_cpu" ELSE "close") /\ retry' = started
  /\ UNCHANGED <<clock, setup, started, reads, thread>>

-----------------------------------------------------------------------------
(* _poll_loop *)

Loop ==
  /\ poller = "loop"
  /\ IF running THEN ts' = now /\ poller' = "read"
     ELSE poller' = "ended" /\ UNCHANGED ts
  /\ UNCHANGED <<clock, setup, block, reads, running, handle, samples, row>>

\* Any of the reads may fail, silently.
Read ==
  /\ poller = "read"
  /\ \E ok \in IF "power" \in Faults THEN SUBSET Polled ELSE {Polled} :
       samples' = [g \in Gpus |-> IF g \in ok THEN Append(samples[g], [ts |-> ts, p |-> power])
                                  ELSE samples[g]]
  /\ poller' = "sleep"
  /\ UNCHANGED <<clock, setup, block, reads, running, handle, ts, row>>

Wake ==
  /\ poller = "sleep"
  /\ now > ts \/ ~ running
  /\ poller' = "loop"
  /\ UNCHANGED <<clock, setup, block, reads, running, handle, ts, samples, row>>

Finished == pc \in {"closed", "left"} /\ UNCHANGED vars

RunnerStep ==
  \/ StartCpu \/ StartGpu \/ Flag \/ Batch \/ StopCpu \/ StopGpu \/ Lower \/ Join \/ Total \/ Close
PollerStep == Loop \/ Read \/ Wake

Next == Tick \/ RunnerStep \/ PollerStep \/ Interrupt \/ Finished

Spec == Init /\ [][Next]_vars

\* Both threads are scheduled, and the worker answers or is given up.
FairSpec == Spec /\ WF_vars(RunnerStep) /\ WF_vars(PollerStep)

-----------------------------------------------------------------------------
(* Properties *)

Reading(S) == [from : S \cup {None}, to : S \cup {None}]
Energies   == Nat \cup {None}

TypeOK ==
  /\ now \in 0 .. MaxTime /\ power \in Powers /\ used \in Nat
  /\ pc \in {"start_cpu", "start_gpu", "flag", "batch", "stop_cpu", "stop_gpu", "lower", "join",
             "total", "close", "closed", "left"}
  /\ started \in BOOLEAN /\ retry \in BOOLEAN /\ running \in BOOLEAN /\ handle \in BOOLEAN
  /\ exc \in {"none", "rapl", "nvml", "batch", "index", "interrupt"}
  /\ cpuRead \in Reading(Nat) /\ gpuRead \in Reading(Nat)
  /\ window \in Reading(Nat) /\ batch \in Reading(Nat)
  /\ poller \in {"off", "loop", "read", "sleep", "ended"}
  /\ ts \in Nat \cup {None}
  /\ \A g \in Gpus : Len(samples[g]) <= now + 1
  /\ row # None => row.cpu \in Energies

Consumed(r) == r.to - r.from

\* As long as one batch consumes less than a whole range, the CPU energy of a row
\* is what was consumed between the reads, less one unit of the counter if it
\* wrapped; the batch, and nothing but the edges, lies between the reads.
CpuEnergyTrue ==
  /\ TypeOK
  /\ row # None /\ rapl /\ Consumed(cpuRead) <= MaxRange =>
       /\ row.cpu \in {Consumed(cpuRead) - 1, Consumed(cpuRead)}
       /\ row.cpu = Consumed(cpuRead) \/ RaplCounter(cpuRead.to) < RaplCounter(cpuRead.from)
       /\ cpuRead.from <= batch.from /\ batch.to <= cpuRead.to

\* When a row is made: the energy of a GPU without counter lies between what the
\* least and the greatest sample would give over the whole window, wherever in
\* it the samples were taken, and is zero only if none was taken or they say so;
\* with a counter at least the batch is counted.
GpuEnergySound ==
  [][row = None /\ row' # None /\ nvml => \A g \in Gpus :
       IF g \in counted THEN row'.gpu[g] >= Consumed(batch)
       ELSE samples[g] # <<>> =>
              LET seen == {Inside(g)[i].p : i \in DOMAIN Inside(g)}
                  span == 2 * Consumed(window)
              IN seen # {} /\ Min(seen) * span <= row'.gpu[g] /\ row'.gpu[g] <= Max(seen) * span]_row

\* stop raises of its own accord only when every sample came after the end of
\* the window, before the flag was lowered or seen: never for a GPU that was
\* sampled in time.
StopRaises ==
  [][exc' = "index" => \E g \in Polled :
       samples[g] # <<>> /\ \A i \in DOMAIN samples[g] : samples[g][i].ts > window.to]_exc

\* A polling thread ends after the block, whatever else went wrong - unless it
\* was left by Ctrl-C, which may come before the meter counts as started, or
\* RAPL could not be read at the end, which keeps stop from reaching the GPUs.
PollerEnds ==
  pc = "closed" /\ exc # "interrupt" /\ (rapl => cpuRead.to # None)
    ~> poller \in {"off", "ended"}
=============================================================================
