--------------------------- MODULE DynamicHybrid ---------------------------
(***************************************************************************)
(* DynamicHybridStrategy (native/src/strategy.cpp): one call of run_once   *)
(* lets the CPU, on the calling thread, and one host thread per GPU claim  *)
(* chunks of the dataset from a shared atomic cursor until it is used up.  *)
(* Each worker folds its chunks into a value of its own; the calling       *)
(* thread joins the GPU threads, rethrows the first error one of them      *)
(* recorded, and otherwise merges the values.                              *)
(*                                                                         *)
(* Worker 0 is the calling thread, worker g >= 1 the thread of GPU g.  A   *)
(* value is the multiplicity with which each element was combined into it: *)
(* for a sum, an element lost or folded twice is a wrong result.           *)
(***************************************************************************)
EXTENDS Integers, FiniteSets

CONSTANTS
  N,                  \* elements in the dataset (cfg.count)
  G,                  \* number of GPUs (cfg.gpu_ids.size())
  Kind,               \* scheduler kind
  ChunkSize,          \* cfg.chunk_size, used by DynamicFixed
  MinChunk, MaxChunk, \* cfg.min_chunk_size, cfg.max_chunk_size
  GuidedDenom,        \* guided_factor * (1 + G)
  CalibrationTarget,  \* the 1 Mi elements of dynamic_calibration_elements
  Replicas,           \* copies of the dataset kept for cache rotation
  Faults,             \* the operations that may throw
  MaxCalls            \* BOUND: calls of run_once

\* --count is positive (cli.cpp), the dynamic scheduler needs a GPU (its
\* constructor) and the chunk parameters are positive (config.py).  Nothing
\* relates MinChunk and MaxChunk: see ChunkBoundsOrdered.
ASSUME NAssumption == N \in Nat \ {0}
ASSUME GAssumption == G \in Nat \ {0}
ASSUME ChunkAssumption ==
  /\ ChunkSize \in Nat \ {0}
  /\ MinChunk \in Nat \ {0}
  /\ MaxChunk \in Nat \ {0}
  /\ GuidedDenom \in Nat \ {0}
  /\ CalibrationTarget \in Nat \ {0}
ASSUME ConfigAssumption ==
  /\ Kind \in {"DynamicFixed", "DynamicGuided", "DynamicAdaptive"}
  /\ Replicas \in Nat \ {0}
  /\ Faults \subseteq {"spawn", "pin", "cpu", "gpu"}
  /\ MaxCalls \in Nat

\* What the planner enforces only when a request gives both parameters.
ChunkBoundsOrdered == MinChunk <= MaxChunk

VARIABLES
  next,       \* next_, the shared cursor
  replica,    \* Dataset::replica_index_
  pc,         \* where each worker is
  cur,        \* claim: the cursor value a worker loaded (0 outside claim)
  chunk,      \* claim: the chunk it computed from it (0 outside claim)
  rng,        \* the range a worker claimed and has not folded
  acc,        \* cpu_value and gpu_values
  errors,     \* GPUs whose thread recorded an exception
  merged,     \* gpu_values merged so far
  value,      \* result, while it is being merged
  returned,   \* the last value run_once returned
  outcome,    \* how the last call ended
  calls       \* calls of run_once made

vars == <<next, replica, pc, cur, chunk, rng, acc, errors, merged, value,
          returned, outcome, calls>>

Gpus     == 1 .. G
Workers  == 0 .. G
Elements == 0 .. N - 1
Identity == [e \in Elements |-> 0]
Total    == [e \in Elements |-> 1]
NoRange  == [offset |-> 0, count |-> 0]

Span(r) == r.offset .. r.offset + r.count - 1

MinOf(a, b)   == IF a <= b THEN a ELSE b
MaxOf(a, b)   == IF a >= b THEN a ELSE b
CeilDiv(a, b) == (a + b - 1) \div b

-----------------------------------------------------------------------------
(* Chunk sizes and reducer capacity *)

\* std::clamp.  With the bounds out of order the call is undefined: the
\* implementations of the library return one bound or the other.
Clamp(v, lo, hi) ==
  IF lo <= hi THEN {IF v < lo THEN lo ELSE IF hi < v THEN hi ELSE v}
              ELSE {lo, hi}

\* The chunk a worker asks for.  The adaptive one depends on its measured
\* throughput, which is any positive number.
ChunkChoices(remaining) ==
  CASE Kind = "DynamicFixed"    -> {ChunkSize}
    [] Kind = "DynamicGuided"   -> Clamp(CeilDiv(remaining, GuidedDenom), MinChunk, MaxChunk)
    [] Kind = "DynamicAdaptive" -> UNION {Clamp(t, MinChunk, MaxChunk) : t \in 1 .. MaxChunk}

\* The chunks claim may compute from a cursor at c.
Chunks(c) == {MinOf(k, N - c) : k \in ChunkChoices(N - c)}

CalibrationElements ==
  IF Kind = "DynamicAdaptive"
  THEN MinOf(N, MinOf(MaxChunk, MaxOf(MinChunk, CalibrationTarget)))
  ELSE 0

RuntimeMaxChunk == IF Kind = "DynamicFixed" THEN ChunkSize ELSE MaxChunk

\* (Mutant: the reducer sized for the fixed chunk whatever the scheduler.)
CapacityOfFixed == MaxOf(1, ChunkSize)

\* max_elements of every GPU reducer; reduce throws beyond it.
Capacity == MaxOf(1, MaxOf(RuntimeMaxChunk, CalibrationElements))

Combine(v, r) == [e \in Elements |-> IF e \in Span(r) THEN v[e] + 1 ELSE v[e]]

\* (Mutant: a partial value is not combined into the result.)
MergeDrops(v, u) == v

Merge(v, u) == [e \in Elements |-> v[e] + u[e]]

-----------------------------------------------------------------------------
Init ==
  /\ next = 0
  /\ replica = 0
  /\ pc = [w \in Workers |-> IF w = 0 THEN "prepare" ELSE "off"]
  /\ cur = [w \in Workers |-> 0]
  /\ chunk = [w \in Workers |-> 0]
  /\ rng = [w \in Workers |-> NoRange]
  /\ acc = [w \in Workers |-> Identity]
  /\ errors = {}
  /\ merged = 0
  /\ value = Identity
  /\ returned = Identity
  /\ outcome = "none"
  /\ calls = 0

work == <<next, cur, chunk, rng, acc, errors, merged, value>>

\* prepare: size the reducers, and for the adaptive scheduler hand each of
\* them a calibration sample.  A sample beyond the capacity, or a failing
\* reducer, ends the strategy.
Prepare ==
  /\ pc[0] = "prepare"
  /\ \/ /\ CalibrationElements <= Capacity
        /\ pc' = [pc EXCEPT ![0] = "idle"]
        /\ IF Kind = "DynamicAdaptive"
           THEN replica' \in 0 .. Replicas - 1
           ELSE UNCHANGED replica
        /\ UNCHANGED outcome
     \/ /\ CalibrationElements > Capacity \/ Faults \cap {"cpu", "gpu"} # {}
        /\ pc' = [pc EXCEPT ![0] = "over"]
        /\ outcome' = "threw"
        /\ UNCHANGED replica
  /\ UNCHANGED <<work, returned, calls>>

\* run_once up to the threads: the next replica, a fresh cursor, fresh values.
Start ==
  /\ pc[0] = "idle"
  /\ calls < MaxCalls
  /\ calls' = calls + 1
  /\ replica' = (replica + 1) % Replicas
  /\ next' = 0
  /\ pc' = [w \in Workers |-> IF w = 0 THEN "spawn" ELSE "off"]
  /\ cur' = [w \in Workers |-> 0]
  /\ chunk' = [w \in Workers |-> 0]
  /\ rng' = [w \in Workers |-> NoRange]
  /\ acc' = [w \in Workers |-> Identity]
  /\ errors' = {}
  /\ merged' = 0
  /\ value' = Identity
  /\ outcome' = "none"
  /\ UNCHANGED returned

Unspawned == {g \in Gpus : pc[g] = "off"}

\* Threads start in the order of the GPU list.  A thread that cannot be
\* pinned records its error and ends without claiming anything.
StartThread(g) ==
  /\ pc[0] = "spawn"
  /\ g \in Unspawned
  /\ \A h \in Unspawned : g <= h
  /\ LET resume == IF Unspawned = {g} THEN "load" ELSE "spawn"
     IN \/ /\ pc' = [pc EXCEPT ![g] = "load", ![0] = resume]
           /\ UNCHANGED errors
        \/ /\ "pin" \in Faults
           /\ pc' = [pc EXCEPT ![g] = "exited", ![0] = resume]
           /\ errors' = errors \cup {g}
  /\ UNCHANGED <<next, cur, chunk, rng, acc, merged, value, returned, outcome, calls>>

\* (Mutant: the replica rotated after a thread is started, not before.)
SpawnThenRotate(g) == StartThread(g) /\ replica' = (replica + 1) % Replicas
Spawn(g) == StartThread(g) /\ UNCHANGED replica

\* The calling thread leaves run_once by an exception.  Destroying a joinable
\* std::thread calls std::terminate: unless no thread was started, the process
\* dies with every thread in it and no error is reported.
Unwind ==
  /\ IF Unspawned = Gpus
     THEN /\ pc' = [pc EXCEPT ![0] = "over"]
          /\ outcome' = "threw"
     ELSE /\ pc' = [w \in Workers |-> "over"]
          /\ outcome' = "aborted"
  /\ UNCHANGED <<work, replica, returned, calls>>

\* The system refuses another thread.
SpawnFails ==
  /\ "spawn" \in Faults
  /\ pc[0] = "spawn"
  /\ Unwind

AfterLoop(w) == IF w = 0 THEN "join" ELSE "exited"

\* claim, first half.  A relaxed load may return an older value of the
\* cursor (one it never held is as harmless: the exchange fails).
Load(w, c) ==
  /\ pc[w] = "load"
  /\ IF c >= N
     THEN /\ pc' = [pc EXCEPT ![w] = AfterLoop(w)]
          /\ UNCHANGED <<cur, chunk>>
     ELSE \E k \in Chunks(c) :
            /\ cur' = [cur EXCEPT ![w] = c]
            /\ chunk' = [chunk EXCEPT ![w] = k]
            /\ pc' = [pc EXCEPT ![w] = "exchange"]
  /\ UNCHANGED <<next, replica, rng, acc, errors, merged, value, returned,
                 outcome, calls>>

\* The locals of a round of claim are gone.
LeaveClaim(w) ==
  /\ cur' = [cur EXCEPT ![w] = 0]
  /\ chunk' = [chunk EXCEPT ![w] = 0]

\* (Mutant: the cursor stored without comparing it.)
StoresBlindly(w) == TRUE

CursorUnmoved(w) == cur[w] = next

\* claim, second half: compare_exchange_weak fails when the cursor has moved,
\* and may fail although it has not.  An empty range ends the worker's loop.
ExchangeSucceeds(w) ==
  /\ pc[w] = "exchange"
  /\ CursorUnmoved(w)
  /\ next' = cur[w] + chunk[w]
  /\ rng' = [rng EXCEPT ![w] = [offset |-> cur[w], count |-> chunk[w]]]
  /\ pc' = [pc EXCEPT ![w] = IF chunk[w] = 0 THEN AfterLoop(w) ELSE "reduce"]
  /\ LeaveClaim(w)
  /\ UNCHANGED <<replica, acc, errors, merged, value, returned, outcome, calls>>

\* (Mutant: the exchange retried with the value first loaded.)
ExchangeRetries(w) ==
  /\ pc[w] = "exchange"
  /\ UNCHANGED vars

ExchangeFails(w) ==
  /\ pc[w] = "exchange"
  /\ pc' = [pc EXCEPT ![w] = "load"]
  /\ LeaveClaim(w)
  /\ UNCHANGED <<next, replica, rng, acc, errors, merged, value, returned,
                 outcome, calls>>

\* The engine reduces the claimed range and the worker folds the result.
Reduce(w) ==
  /\ pc[w] = "reduce"
  /\ w \in Gpus => rng[w].count <= Capacity
  /\ acc' = [acc EXCEPT ![w] = Combine(@, rng[w])]
  /\ rng' = [rng EXCEPT ![w] = NoRange]
  /\ pc' = [pc EXCEPT ![w] = "load"]
  /\ UNCHANGED <<next, replica, cur, chunk, errors, merged, value, returned,
                 outcome, calls>>

\* A GPU reducer throws: the thread records the exception and ends; the range
\* it had claimed is folded by nobody.
GpuFails(g) ==
  /\ pc[g] = "reduce"
  /\ "gpu" \in Faults \/ rng[g].count > Capacity
  /\ pc' = [pc EXCEPT ![g] = "exited"]
  /\ errors' = errors \cup {g}
  /\ UNCHANGED <<next, replica, cur, chunk, rng, acc, merged, value, returned,
                 outcome, calls>>

\* reduce_cpu throws on the calling thread while GPU threads are joinable.
CpuFails ==
  /\ "cpu" \in Faults
  /\ pc[0] = "reduce"
  /\ Unwind

\* (Mutants: only the first thread joined; only the last thread's error looked
\* at.)
FirstExited   == pc[1] = "exited"
LastGpuFailed == G \in errors

AllExited == \A g \in Gpus : pc[g] = "exited"
CallFailed == errors # {}

\* join every thread, then rethrow the first error, or go on to the merge,
\* which starts from cpu_value.
Join ==
  /\ pc[0] = "join"
  /\ AllExited
  /\ pc' = [w \in Workers |->
              CASE w = 0 -> IF CallFailed THEN "over" ELSE "merge"
                [] w # 0 -> IF pc[w] = "exited" THEN "joined" ELSE pc[w]]
  /\ IF CallFailed
     THEN outcome' = "threw" /\ UNCHANGED value
     ELSE value' = acc[0] /\ UNCHANGED outcome
  /\ UNCHANGED <<next, replica, cur, chunk, rng, acc, errors, merged, returned, calls>>

MergeGpu ==
  /\ pc[0] = "merge"
  /\ merged < G
  /\ value' = Merge(value, acc[merged + 1])
  /\ merged' = merged + 1
  /\ UNCHANGED <<next, replica, pc, cur, chunk, rng, acc, errors, returned,
                 outcome, calls>>

Return ==
  /\ pc[0] = "merge"
  /\ merged = G
  /\ returned' = value
  /\ outcome' = "ok"
  /\ pc' = [pc EXCEPT ![0] = "idle"]
  /\ UNCHANGED <<work, replica, calls>>

\* No further call: main has dumped its results, or has died.
Finished ==
  /\ pc[0] = "over" \/ (pc[0] = "idle" /\ calls = MaxCalls)
  /\ UNCHANGED vars

Worker(w) ==
  \/ \E c \in 0 .. next : Load(w, c)
  \/ ExchangeSucceeds(w)
  \/ ExchangeFails(w)
  \/ Reduce(w)

Next ==
  \/ Prepare \/ Start \/ SpawnFails \/ CpuFails \/ Join \/ MergeGpu \/ Return
  \/ \E g \in Gpus : Spawn(g) \/ GpuFails(g)
  \/ \E w \in Workers : Worker(w)
  \/ Finished

Spec == Init /\ [][Next]_vars

\* Threads are scheduled.  A thread that keeps loading sees the latest cursor
\* again and again, and a weak exchange against the latest value does not
\* fail spuriously for ever; both are what the C++ memory model asks of an
\* implementation.  Nothing obliges a caller to call run_once.
Fairness ==
  /\ WF_vars(Prepare) /\ WF_vars(Join) /\ WF_vars(MergeGpu) /\ WF_vars(Return)
  /\ WF_vars(\E g \in Gpus : Spawn(g))
  /\ \A w \in Workers :
       /\ WF_vars(Worker(w) \/ (w # 0 /\ GpuFails(w)))
       /\ SF_vars(Load(w, next))
       /\ SF_vars(ExchangeSucceeds(w))

FairSpec == Spec /\ Fairness

-----------------------------------------------------------------------------
(* Properties *)

WorkerPc == {"prepare", "idle", "spawn", "load", "exchange", "reduce", "join",
             "merge", "over", "off", "exited", "joined"}

\* Types, with the bounds claim keeps: the cursor never passes the end of the
\* dataset, and no worker ever asks for elements beyond it.
TypeOK ==
  /\ next \in 0 .. N
  /\ replica \in 0 .. Replicas - 1
  /\ pc \in [Workers -> WorkerPc]
  /\ cur \in [Workers -> 0 .. N]
  /\ chunk \in [Workers -> 0 .. N]
  /\ rng \in [Workers -> [offset : 0 .. N, count : 0 .. N]]
  /\ acc \in [Workers -> [Elements -> Nat]]
  /\ errors \subseteq Gpus
  /\ merged \in 0 .. G
  /\ value \in [Elements -> Nat]
  /\ returned \in [Elements -> Nat]
  /\ outcome \in {"none", "ok", "threw", "aborted"}
  /\ calls \in 0 .. MaxCalls

Holds(w, e) == e \in Span(rng[w]) \/ acc[w][e] > 0

\* claim hands every element out exactly once, whatever loads were stale and
\* exchanges failed: an element below the cursor is in the range or in the
\* value of exactly one worker, and in that value once; an element above the
\* cursor is nobody's.
ExactlyOneHolder ==
  /\ \A e \in Elements :
       /\ e < next => \E w \in Workers : Holds(w, e)
       /\ e >= next => \A w \in Workers : ~ Holds(w, e)
       /\ \A w, v \in Workers : Holds(w, e) /\ Holds(v, e) => w = v
  /\ \A w \in Workers, e \in Elements :
       /\ acc[w][e] <= 1
       /\ acc[w][e] = 1 => e \notin Span(rng[w])

\* run_once returns a value only if every element was folded into it exactly
\* once; a call in which a GPU thread recorded an error returns none.
ResultExact == outcome = "ok" => returned = Total /\ errors = {}

\* prepare sizes every GPU reducer for whatever it will be handed, by claim or
\* by the calibration, so that reduce never refuses a chunk ("capacity
\* contract" in prepare).
CapacityContract ==
  /\ pc[0] = "prepare" => CalibrationElements <= Capacity
  /\ \A g \in Gpus : pc[g] = "reduce" => rng[g].count <= Capacity

\* The GPU threads use run_once's locals by reference: none of them is alive
\* once the call has returned or thrown, and an error one recorded is not
\* outlived by a call that goes on to merge.
NoThreadOutlivesCall ==
  /\ pc[0] \in {"idle", "over", "merge"} =>
       \A g \in Gpus : pc[g] \in {"off", "joined", "over"}
  /\ pc[0] = "merge" => errors = {}

\* The cursor is rewound, the active replica changed and the values merged
\* only while no GPU thread runs: none of the three is synchronised with them.
QuiescentUpdates ==
  [][next' < next \/ replica' # replica \/ value' # value
       => \A g \in Gpus : pc[g] \notin {"load", "exchange", "reduce"}]_vars

\* The claim loops come to an end: a call that has begun returns, throws, or
\* takes the process down.
CallEnds == pc[0] \notin {"idle", "over"} ~> pc[0] \in {"idle", "over"}

Phase ==
  IF pc[0] \in {"prepare", "idle"} THEN "idle" ELSE
  IF pc[0] = "over" THEN "over" ELSE "running"
Absorbed == {e \in Elements : \E w \in Workers : acc[w][e] > 0}

Abstract == INSTANCE ParallelReduction WITH phase <- Phase, absorbed <- Absorbed

\* DynamicHybridStrategy keeps the promise of a strategy.
ImplementsReduction == Abstract!Spec
=============================================================================
