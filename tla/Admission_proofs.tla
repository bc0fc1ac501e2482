-------------------------- MODULE Admission_proofs --------------------------
(***************************************************************************)
(* Proofs about Admission and the arithmetic of Capacity, for every plan   *)
(* the catalogue allows, every machine and every course of its troubles.   *)
(***************************************************************************)
EXTENDS Admission, FiniteSetTheorems, TLAPS

-----------------------------------------------------------------------------
(* Arithmetic *)

LEMMA Monotone ==
  ASSUME NEW a \in Int, NEW b \in Int, NEW n \in Nat, a <= b
  PROVE  a * n <= b * n /\ n * a <= n * b
OBVIOUS

LEMMA Division ==
  ASSUME NEW a \in Nat, NEW b \in Nat \ {0}
  PROVE  /\ a \div b \in Nat
         /\ (a \div b) * b <= a
         /\ a < (a \div b) * b + b
OBVIOUS

\* q * b <= a exactly if q is no more than the quotient.
LEMMA AtMostQuotient ==
  ASSUME NEW a \in Nat, NEW b \in Nat \ {0}, NEW q \in Nat
  PROVE  q * b <= a <=> q <= a \div b
<1> DEFINE d == a \div b
<1>1. d \in Nat /\ d * b <= a /\ a < d * b + b
  BY Division
<1> HIDE DEF d
<1>2. ASSUME q <= d PROVE q * b <= a
  <2>1. q * b <= d * b
    BY <1>1, <1>2, Monotone
  <2>2. q * b \in Nat /\ d * b \in Nat
    BY <1>1
  <2> QED BY <1>1, <2>1, <2>2
<1>3. ASSUME ~(q <= d) PROVE ~(q * b <= a)
  <2>1. (d + 1) * b <= q * b
    BY <1>1, <1>3, Monotone
  <2>2. (d + 1) * b = d * b + b
    BY <1>1
  <2>3. q * b \in Nat /\ d * b \in Nat
    BY <1>1
  <2> QED BY <1>1, <2>1, <2>2, <2>3
<1> QED BY <1>2, <1>3 DEF d

LEMMA QuotientMonotone ==
  ASSUME NEW a \in Nat, NEW c \in Nat, a <= c, NEW b \in Nat \ {0}
  PROVE  a \div b <= c \div b
<1>1. a \div b \in Nat /\ (a \div b) * b <= a
  BY Division
<1>2. (a \div b) * b \in Nat
  BY <1>1
<1>3. (a \div b) * b <= c
  BY <1>1, <1>2
<1> QED BY <1>1, <1>3, AtMostQuotient

\* Dividing up.
LEMMA DivUpShape ==
  ASSUME NEW m \in Nat, NEW n \in Nat, m <= n, NEW b \in Nat \ {0}
  PROVE  /\ DivUp(m, b) \in Nat /\ DivUp(m, b) <= DivUp(n, b)
         /\ m \div b <= DivUp(n, b)
         /\ n > 0 => 1 <= DivUp(n, b) /\ DivUp(n, b) <= n
<1>1. m + b - 1 \in Nat /\ n + b - 1 \in Nat /\ m + b - 1 <= n + b - 1 /\ m <= n + b - 1
  OBVIOUS
<1>2. DivUp(m, b) \in Nat /\ DivUp(n, b) \in Nat
  BY <1>1, Division DEF DivUp
<1>3. DivUp(m, b) <= DivUp(n, b)
  BY <1>1, QuotientMonotone DEF DivUp
<1>4. m \div b <= DivUp(n, b)
  BY <1>1, QuotientMonotone DEF DivUp
<1>5. ASSUME n > 0 PROVE 1 <= DivUp(n, b)
  <2>1. 1 * b <= n + b - 1
    BY <1>5
  <2> QED BY <1>1, <2>1, AtMostQuotient DEF DivUp
<1>6. ASSUME n > 0 PROVE DivUp(n, b) <= n
  <2>1. ~((n + 1) * b <= n + b - 1)
    <3>1. (n + 1) * b = n * b + b
      OBVIOUS
    <3>2. n * 1 <= n * b
      BY Monotone
    <3>3. n * b \in Nat
      OBVIOUS
    <3> QED BY <3>1, <3>2, <3>3
  <2>2. ~(n + 1 <= DivUp(n, b))
    BY <1>1, <2>1, AtMostQuotient DEF DivUp
  <2> QED BY <1>2, <2>2
<1> QED BY <1>2, <1>3, <1>4, <1>5, <1>6

-----------------------------------------------------------------------------
(* Estimates and allocations *)

LEMMA Parameters ==
  ASSUME NEW t, Catalogued(t)
  PROVE  /\ t.size \in Nat \ {0} /\ t.chunk \in Nat \ {0} /\ t.maxChunk \in Nat \ {0}
         /\ t.streams \in Nat \ {0} /\ t.chunks \in Nat \ {0} /\ t.chunkElements \in Nat
         /\ t.gpus # {} => Count(t) \in Nat \ {0}
<1>1. t.gpus # {} => Count(t) \in Nat \ {0}
  BY FS_CardinalityType, FS_EmptySet DEF Catalogued, Count
<1> QED BY <1>1 DEF Catalogued

\* A reducer for m elements takes no more than is estimated for n.
LEMMA ReducerFits ==
  ASSUME NEW t, Catalogued(t), NEW m \in Nat \ {0}, NEW n \in Nat, m <= n
  PROVE  ReducerInput(t, m) <= Buffered(t, n)
<1>1. /\ t.streams \in Nat \ {0} /\ t.chunks \in Nat \ {0} /\ t.chunkElements \in Nat
  BY Parameters
<1>2. CASE ~ Async(t)
  BY <1>2 DEF ReducerInput, Buffered, Greater
<1>3. CASE Async(t)
  <2> DEFINE a == Greater(1, IF t.chunkElements > 0 THEN Lesser(m, t.chunkElements)
                             ELSE DivUp(m, t.chunks))
             b == IF t.chunkElements > 0 THEN Lesser(n, t.chunkElements) ELSE DivUp(n, t.chunks)
  <2>1. a \in Nat /\ b \in Nat /\ a <= b
    <3>1. CASE t.chunkElements > 0
      BY <1>1, <3>1 DEF Greater, Lesser
    <3>2. CASE ~(t.chunkElements > 0)
      <4>1. DivUp(m, t.chunks) \in Nat /\ DivUp(n, t.chunks) \in Nat
            /\ DivUp(m, t.chunks) <= DivUp(n, t.chunks) /\ 1 <= DivUp(n, t.chunks)
        <5>1. m \in Nat /\ n > 0 /\ n \in Nat /\ m <= n /\ t.chunks \in Nat \ {0}
          BY <1>1
        <5> HIDE DEF a, b
        <5>2. DivUp(m, t.chunks) \in Nat /\ DivUp(m, t.chunks) <= DivUp(n, t.chunks)
              /\ 1 <= DivUp(n, t.chunks)
          BY <5>1, DivUpShape
        <5>3. DivUp(n, t.chunks) \in Nat
          BY <5>1, DivUpShape
        <5> QED BY <5>2, <5>3
      <4> HIDE DEF DivUp
      <4> QED BY <3>2, <4>1 DEF Greater
    <3> QED BY <3>1, <3>2
  <2>2. ReducerInput(t, m) = t.streams * a /\ Buffered(t, n) = t.streams * b
    BY <1>3 DEF ReducerInput, Buffered, Pipelined
  <2> HIDE DEF a, b
  <2>3. t.streams * a <= t.streams * b
    BY <1>1, <2>1, Monotone
  <2> QED BY <2>2, <2>3
<1> QED BY <1>2, <1>3

\* No share is greater than the dataset; those of the equal partitions are no
\* greater than the share the estimate is made for.
LEMMA ShareFits ==
  ASSUME NEW t, Catalogued(t), t.gpus # {}, t.scheduler \notin Dynamic, NEW m \in Shares(t)
  PROVE  /\ m \in Nat /\ m <= t.size
         /\ t.scheduler = "gpu_static_equal" => m <= DivUp(t.size, Count(t))
         /\ t.scheduler = "static_equal" /\ t.storage # "file_stream" =>
              m <= DivUp(t.size, Count(t) + 1)
<1>1. t.size \in Nat \ {0} /\ Count(t) \in Nat \ {0} /\ Count(t) + 1 \in Nat \ {0}
  BY Parameters
<1>2. \A k \in {Count(t), Count(t) + 1} :
        /\ t.size \div k \in Nat /\ DivUp(t.size, k) \in Nat
        /\ t.size \div k <= DivUp(t.size, k) /\ DivUp(t.size, k) <= t.size
  <2> SUFFICES ASSUME NEW k \in {Count(t), Count(t) + 1}
               PROVE  /\ t.size \div k \in Nat /\ DivUp(t.size, k) \in Nat
                      /\ t.size \div k <= DivUp(t.size, k) /\ DivUp(t.size, k) <= t.size
    OBVIOUS
  <2>1. k \in Nat \ {0} /\ t.size \in Nat /\ t.size <= t.size /\ t.size > 0
    BY <1>1
  <2>2. DivUp(t.size, k) \in Nat /\ t.size \div k <= DivUp(t.size, k) /\ DivUp(t.size, k) <= t.size
    BY <2>1, DivUpShape
  <2>3. t.size \div k \in Nat
    BY <2>1, Division
  <2> QED BY <2>2, <2>3
<1>3. t.scheduler \in {"gpu_only", "gpu_static_equal", "gpu_static_profiled", "static_equal",
                       "static_profiled"}
  BY DEF Catalogued
<1> HIDE DEF Count, DivUp
<1>4. CASE t.scheduler = "gpu_only"
  BY <1>1, <1>4 DEF Shares
<1>5. CASE t.scheduler = "gpu_static_equal"
  <2>1. m \in {t.size \div Count(t), DivUp(t.size, Count(t))}
    BY <1>5 DEF Shares
  <2> QED BY <1>1, <1>2, <1>5, <2>1
<1>6. CASE t.scheduler = "static_equal"
  <2>1. m \in IF t.storage = "file_stream" THEN 0 .. t.size
              ELSE {t.size \div (Count(t) + 1), DivUp(t.size, Count(t) + 1)}
    BY <1>6 DEF Shares
  <2> QED BY <1>1, <1>2, <1>6, <2>1
<1>7. CASE t.scheduler \in {"gpu_static_profiled", "static_profiled"}
  <2>1. m \in 0 .. t.size
    BY <1>7 DEF Shares
  <2> QED BY <1>1, <1>7, <2>1
<1> QED BY <1>3, <1>4, <1>5, <1>6, <1>7

\* The input of a file stream takes no more than its bounded buffers.
LEMMA FileFits ==
  ASSUME NEW t, Catalogued(t), NEW m \in Nat, m <= t.size
  PROVE  FileInput(t, m) <= Bounded(t)
<1>1. /\ t.size \in Nat \ {0} /\ t.chunk \in Nat \ {0} /\ t.streams \in Nat \ {0}
      /\ t.chunkElements \in Nat /\ (t.chunkElements > 0 => Async(t))
  BY Parameters DEF Catalogued
<1> DEFINE q == IF t.chunkElements > 0 THEN t.chunkElements ELSE t.chunk
           a == Greater(1, Lesser(q, Greater(1, m)))
           b == Lesser(t.size, q)
<1>2. a \in Nat /\ b \in Nat /\ a <= b
  BY <1>1 DEF Greater, Lesser
<1>3. CASE Async(t)
  <2>1. FileInput(t, m) = t.streams * a /\ Bounded(t) = t.streams * b
    BY <1>3 DEF FileInput, Bounded
  <2> HIDE DEF a, b
  <2> QED BY <1>1, <1>2, <2>1, Monotone
<1>4. CASE ~ Async(t)
  <2>1. FileInput(t, m) = 1 * a /\ Bounded(t) = b
    BY <1>1, <1>4 DEF FileInput, Bounded
  <2> HIDE DEF a, b
  <2> QED BY <1>2, <2>1
<1> QED BY <1>3, <1>4

\* What a task takes on a GPU is a number.
LEMMA InputShape ==
  ASSUME NEW t, Catalogued(t), t.gpus # {}, t.storage # "gds", NEW x \in DeviceInputs(t)
  PROVE  x \in Nat
<1>1. /\ t.size \in Nat \ {0} /\ t.chunk \in Nat \ {0} /\ t.maxChunk \in Nat \ {0}
      /\ t.streams \in Nat \ {0} /\ t.chunks \in Nat \ {0} /\ t.chunkElements \in Nat
  BY Parameters
<1>2. \A m \in Shares(t) : m \in Nat
  <2>1. CASE t.scheduler \in Dynamic
    BY <1>1, <2>1 DEF Shares, Dynamic
  <2>2. CASE t.scheduler \notin Dynamic
    BY <2>2, ShareFits
  <2> QED BY <2>1, <2>2
<1>3. \A m \in Nat : FileInput(t, m) \in Nat
  BY <1>1 DEF FileInput, Greater, Lesser
<1>4. \A m \in Nat : ReducerInput(t, Greater(1, m)) \in Nat
  <2> SUFFICES ASSUME NEW m \in Nat PROVE ReducerInput(t, Greater(1, m)) \in Nat
    OBVIOUS
  <2>1. Greater(1, m) \in Nat /\ Greater(1, m) <= Greater(1, m)
    BY DEF Greater
  <2>2. DivUp(Greater(1, m), t.chunks) \in Nat
    BY <1>1, <2>1, DivUpShape
  <2> HIDE DEF DivUp
  <2> QED BY <1>1, <2>1, <2>2 DEF ReducerInput, Greater, Lesser
<1>5. Greater(1, Lesser(t.size, t.chunk)) \in Nat
  BY <1>1 DEF Greater, Lesser
<1> HIDE DEF Shares, FileInput, ReducerInput, Greater, Lesser
<1> QED BY <1>2, <1>3, <1>4, <1>5 DEF DeviceInputs

\* An exact estimate is a number.
LEMMA EstimateShape ==
  ASSUME NEW t, Catalogued(t), t.gpus # {}, Estimate(t).kind = "exact"
  PROVE  Estimate(t).elements \in Nat
<1>1. /\ t.size \in Nat \ {0} /\ t.chunk \in Nat \ {0} /\ t.maxChunk \in Nat \ {0}
      /\ t.streams \in Nat \ {0} /\ t.chunks \in Nat \ {0} /\ t.chunkElements \in Nat
      /\ Count(t) \in Nat \ {0}
  BY Parameters
<1>2. \A n \in Nat \ {0} : Buffered(t, n) \in Nat
  <2> SUFFICES ASSUME NEW n \in Nat \ {0} PROVE Buffered(t, n) \in Nat
    OBVIOUS
  <2>1. DivUp(n, t.chunks) \in Nat
    <3>1. n \in Nat /\ n <= n
      OBVIOUS
    <3> QED BY <1>1, <3>1, DivUpShape
  <2> QED BY <1>1, <2>1 DEF Buffered, Pipelined, Lesser
<1>3. Bounded(t) \in Nat
  BY <1>1 DEF Bounded, Lesser
<1>4. DivUp(t.size, Count(t)) \in Nat \ {0} /\ DivUp(t.size, Count(t) + 1) \in Nat \ {0}
  <2>1. Count(t) + 1 \in Nat \ {0} /\ t.size > 0 /\ t.size <= t.size /\ t.size \in Nat
    BY <1>1
  <2>2. /\ DivUp(t.size, Count(t)) \in Nat /\ 1 <= DivUp(t.size, Count(t))
        /\ DivUp(t.size, Count(t) + 1) \in Nat /\ 1 <= DivUp(t.size, Count(t) + 1)
    BY <1>1, <2>1, DivUpShape
  <2> QED BY <2>2
<1>5. Lesser(t.size, t.chunk) \in Nat /\ Lesser(t.size, t.maxChunk) \in Nat
  BY <1>1 DEF Lesser
<1> HIDE DEF Buffered, Bounded, DivUp, Count, Lesser
<1> QED BY <1>1, <1>2, <1>3, <1>4, <1>5 DEF Estimate, Of

\* An estimate that calls itself exact or an upper bound is one, for every task
\* of the catalogue and all its parameters - but for the dynamic schedulers on
\* data smaller than a chunk.
LEMMA EstimateCovers ==
  ASSUME NEW t, Catalogued(t), t.gpus # {}, t.storage # "gds", ~ ChunkBeyondData(t),
         Estimate(t).kind \in {"exact", "upper_bound"}, NEW x \in DeviceInputs(t)
  PROVE  x <= Estimate(t).elements
<1>1. /\ t.size \in Nat \ {0} /\ t.chunk \in Nat \ {0} /\ t.maxChunk \in Nat \ {0}
      /\ Count(t) \in Nat \ {0}
  BY Parameters
<1>2. t.path \notin HostPaths
  BY DEF Estimate, Of
<1>3. CASE t.storage = "file_stream"
  <2>1. PICK m \in Shares(t) : x = FileInput(t, m)
    BY <1>3 DEF DeviceInputs
  <2>2. m \in Nat /\ m <= t.size
    BY <1>3, ShareFits DEF Catalogued
  <2>3. Estimate(t).elements = Bounded(t)
    BY <1>2, <1>3 DEF Estimate, Of
  <2> QED BY <2>1, <2>2, <2>3, FileFits
<1>4. CASE t.storage = "host_resident" /\ t.path \in ChunkPaths
  <2>1. x = Greater(1, Lesser(t.size, t.chunk)) /\ ~ Async(t)
    BY <1>2, <1>4 DEF DeviceInputs, Catalogued
  <2>2. Estimate(t).elements = Lesser(t.size, t.chunk)
    BY <1>2, <1>4, <2>1 DEF Estimate, Of, Bounded
  <2> QED BY <1>1, <2>1, <2>2 DEF Greater, Lesser
<1>5. CASE t.storage = "host_resident" /\ t.path \notin ChunkPaths
  <2>1. PICK m \in Shares(t) : x = ReducerInput(t, Greater(1, m))
    BY <1>2, <1>5 DEF DeviceInputs
  <2>2. CASE t.scheduler \in Dynamic
    <3>1. ~ Async(t)
      BY <2>2 DEF Catalogued
    <3>2. CASE t.scheduler = "dynamic_fixed"
      <4>1. m = t.chunk /\ Estimate(t).elements = Lesser(t.size, t.chunk) /\ t.chunk <= t.size
        BY <1>1, <1>2, <1>5, <2>2, <3>2 DEF Shares, Estimate, Of, ChunkBeyondData
      <4> QED BY <1>1, <2>1, <3>1, <4>1 DEF ReducerInput, Greater, Lesser
    <3>3. CASE t.scheduler \in {"dynamic_guided", "dynamic_adaptive"}
      <4>1. m = t.maxChunk /\ Estimate(t).elements = Lesser(t.size, t.maxChunk)
            /\ t.maxChunk <= t.size
        BY <1>1, <1>2, <1>5, <2>2, <3>3 DEF Shares, Estimate, Of, ChunkBeyondData
      <4> QED BY <1>1, <2>1, <3>1, <4>1 DEF ReducerInput, Greater, Lesser
    <3> QED BY <2>2, <3>2, <3>3 DEF Dynamic
  <2>3. CASE t.scheduler \notin Dynamic
    <3>1. /\ m \in Nat /\ m <= t.size
          /\ t.scheduler = "gpu_static_equal" => m <= DivUp(t.size, Count(t))
          /\ t.scheduler = "static_equal" => m <= DivUp(t.size, Count(t) + 1)
      BY <1>5, <2>3, ShareFits
    <3>2. /\ DivUp(t.size, Count(t)) \in Nat \ {0}
          /\ DivUp(t.size, Count(t) + 1) \in Nat \ {0}
      <4>1. Count(t) + 1 \in Nat \ {0} /\ t.size > 0 /\ t.size <= t.size /\ t.size \in Nat
        BY <1>1
      <4>2. /\ DivUp(t.size, Count(t)) \in Nat /\ 1 <= DivUp(t.size, Count(t))
            /\ DivUp(t.size, Count(t) + 1) \in Nat /\ 1 <= DivUp(t.size, Count(t) + 1)
        BY <1>1, <4>1, DivUpShape
      <4> QED BY <4>2
    <3>3. \A n \in Nat \ {0} : m <= n => ReducerInput(t, Greater(1, m)) <= Buffered(t, n)
      <4> SUFFICES ASSUME NEW n \in Nat \ {0}, m <= n
                   PROVE  ReducerInput(t, Greater(1, m)) <= Buffered(t, n)
        OBVIOUS
      <4>1. Greater(1, m) \in Nat \ {0} /\ Greater(1, m) <= n
        BY <3>1 DEF Greater
      <4> QED BY <4>1, ReducerFits
    <3>4. CASE t.scheduler = "gpu_only"
      <4>1. Estimate(t).elements = Buffered(t, t.size)
        BY <1>2, <1>5, <3>4 DEF Estimate, Of
      <4> QED BY <1>1, <2>1, <3>1, <3>3, <4>1
    <3>5. CASE t.scheduler = "gpu_static_equal"
      <4>1. Estimate(t).elements = Buffered(t, DivUp(t.size, Count(t)))
        BY <1>2, <1>5, <3>5 DEF Estimate, Of
      <4> QED BY <2>1, <3>1, <3>2, <3>3, <3>5, <4>1
    <3>6. CASE t.scheduler = "static_equal"
      <4>1. Estimate(t).elements = Buffered(t, DivUp(t.size, Count(t) + 1))
        BY <1>2, <1>5, <3>6 DEF Estimate, Of
      <4> QED BY <2>1, <3>1, <3>2, <3>3, <3>6, <4>1
    <3>7. CASE t.scheduler = "static_profiled"
      <4>1. Async(t) /\ Estimate(t).elements = Pipelined(t, t.size)
        BY <1>2, <1>5, <3>7 DEF Estimate, Of
      <4>2. Estimate(t).elements = Buffered(t, t.size)
        BY <4>1 DEF Buffered
      <4> QED BY <1>1, <2>1, <3>1, <3>3, <4>2
    <3>8. t.scheduler \notin {"gpu_static_profiled", "cpu_only"}
      BY <1>2, <1>5 DEF Estimate, Of, Catalogued
    <3> QED BY <2>3, <3>4, <3>5, <3>6, <3>7, <3>8 DEF Catalogued
  <2> QED BY <2>2, <2>3
<1> QED BY <1>3, <1>4, <1>5 DEF Catalogued

-----------------------------------------------------------------------------
(* The invariant *)

RunningAt == {"timing_thermal", "timing_idle", "timing", "energy_thermal", "energy_idle", "measure"}
CheckedRam  == {"vram", "artifact", "thermal", "idle", "launch"} \cup RunningAt
CheckedVram == CheckedRam \ {"vram"}

\* The task at hand is one of the plan, and has passed the budgets behind it.
TaskInv ==
  /\ pc \in {"spec"} \cup CheckedRam => index \in DOMAIN Plan
  /\ pc \in CheckedRam => ~ OverRam(Task)
  /\ pc \in CheckedVram => ~ OverExactVram(Task)

\* What the worker holds is what it allocates for the task.
HeldInv ==
  Running =>
    /\ Task.storage # "gds"
    /\ held.host = HostInput(Machine, Task)
    /\ held.at \in Task.gpus => held.gpu \in DeviceInputs(Task)

\* An accepted plan has passed the budgets of the preflight.
AcceptedInv == Accepted => TooBig = {} /\ Overcommitted = {}

\* What is amiss now has been amiss; past the thermal guard heat was seen, and
\* past the idleness gate everything else.
Warned(g) == {<<"blind", g>>, <<"lost", g>>} \cap ever # {}
HeatSeen ==
  /\ <<"hot", Cpu>> \in always => <<"blind", Cpu>> \in ever
  /\ \A g \in Task.gpus : <<"hot", g>> \in always => \E h \in Task.gpus : Warned(h)
UseSeen ==
  /\ <<"busy", Cpu>> \notin always
  /\ \A g \in Task.gpus :
       /\ <<"lost", g>> \notin always
       /\ <<"compute", g>> \in always => <<"blind", g>> \in ever
       /\ <<"graphics", g>> \in always => Config.graphics \/ <<"blind", g>> \in ever
QuietInv ==
  /\ Running => amiss \subseteq ever
  /\ pc \in {"timing_idle", "timing", "energy_idle", "measure"} /\ Machine.nvml =>
       Config.timeout = 0 \/ HeatSeen
  /\ pc \in {"timing", "measure"} /\ Config.strict /\ Machine.nvml => UseSeen

IInv ==
  /\ scenario \in Scenarios /\ TypeOK /\ TaskInv /\ HeldInv /\ AcceptedInv /\ VerdictsAgree
  /\ QuietInv

\* What depends on the scenario alone.
LEMMA Frame ==
  ASSUME scenario' = scenario
  PROVE  /\ Config' = Config /\ Machine' = Machine /\ Plan' = Plan /\ Planned' = Planned
         /\ Sizes' = Sizes /\ TooBig' = TooBig /\ Overcommitted' = Overcommitted
         /\ \A t : OverRam(t)' = OverRam(t)
         /\ \A t : OverExactVram(t)' = OverExactVram(t)
         /\ index' = index => Task' = Task
<1>1. Config' = Config /\ Machine' = Machine /\ Plan' = Plan
  BY DEF Config, Machine, Plan
<1>2. Planned' = Planned
  BY <1>1 DEF Planned
<1>3. Sizes' = Sizes
  BY <1>2 DEF Sizes
<1>4. TooBig' = TooBig
  BY <1>1, <1>2, <1>3 DEF TooBig, NeedsHost, RamLimit
<1>5. Overcommitted' = Overcommitted
  BY <1>1, <1>2 DEF Overcommitted
<1>6. \A t : OverRam(t)' = OverRam(t)
  BY <1>1 DEF OverRam
<1>7. \A t : OverExactVram(t)' = OverExactVram(t)
  BY <1>1 DEF OverExactVram
<1>8. index' = index => Task' = Task
  BY <1>1 DEF Task
<1> QED BY <1>1, <1>2, <1>3, <1>4, <1>5, <1>6, <1>7, <1>8

LEMMA Constants ==
  ASSUME scenario \in Scenarios
  PROVE  /\ MaxChanges \in Nat /\ Config.timeout \in Nat
         /\ Machine.ram \in Nat \ {0} /\ Machine.maxReplicas \in Nat \ {0}
         /\ Machine.ramPercent \in Nat /\ Machine.vramPercent \in Nat /\ Machine.target \in Nat
         /\ Len(Plan) \in Nat \ {0} /\ DOMAIN Plan = 1 .. Len(Plan)
         /\ \A i \in DOMAIN Plan : /\ Catalogued(Plan[i])
                                   /\ \A g \in Plan[i].gpus : Machine.nvml /\ Machine.free[g] \in Nat
<1>1. Plan # <<>> /\ Plan \in Seq({Plan[i] : i \in DOMAIN Plan})
  BY AdmissionAssumption DEF Plan
<1>2. Len(Plan) \in Nat \ {0} /\ DOMAIN Plan = 1 .. Len(Plan)
  BY <1>1
<1>3. \A i \in DOMAIN Plan : /\ Catalogued(Plan[i])
                             /\ \A g \in Plan[i].gpus : Machine.nvml /\ Machine.free[g] \in Nat
  BY AdmissionAssumption DEF Plan, Machine
<1>4. /\ MaxChanges \in Nat /\ Config.timeout \in Nat
      /\ Machine.ram \in Nat \ {0} /\ Machine.maxReplicas \in Nat \ {0}
      /\ Machine.ramPercent \in Nat /\ Machine.vramPercent \in Nat /\ Machine.target \in Nat
  BY AdmissionAssumption DEF Config, Machine
<1> QED BY <1>2, <1>3, <1>4

\* The two ways to compare with the budget of the host agree.
LEMMA BudgetsAgree ==
  ASSUME scenario \in Scenarios, NEW n \in Nat
  PROVE  n * 100 > Machine.ramPercent * Greater(1, Machine.ram) <=> n > RamLimit
<1>1. Machine.ram \in Nat \ {0} /\ Machine.ramPercent \in Nat
  BY Constants
<1>2. Greater(1, Machine.ram) = Machine.ram
  BY <1>1 DEF Greater
<1>3. Machine.ram * Machine.ramPercent \in Nat
      /\ Machine.ramPercent * Machine.ram = Machine.ram * Machine.ramPercent
  BY <1>1
<1>4. n * 100 <= Machine.ram * Machine.ramPercent <=> n <= RamLimit
  BY <1>3, AtMostQuotient DEF RamLimit
<1>5. RamLimit \in Nat
  BY <1>3, Division DEF RamLimit
<1> QED BY <1>2, <1>3, <1>4, <1>5

LEMMA ResidentShape ==
  ASSUME scenario \in Scenarios, NEW n \in Nat \ {0}
  PROVE  Resident(Machine, n) \in Nat /\ n <= Resident(Machine, n)
<1>1. Machine.maxReplicas \in Nat \ {0} /\ Machine.target \in Nat
  BY Constants
<1>2. DivUp(Machine.target, n) \in Nat
  BY <1>1, DivUpShape
<1>3. Replicas(Machine, n) \in Nat \ {0}
  BY <1>1, <1>2 DEF Replicas, Greater, Lesser
<1> HIDE DEF Replicas
<1>4. n * 1 <= n * Replicas(Machine, n)
  BY <1>3, Monotone
<1>5. n * Replicas(Machine, n) \in Nat
  BY <1>3
<1> QED BY <1>4, <1>5 DEF Resident

\* What the worker keeps on the host is no more than what the checks assume.
LEMMA HostFits ==
  ASSUME scenario \in Scenarios, NEW i \in DOMAIN Plan, ~ OverRam(Plan[i])
  PROVE  HostInput(Machine, Plan[i]) <= RamLimit
<1> DEFINE t == Plan[i]
<1>1. Catalogued(t) /\ t.size \in Nat \ {0}
  BY Constants, Parameters
<1>2. RamLimit \in Nat /\ Machine.target \in Nat
  <2>1. Machine.ram * Machine.ramPercent \in Nat /\ Machine.target \in Nat
    BY Constants
  <2> QED BY <2>1, Division DEF RamLimit
<1>3. CASE t.storage # "host_resident"
  BY <1>2, <1>3 DEF HostInput
<1>4. CASE t.storage = "host_resident"
  <2>1. Resident(Machine, t.size) \in Nat /\ t.size <= Resident(Machine, t.size)
    BY <1>1, ResidentShape
  <2>2. ~(Resident(Machine, t.size) * 100 > Machine.ramPercent * Greater(1, Machine.ram))
    BY <1>4 DEF OverRam
  <2>3. Resident(Machine, t.size) <= RamLimit
    BY <1>2, <2>1, <2>2, BudgetsAgree
  <2>4. HostInput(Machine, t) \in {t.size, Resident(Machine, t.size)}
    BY <1>1, <1>2, <1>4 DEF HostInput, Resident, Replicas
  <2> QED BY <1>1, <1>2, <2>1, <2>3, <2>4
<1> QED BY <1>3, <1>4

\* What the preflight accepts, the runner does not refuse.
LEMMA BudgetsAccepted ==
  ASSUME scenario \in Scenarios, TooBig = {}, Overcommitted = {}, NEW i \in DOMAIN Plan
  PROVE  ~ OverRam(Plan[i]) /\ ~ OverExactVram(Plan[i])
<1> DEFINE t == Plan[i]
<1>1. Catalogued(t) /\ t.size \in Nat \ {0} /\ t \in Planned
  BY Constants, Parameters DEF Planned
<1>2. ~ OverExactVram(t)
  BY <1>1 DEF OverExactVram, Overcommitted
<1>3. ASSUME t.storage = "host_resident"
      PROVE  ~(Resident(Machine, t.size) * 100 > Machine.ramPercent * Greater(1, Machine.ram))
  <2>1. ~(Resident(Machine, t.size) > RamLimit)
    BY <1>1, <1>3 DEF TooBig, NeedsHost, Sizes
  <2>2. Resident(Machine, t.size) \in Nat
    BY <1>1, ResidentShape
  <2> QED BY <2>1, <2>2, BudgetsAgree
<1> QED BY <1>2, <1>3 DEF OverRam

\* The findings of the preflight that matter here.
LEMMA FatalShape ==
  /\ Fatal \subseteq Reasons
  /\ "ram" \in Fatal <=> TooBig # {}
  /\ "vram" \in Fatal <=> Overcommitted # {}
BY DEF Fatal, Reasons

LEMMA InitInv == Init => IInv
<1> SUFFICES ASSUME Init PROVE IInv
  OBVIOUS
<1>1. scenario \in Scenarios /\ pc = "preflight"
  BY DEF Init
<1>2. TypeOK
  BY <1>1, Constants DEF Init, TypeOK
<1>3. TaskInv /\ HeldInv /\ AcceptedInv /\ QuietInv
  BY <1>1 DEF TaskInv, HeldInv, AcceptedInv, QuietInv, CheckedRam, CheckedVram, RunningAt,
              Running, Accepted
<1>4. VerdictsAgree
  BY DEF Init, VerdictsAgree
<1> QED BY <1>1, <1>2, <1>3, <1>4 DEF IInv

\* The machine changes.
LEMMA ChangeInv == ASSUME IInv, Change PROVE IInv'
<1>1. /\ UNCHANGED <<scenario, cached, pc, index, fatal, waited, held, failed>>
      /\ changes' = changes + 1 /\ changes < MaxChanges
      /\ amiss' \subseteq scenario.troubles /\ always' = always \cap amiss'
      /\ ever' = ever \cup amiss'
  BY DEF Change, IInv, TypeOK
<1>2. /\ Config' = Config /\ Machine' = Machine /\ Plan' = Plan /\ Planned' = Planned
      /\ Sizes' = Sizes /\ TooBig' = TooBig /\ Overcommitted' = Overcommitted
      /\ (\A t : OverRam(t)' = OverRam(t)) /\ (\A t : OverExactVram(t)' = OverExactVram(t))
      /\ Task' = Task
  BY <1>1, Frame
<1>3. TypeOK'
  <2>1. changes' \in 0 .. MaxChanges /\ changes' # 0
    BY <1>1, Constants DEF IInv, TypeOK
  <2> QED BY <1>1, <1>2, <2>1 DEF IInv, TypeOK
<1>4. TaskInv' /\ HeldInv' /\ AcceptedInv'
  BY <1>1, <1>2 DEF IInv, TaskInv, HeldInv, AcceptedInv, Running, Accepted
<1>5. VerdictsAgree'
  <2>1. changes' # 0
    BY <1>1 DEF IInv, TypeOK
  <2> QED BY <1>1, <1>2, <2>1 DEF IInv, VerdictsAgree
<1>6. QuietInv'
  <2>1. HeatSeen => HeatSeen'
    BY <1>1, <1>2 DEF HeatSeen, Warned
  <2>2. UseSeen => UseSeen'
    BY <1>1, <1>2 DEF UseSeen
  <2> QED BY <1>1, <1>2, <2>1, <2>2 DEF IInv, QuietInv, Running
<1> QED BY <1>1, <1>3, <1>4, <1>5, <1>6 DEF IInv

\* A step of the campaign before there is a task to run: only what the next
\* place requires is to be shown.
LEMMA StepInv1 ==
  ASSUME IInv, UNCHANGED <<scenario, amiss, changes>>, pc' \notin {"preflight"} \cup RunningAt,
         waited' \in 0 .. Config.timeout, cached' \subseteq Sizes, index' \in 0 .. Len(Plan),
         always' \subseteq amiss, always' \subseteq ever',
         pc' \in {"refused", "datasets", "next", "spec", "vram", "artifact", "thermal",
                  "idle", "launch", "done"},
         fatal' = fatal \/ fatal' = Fatal,
         failed' = failed \/ (\E why \in {"heat", "idle"} :
                                /\ failed' = failed \cup {<<index, why>>} /\ index \in DOMAIN Plan
                                /\ ~(changes = 0 /\ amiss = {})),
         TaskInv', AcceptedInv'
  PROVE  IInv'
<1>1. /\ Config' = Config /\ Machine' = Machine /\ Plan' = Plan /\ Planned' = Planned
      /\ Sizes' = Sizes /\ TooBig' = TooBig /\ Overcommitted' = Overcommitted
      /\ (\A t : OverRam(t)' = OverRam(t)) /\ (\A t : OverExactVram(t)' = OverExactVram(t))
      /\ scenario \in Scenarios /\ scenario' \in Scenarios
  BY Frame DEF IInv
<1>2. TypeOK'
  <2>1. failed' \subseteq (1 .. Len(Plan)) \X {"ram", "vram", "heat", "idle"}
    BY <1>1, Constants DEF IInv, TypeOK
  <2>2. fatal' \subseteq Reasons
    BY FatalShape DEF IInv, TypeOK
  <2> QED BY <1>1, <2>1, <2>2 DEF IInv, TypeOK
<1>3. HeldInv' /\ QuietInv'
  BY DEF HeldInv, QuietInv, Running, RunningAt
<1>4. VerdictsAgree'
  <2>1. \A f \in failed' : f[2] \notin {"ram", "vram"}
    BY DEF IInv, VerdictsAgree
  <2>2. changes' = 0 /\ amiss' = {} => failed' = {}
    BY DEF IInv, VerdictsAgree
  <2>3. "ram" \in Fatal => \E t \in Planned : OverRam(t)
    <3> SUFFICES ASSUME TooBig # {} PROVE \E t \in Planned : OverRam(t)
      BY FatalShape
    <3>1. PICK size \in Sizes : NeedsHost(size) /\ Resident(Machine, size) > RamLimit
      BY DEF TooBig
    <3>2. PICK t \in Planned : t.size = size /\ t.storage = "host_resident"
      BY <3>1 DEF NeedsHost
    <3>3. Catalogued(t) /\ t.size \in Nat \ {0}
      BY <1>1, <3>2, Constants, Parameters DEF Planned
    <3>4. Resident(Machine, size) * 100 > Machine.ramPercent * Greater(1, Machine.ram)
      BY <1>1, <3>1, <3>2, <3>3, ResidentShape, BudgetsAgree
    <3> QED BY <3>2, <3>4 DEF OverRam
  <2>4. "vram" \in Fatal => \E t \in Planned : OverExactVram(t)
    BY FatalShape DEF Overcommitted, OverExactVram
  <2>5. /\ "ram" \in fatal' => \E t \in Planned : OverRam(t)
        /\ "vram" \in fatal' => \E t \in Planned : OverExactVram(t)
    BY <2>3, <2>4 DEF IInv, VerdictsAgree
  <2> QED BY <1>1, <2>1, <2>2, <2>5 DEF VerdictsAgree
<1> QED BY <1>1, <1>2, <1>3, <1>4 DEF IInv

LEMMA PreflightInv == ASSUME IInv, Preflight PROVE IInv'
<1>1. /\ pc = "preflight" /\ UNCHANGED <<scenario, amiss, changes, cached, index, waited, held, always, ever, failed>>
      /\ fatal' = Fatal /\ pc' = IF Fatal = {} THEN "datasets" ELSE "refused"
  BY DEF Preflight, At, Goto
<1>2. TooBig' = TooBig /\ Overcommitted' = Overcommitted
  BY <1>1, Frame
<1>3. AcceptedInv'
  BY <1>1, <1>2, FatalShape DEF AcceptedInv, Accepted
<1>4. TaskInv'
  BY <1>1 DEF TaskInv, CheckedRam, CheckedVram, RunningAt
<1>5. pc' \in {"datasets", "refused"}
  BY <1>1
<1> QED BY <1>1, <1>3, <1>4, <1>5, StepInv1 DEF IInv, TypeOK, RunningAt

LEMMA PrepareInv == ASSUME IInv, PrepareDatasets PROVE IInv'
<1>1. /\ pc = "datasets" /\ pc' = "next" /\ cached' = Sizes
      /\ UNCHANGED <<scenario, amiss, changes, index, fatal, waited, held, always, ever, failed>>
  BY DEF PrepareDatasets, At, Goto
<1>2. TooBig' = TooBig /\ Overcommitted' = Overcommitted
  BY <1>1, Frame
<1>3. AcceptedInv'
  BY <1>1, <1>2 DEF IInv, AcceptedInv, Accepted
<1>4. TaskInv'
  BY <1>1 DEF TaskInv, CheckedRam, CheckedVram, RunningAt
<1> QED BY <1>1, <1>3, <1>4, StepInv1 DEF IInv, TypeOK, RunningAt

LEMMA NextTaskInv == ASSUME IInv, NextTask PROVE IInv'
<1>1. /\ pc = "next" /\ UNCHANGED <<scenario, amiss, changes, cached, fatal, waited, failed>>
      /\ always' = {} /\ ever' = {}
      /\ \/ pc' = "spec" /\ index < Len(Plan) /\ index' = index + 1
         \/ pc' = "done" /\ index' = index
  BY DEF NextTask, At, Goto
<1>2. /\ TooBig' = TooBig /\ Overcommitted' = Overcommitted /\ Plan' = Plan
      /\ scenario \in Scenarios
  BY <1>1, Frame DEF IInv
<1>3. AcceptedInv'
  BY <1>1, <1>2 DEF IInv, AcceptedInv, Accepted
<1>4. index' \in 0 .. Len(Plan) /\ (pc' = "spec" => index' \in DOMAIN Plan)
  BY <1>1, <1>2, Constants DEF IInv, TypeOK
<1>5. TaskInv'
  BY <1>1, <1>2, <1>4 DEF TaskInv, CheckedRam, CheckedVram, RunningAt
<1> QED BY <1>1, <1>3, <1>4, <1>5, StepInv1 DEF IInv, TypeOK, RunningAt

\* A task passes a gate on its way to the worker, or fails at it.
LEMMA GateInv ==
  ASSUME IInv, NEW p \in {"vram", "artifact", "thermal", "idle", "launch", "next"},
         pc' = p, pc \in {"spec"} \cup CheckedRam,
         UNCHANGED <<scenario, amiss, changes, cached, index, fatal, held>>,
         always' \subseteq amiss, always' \subseteq ever',
         waited' \in 0 .. Config.timeout,
         failed' = failed \/ (\E why \in {"heat", "idle"} :
                                failed' = failed \cup {<<index, why>>} /\ ~(changes = 0 /\ amiss = {}))
  PROVE  IInv'
<1>1. /\ TooBig' = TooBig /\ Overcommitted' = Overcommitted /\ Plan' = Plan /\ Task' = Task
      /\ (\A t : OverRam(t)' = OverRam(t)) /\ (\A t : OverExactVram(t)' = OverExactVram(t))
      /\ scenario \in Scenarios
  BY Frame DEF IInv
<1>2. index \in DOMAIN Plan
  BY DEF IInv, TaskInv
<1>3. TooBig = {} /\ Overcommitted = {}
  BY DEF IInv, AcceptedInv, Accepted, CheckedRam, RunningAt
<1>4. ~ OverRam(Task) /\ ~ OverExactVram(Task)
  BY <1>1, <1>2, <1>3, BudgetsAccepted DEF Task
<1>5. OverRam(Task)' = OverRam(Task) /\ OverExactVram(Task)' = OverExactVram(Task)
  BY <1>1 DEF OverRam, OverExactVram, Machine, Estimate, OverVram
<1>6. TaskInv' /\ AcceptedInv'
  BY <1>1, <1>2, <1>3, <1>4, <1>5 DEF TaskInv, AcceptedInv
<1>7. index' \in 0 .. Len(Plan)
  BY DEF IInv, TypeOK
<1>8. pc' \notin {"preflight"} \cup RunningAt
  BY DEF RunningAt
<1>9. failed' = failed \/ (\E why \in {"heat", "idle"} :
                              /\ failed' = failed \cup {<<index, why>>} /\ index \in DOMAIN Plan
                              /\ ~(changes = 0 /\ amiss = {}))
  BY <1>2
<1>10. cached' \subseteq Sizes /\ fatal' = fatal
  BY DEF IInv, TypeOK
<1> QED BY <1>6, <1>7, <1>8, <1>9, <1>10, StepInv1

\* The worker goes on.
LEMMA WorkerInv ==
  ASSUME IInv, pc' \in RunningAt, pc \in {"launch"} \cup RunningAt,
         UNCHANGED <<scenario, amiss, changes, cached, index, fatal, failed>>,
         waited' \in 0 .. Config.timeout, always' \subseteq amiss, always' \subseteq ever',
         HeldInv', QuietInv'
  PROVE  IInv'
<1>1. /\ Config' = Config /\ Plan' = Plan /\ Planned' = Planned
      /\ Sizes' = Sizes /\ TooBig' = TooBig /\ Overcommitted' = Overcommitted /\ Task' = Task
      /\ (\A t : OverRam(t)' = OverRam(t)) /\ (\A t : OverExactVram(t)' = OverExactVram(t))
  BY Frame
<1>2. TypeOK'
  BY <1>1 DEF IInv, TypeOK, RunningAt
<1>3. OverRam(Task)' = OverRam(Task) /\ OverExactVram(Task)' = OverExactVram(Task)
  BY <1>1 DEF OverRam, OverExactVram, Machine, Estimate, OverVram
<1>4. TaskInv'
  BY <1>1, <1>3 DEF IInv, TaskInv, CheckedRam, CheckedVram, RunningAt
<1>5. AcceptedInv'
  BY <1>1 DEF IInv, AcceptedInv, Accepted, RunningAt
<1>6. VerdictsAgree'
  BY <1>1 DEF IInv, VerdictsAgree
<1> QED BY <1>2, <1>4, <1>5, <1>6 DEF IInv

LEMMA ChecksInv == ASSUME IInv, CheckSpec \/ CheckGpu \/ CheckArtifact PROVE IInv'
<1>1. /\ UNCHANGED <<scenario, amiss, changes, cached, index, fatal, held, always, ever>>
      /\ pc \in {"spec", "vram", "artifact"}
  BY DEF CheckSpec, CheckGpu, CheckArtifact, Gate, At
<1>2. ~ OverRam(Task) /\ ~ OverExactVram(Task)
  <2>1. index \in DOMAIN Plan /\ TooBig = {} /\ Overcommitted = {} /\ scenario \in Scenarios
    BY <1>1 DEF IInv, TaskInv, AcceptedInv, Accepted, CheckedRam
  <2> QED BY <2>1, BudgetsAccepted DEF Task
<1>3. pc' \in {"vram", "artifact", "thermal"} /\ failed' = failed /\ waited' \in {0, waited}
  BY <1>2 DEF CheckSpec, CheckGpu, CheckArtifact, Goto
<1>4. /\ always' \subseteq amiss /\ always' \subseteq ever' /\ waited' \in 0 .. Config.timeout
  BY <1>1, <1>3, Constants DEF IInv, TypeOK
<1> QED BY <1>1, <1>3, <1>4, GateInv DEF CheckedRam

\* On a machine left alone every gate opens.
LEMMA LeftAlone ==
  ASSUME amiss = {}
  PROVE  /\ CpuSafe /\ GpuSafe
         /\ pc = "idle" => RuntimeIdle({})
         /\ pc \in {"timing_idle", "energy_idle"} => RuntimeIdle({Worker})
<1>1. \A k, p : ~ There(k, p)
  BY DEF There
<1>2. CpuSafe /\ GpuSafe
  BY <1>1 DEF CpuSafe, GpuSafe
<1>3. \A g : /\ pc = "idle" => Intruders(g, {}) = {}
             /\ pc \in {"timing_idle", "energy_idle"} => Intruders(g, {Worker}) = {}
  BY <1>1 DEF Intruders, Computing
<1> QED BY <1>1, <1>2, <1>3 DEF RuntimeIdle

\* One round of the thermal guard.
LEMMA WaitShape ==
  ASSUME IInv, NEW p, NEW safe, WaitUntilSafe(p, safe)
  PROVE  /\ pc = p /\ UNCHANGED <<scenario, amiss, changes, cached, index, fatal, held, always, ever>>
         /\ waited' \in 0 .. Config.timeout
         /\ \/ pc' = safe /\ failed' = failed /\ (Config.timeout = 0 \/ (CpuSafe /\ GpuSafe))
            \/ pc' = p /\ failed' = failed
            \/ /\ pc' = "next" /\ failed' = failed \cup {<<index, "heat">>}
               /\ ~(changes = 0 /\ amiss = {})
<1>1. pc = p /\ UNCHANGED <<scenario, amiss, changes, cached, index, fatal, held, always, ever>>
  BY DEF WaitUntilSafe, Gate, At
<1>2. waited \in 0 .. Config.timeout /\ Config.timeout \in Nat
  BY Constants DEF IInv, TypeOK
<1>3. CASE Config.timeout = 0 \/ (CpuSafe /\ GpuSafe)
  BY <1>1, <1>2, <1>3 DEF WaitUntilSafe, Goto
<1>4. CASE ~(Config.timeout = 0 \/ (CpuSafe /\ GpuSafe)) /\ Expired
  <2>1. amiss # {}
    BY <1>4, LeftAlone
  <2> QED BY <1>1, <1>2, <1>4, <2>1 DEF WaitUntilSafe, Fail
<1>5. CASE ~(Config.timeout = 0 \/ (CpuSafe /\ GpuSafe)) /\ ~ Expired
  <2>1. pc' = p /\ failed' = failed /\ waited' = waited + 1
    BY <1>5 DEF WaitUntilSafe, Sleep
  <2> QED BY <1>1, <1>2, <1>5, <2>1 DEF Expired
<1> QED BY <1>3, <1>4, <1>5

LEMMA ThermalInv == ASSUME IInv, ThermalWait PROVE IInv'
<1>1. /\ pc = "thermal" /\ UNCHANGED <<scenario, amiss, changes, cached, index, fatal, held, always, ever>>
      /\ waited' \in 0 .. Config.timeout
      /\ \/ pc' \in {"thermal", "idle"} /\ failed' = failed
         \/ /\ pc' = "next" /\ failed' = failed \cup {<<index, "heat">>}
            /\ ~(changes = 0 /\ amiss = {})
  BY WaitShape DEF ThermalWait
<1>2. always' \subseteq amiss /\ always' \subseteq ever'
  BY <1>1 DEF IInv, TypeOK
<1> QED BY <1>1, <1>2, GateInv DEF CheckedRam

LEMMA IdleInv == ASSUME IInv, Idle PROVE IInv'
<1>1. /\ pc = "idle" /\ UNCHANGED <<scenario, amiss, changes, cached, index, fatal, held, always, ever, waited>>
      /\ \/ pc' = "launch" /\ failed' = failed
         \/ /\ pc' = "next" /\ failed' = failed \cup {<<index, "idle">>}
            /\ ~(changes = 0 /\ amiss = {})
  BY LeftAlone DEF Idle, StayIdle, Gate, At, Goto, Fail
<1>2. always' \subseteq amiss /\ always' \subseteq ever' /\ waited' \in 0 .. Config.timeout
  BY <1>1 DEF IInv, TypeOK
<1> QED BY <1>1, <1>2, GateInv DEF CheckedRam

LEMMA LaunchInv == ASSUME IInv, Launch PROVE IInv'
<1>1. /\ pc = "launch" /\ UNCHANGED <<scenario, amiss, changes, cached, index, fatal, failed>>
      /\ waited' = 0
  BY DEF Launch, At, Goto
<1>3. CASE Task.storage = "gds"
  <2>1. pc' = "next" /\ held' = held /\ always' = always /\ ever' = ever
    BY <1>3 DEF Launch, Goto
  <2>2. always' \subseteq amiss /\ always' \subseteq ever' /\ waited' \in 0 .. Config.timeout
    BY <1>1, <2>1, Constants DEF IInv, TypeOK
  <2> QED BY <1>1, <2>1, <2>2, GateInv DEF CheckedRam
<1>4. CASE Task.storage # "gds"
  <2>1. pc' = "timing_thermal" /\ always' = amiss /\ ever' = amiss
        /\ held'.host = HostInput(Machine, Task)
        /\ (Task.gpus = {} \/ held'.gpu \in DeviceInputs(Task))
    <3>1. CASE Task.gpus = {} /\ held' = [gpu |-> 0, at |-> Cpu, host |-> HostInput(Machine, Task)]
      BY <1>4, <3>1 DEF Launch, Goto
    <3>2. CASE \E g \in Task.gpus : \E input \in DeviceInputs(Task) :
                 held' = [gpu |-> input, at |-> g, host |-> HostInput(Machine, Task)]
      BY <1>4, <3>2 DEF Launch, Goto
    <3> QED BY <1>4, <3>1, <3>2 DEF Launch
  <2>2. Task' = Task /\ Machine' = Machine
    BY <1>1, Frame
  <2>3. HeldInv'
    BY <1>4, <2>1, <2>2 DEF HeldInv, HostInput, Resident, Replicas
  <2>4. QuietInv'
    BY <1>1, <2>1 DEF QuietInv
  <2>5. always' \subseteq amiss /\ always' \subseteq ever' /\ waited' \in 0 .. Config.timeout
    BY <1>1, <2>1, Constants DEF IInv
  <2> QED BY <1>1, <2>1, <2>3, <2>4, <2>5, WorkerInv DEF RunningAt
<1> QED BY <1>3, <1>4

\* What the worker holds stays while the task does.
LEMMA HeldKept ==
  ASSUME IInv, pc \in RunningAt, UNCHANGED <<scenario, index, held>>
  PROVE  HeldInv'
<1>1. Task' = Task /\ Machine' = Machine
  BY Frame
<1>2. HeldInv /\ Running
  BY DEF IInv, Running, RunningAt
<1> QED BY <1>1, <1>2 DEF HeldInv, Running, HostInput, Resident, Replicas

LEMMA TimingInv == ASSUME IInv, TimingDone PROVE IInv'
<1>1. /\ pc = "timing" /\ UNCHANGED <<scenario, amiss, changes, cached, index, fatal, held, failed>>
      /\ always' = amiss /\ ever' = amiss /\ waited' = 0 /\ pc' \in {"energy_thermal", "next"}
  BY DEF TimingDone, At, Goto
<1>2. always' \subseteq amiss /\ always' \subseteq ever' /\ waited' \in 0 .. Config.timeout
  BY <1>1, Constants DEF IInv
<1>3. CASE pc' = "next"
  BY <1>1, <1>2, <1>3, GateInv DEF CheckedRam, RunningAt
<1>4. CASE pc' = "energy_thermal"
  <2>1. HeldInv'
    BY <1>1, <1>4, HeldKept DEF RunningAt
  <2>2. QuietInv'
    BY <1>1, <1>4 DEF QuietInv
  <2> QED BY <1>1, <1>2, <1>4, <2>1, <2>2, WorkerInv DEF RunningAt
<1> QED BY <1>1, <1>3, <1>4

\* The guard while the worker is there: before its timing or its energy batch.
LEMMA WorkerWaitInv ==
  ASSUME IInv, NEW safe \in {"timing_idle", "energy_idle"},
         NEW p \in {"timing_thermal", "energy_thermal"}, WaitUntilSafe(p, safe)
  PROVE  IInv'
<1>1. /\ pc = p /\ UNCHANGED <<scenario, amiss, changes, cached, index, fatal, held, always, ever>>
      /\ waited' \in 0 .. Config.timeout
      /\ \/ pc' = safe /\ failed' = failed /\ (Config.timeout = 0 \/ (CpuSafe /\ GpuSafe))
         \/ pc' = p /\ failed' = failed
         \/ /\ pc' = "next" /\ failed' = failed \cup {<<index, "heat">>}
            /\ ~(changes = 0 /\ amiss = {})
  BY WaitShape
<1>2. always' \subseteq amiss /\ always' \subseteq ever'
  BY <1>1 DEF IInv, TypeOK
<1>3. CASE pc' = "next"
  BY <1>1, <1>2, <1>3, GateInv DEF CheckedRam, RunningAt
<1>4. CASE pc' # "next"
  <2>1. HeldInv'
    BY <1>1, <1>4, HeldKept DEF RunningAt
  <2>2. QuietInv'
    <3>1. amiss \subseteq ever /\ amiss' \subseteq ever'
      BY <1>1 DEF IInv, QuietInv, Running
    <3>2. ASSUME Machine.nvml, pc' = safe, Config.timeout # 0
          PROVE  HeatSeen'
      <4>1. CpuSafe /\ GpuSafe
        BY <1>1, <3>2
      <4>2. HeatSeen
        BY <1>2, <1>1, <3>1, <3>2, <4>1 DEF HeatSeen, Warned, CpuSafe, GpuSafe, There
      <4>3. Task' = Task
        BY <1>1, Frame
      <4> QED BY <1>1, <4>2, <4>3 DEF HeatSeen, Warned
    <3>3. Machine' = Machine /\ Config' = Config
      BY <1>1, Frame
    <3>4. pc' \notin {"timing", "measure"}
      BY <1>1
    <3> QED BY <1>1, <1>4, <3>1, <3>2, <3>3, <3>4 DEF QuietInv
  <2> QED BY <1>1, <1>2, <1>4, <2>1, <2>2, WorkerInv DEF RunningAt
<1> QED BY <1>3, <1>4

LEMMA TimingThermalInv == ASSUME IInv, TimingThermalWait PROVE IInv'
BY WorkerWaitInv DEF TimingThermalWait

LEMMA EnergyThermalInv == ASSUME IInv, EnergyThermalWait PROVE IInv'
BY WorkerWaitInv DEF EnergyThermalWait

\* The idleness gate while the worker is there.
LEMMA WorkerIdleInv ==
  ASSUME IInv, NEW p \in {"timing_idle", "energy_idle"}, NEW batch \in {"timing", "measure"},
         StayIdle(p, {Worker}, batch)
  PROVE  IInv'
<1>1. /\ pc = p /\ UNCHANGED <<scenario, amiss, changes, cached, index, fatal, held, always, ever, waited>>
      /\ \/ pc' = batch /\ failed' = failed /\ RuntimeIdle({Worker})
         \/ /\ pc' = "next" /\ failed' = failed \cup {<<index, "idle">>}
            /\ ~(changes = 0 /\ amiss = {})
  BY LeftAlone DEF StayIdle, Gate, At, Goto, Fail
<1>2. always' \subseteq amiss /\ always' \subseteq ever' /\ waited' \in 0 .. Config.timeout
  BY <1>1 DEF IInv, TypeOK
<1>3. CASE pc' = "next"
  BY <1>1, <1>2, <1>3, GateInv DEF CheckedRam, RunningAt
<1>4. CASE pc' # "next"
  <2>1. HeldInv'
    BY <1>1, <1>4, HeldKept DEF RunningAt
  <2>2. QuietInv'
    <3>1. amiss \subseteq ever /\ amiss' \subseteq ever'
      BY <1>1 DEF IInv, QuietInv, Running
    <3>2. ASSUME Machine.nvml, Config.strict PROVE UseSeen'
      <4>1. ~ There("busy", Cpu)
            /\ \A g \in Task.gpus : ~ There("lost", g) /\ Intruders(g, {Worker}) = {}
        BY <1>1, <1>4, <3>2 DEF RuntimeIdle
      <4>2. \A g \in Task.gpus : /\ <<"compute", g>> \in amiss => <<"blind", g>> \in amiss
                                 /\ <<"graphics", g>> \in amiss => Config.graphics \/ <<"blind", g>> \in amiss
        <5> SUFFICES ASSUME NEW g \in Task.gpus, <<"blind", g>> \notin amiss
                     PROVE  /\ <<"compute", g>> \notin amiss
                            /\ <<"graphics", g>> \in amiss => Config.graphics
          OBVIOUS
        <5>1. Computing(g) \ {Worker} = {}
              /\ {k \in {"graphics"} : There(k, g) /\ ~ Config.graphics} = {}
          BY <4>1 DEF Intruders, There
        <5>2. "compute" # Worker
          BY DEF Worker
        <5> QED BY <5>1, <5>2 DEF Computing, There
      <4>3. UseSeen
        BY <1>1, <1>2, <3>1, <4>1, <4>2 DEF UseSeen, There
      <4>4. Task' = Task /\ Config' = Config
        BY <1>1, Frame
      <4> QED BY <1>1, <4>3, <4>4 DEF UseSeen
    <3>3. Machine.nvml => Config.timeout = 0 \/ HeatSeen
      BY <1>1 DEF IInv, QuietInv
    <3>4. Machine' = Machine /\ Config' = Config /\ Task' = Task
      BY <1>1, Frame
    <3>5. HeatSeen => HeatSeen'
      BY <1>1, <3>4 DEF HeatSeen, Warned
    <3> QED BY <1>1, <1>4, <3>1, <3>2, <3>3, <3>4, <3>5 DEF QuietInv
  <2> QED BY <1>1, <1>2, <1>4, <2>1, <2>2, WorkerInv DEF RunningAt
<1> QED BY <1>3, <1>4

LEMMA TimingIdleInv == ASSUME IInv, TimingIdle PROVE IInv'
BY WorkerIdleInv DEF TimingIdle

LEMMA EnergyIdleInv == ASSUME IInv, EnergyIdle PROVE IInv'
BY WorkerIdleInv DEF EnergyIdle

LEMMA MeasureInv == ASSUME IInv, Measure PROVE IInv'
<1>1. /\ pc = "measure" /\ pc' = "next"
      /\ UNCHANGED <<scenario, amiss, changes, cached, index, fatal, held, always, ever, waited, failed>>
  BY DEF Measure, Gate, At, Goto
<1>2. always' \subseteq amiss /\ always' \subseteq ever' /\ waited' \in 0 .. Config.timeout
  BY <1>1 DEF IInv, TypeOK
<1> QED BY <1>1, <1>2, GateInv DEF CheckedRam, RunningAt

LEMMA StutterInv == ASSUME IInv, UNCHANGED vars PROVE IInv'
<1>1. UNCHANGED <<scenario, amiss, changes, cached, index, fatal, held, always, ever, waited, failed, pc>>
  BY DEF vars, world
<1>2. /\ Config' = Config /\ Machine' = Machine /\ Plan' = Plan /\ Planned' = Planned
      /\ Sizes' = Sizes /\ TooBig' = TooBig /\ Overcommitted' = Overcommitted
      /\ (\A t : OverRam(t)' = OverRam(t)) /\ (\A t : OverExactVram(t)' = OverExactVram(t))
      /\ Task' = Task
  BY <1>1, Frame
<1>3. TypeOK'
  BY <1>1, <1>2 DEF IInv, TypeOK
<1>4. OverRam(Task)' = OverRam(Task) /\ OverExactVram(Task)' = OverExactVram(Task)
  BY <1>1, <1>2 DEF OverRam, OverExactVram, Machine, Estimate, OverVram
<1>5. TaskInv' /\ AcceptedInv'
  BY <1>1, <1>2, <1>4 DEF IInv, TaskInv, AcceptedInv, Accepted
<1>6. HeldInv'
  BY <1>1, <1>2 DEF IInv, HeldInv, Running
<1>7. VerdictsAgree'
  BY <1>1, <1>2 DEF IInv, VerdictsAgree
<1>8. QuietInv'
  <2>1. (HeatSeen => HeatSeen') /\ (UseSeen => UseSeen')
    BY <1>1, <1>2 DEF HeatSeen, UseSeen, Warned
  <2> QED BY <1>1, <1>2, <2>1 DEF IInv, QuietInv, Running
<1> QED BY <1>1, <1>3, <1>5, <1>6, <1>7, <1>8 DEF IInv

LEMMA StepInv == IInv /\ [Next]_vars => IInv'
<1> SUFFICES ASSUME IInv, [Next]_vars PROVE IInv'
  OBVIOUS
<1>1. CASE Campaign
  BY <1>1, PreflightInv, PrepareInv, NextTaskInv, ChecksInv, ThermalInv, IdleInv, LaunchInv,
     TimingThermalInv, TimingIdleInv, TimingInv, EnergyThermalInv, EnergyIdleInv, MeasureInv DEF Campaign
<1>2. CASE Change
  BY <1>2, ChangeInv
<1>3. CASE Finished \/ UNCHANGED vars
  BY <1>3, StutterInv DEF Finished
<1> QED BY <1>1, <1>2, <1>3 DEF Next

\* Every campaign keeps the invariant, whatever happens to the machine.
THEOREM Invariance == Spec => []IInv
<1>1. Init => IInv
  BY InitInv
<1>2. IInv /\ [Next]_vars => IInv'
  BY StepInv
<1> QED BY <1>1, <1>2, PTL DEF Spec

\* The variables keep their types.
THEOREM TypeCorrect == Spec => []TypeOK
<1>1. IInv => TypeOK
  BY DEF IInv
<1> QED BY <1>1, Invariance, PTL

\* A worker that runs fits the budgets its task passed: its input is no more
\* than an estimate that covers it, and than the safe share of the memory.
THEOREM WorkersFit == Spec => []AdmittedFits
<1>1. IInv => AdmittedFits
  <2> SUFFICES ASSUME IInv, Running
               PROVE  /\ held.host <= RamLimit
                      /\ held.at \in Task.gpus /\ ~ ChunkBeyondData(Task) =>
                           /\ Estimate(Task).kind \in {"exact", "upper_bound"} =>
                                held.gpu <= Estimate(Task).elements
                           /\ Estimate(Task).kind = "exact" => held.gpu <= SafeVram(Machine, held.at)
    BY DEF AdmittedFits, IInv
  <2>1. /\ index \in DOMAIN Plan /\ scenario \in Scenarios
        /\ ~ OverRam(Task) /\ ~ OverExactVram(Task)
        /\ Task.storage # "gds" /\ held.host = HostInput(Machine, Task)
        /\ held.at \in Task.gpus => held.gpu \in DeviceInputs(Task)
    BY DEF IInv, TaskInv, HeldInv, Running, CheckedRam, CheckedVram, RunningAt
  <2>2. Catalogued(Task)
    BY <2>1, Constants DEF Task
  <2>3. held.host <= RamLimit
    BY <2>1, HostFits DEF Task
  <2>4. ASSUME held.at \in Task.gpus, ~ ChunkBeyondData(Task),
               Estimate(Task).kind \in {"exact", "upper_bound"}
        PROVE  held.gpu <= Estimate(Task).elements
    BY <2>1, <2>2, <2>4, EstimateCovers
  <2>5. ASSUME held.at \in Task.gpus, ~ ChunkBeyondData(Task), Estimate(Task).kind = "exact"
        PROVE  held.gpu <= SafeVram(Machine, held.at)
    <3>1. held.gpu <= Estimate(Task).elements
      BY <2>4, <2>5
    <3>2. ~(Estimate(Task).elements > SafeVram(Machine, held.at))
      BY <2>1, <2>5 DEF OverExactVram, OverVram
    <3>3. Estimate(Task).elements \in Nat
      BY <2>2, <2>5, EstimateShape, FS_EmptySet
    <3>4. SafeVram(Machine, held.at) \in Nat
      <4>1. Machine.free[held.at] \in Nat /\ Machine.vramPercent \in Nat
        BY <2>1, <2>5, Constants DEF Task
      <4>2. Machine.free[held.at] * Machine.vramPercent \in Nat
        BY <4>1
      <4> QED BY <4>2, Division DEF SafeVram
    <3>5. held.gpu \in Nat
      BY <2>1, <2>2, <2>5, InputShape
    <3> QED BY <3>1, <3>2, <3>3, <3>4, <3>5
  <2> QED BY <2>3, <2>4, <2>5
<1> QED BY <1>1, Invariance, PTL

\* Preflight and runner agree on the memory, and a campaign left alone fails no
\* task: not at a budget and not at one of the three gates of heat and idleness,
\* the worker being on the GPU at the second and the third.
THEOREM OneVerdict == Spec => []VerdictsAgree
<1>1. IInv => VerdictsAgree
  BY DEF IInv
<1> QED BY <1>1, Invariance, PTL

\* When the timing or the energy batch of a strict campaign starts, whatever was
\* amiss all the time since the worker finished what it did before was unreadable
\* or allowed.
THEOREM NothingUnnoticed == Spec => []QuietWhenMeasured
<1>1. IInv => QuietWhenMeasured
  <2> SUFFICES ASSUME IInv PROVE QuietWhenMeasured
    OBVIOUS
  <2>1. QuietInv
    BY DEF IInv
  <2> QED BY <2>1 DEF QuietInv, QuietWhenMeasured, UseSeen, HeatSeen, Warned
<1> QED BY <1>1, Invariance, PTL
=============================================================================
