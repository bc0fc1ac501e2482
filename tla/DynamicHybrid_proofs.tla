------------------------ MODULE DynamicHybrid_proofs ------------------------
(***************************************************************************)
(* Proofs about DynamicHybrid, for every number of elements, GPUs, chunk   *)
(* parameter and fault.  IInv is the inductive invariant: the claims and   *)
(* ranges of the workers against the cursor, where the GPU threads can be  *)
(* for each place of the calling thread, and what has been merged.         *)
(***************************************************************************)
EXTENDS DynamicHybrid, TLAPS

MainPc == {"prepare", "idle", "spawn", "load", "exchange", "reduce", "join", "merge", "over"}
GpuPc  == {"off", "load", "exchange", "reduce", "exited", "joined", "over"}

PcInv == pc[0] \in MainPc /\ \A g \in Gpus : pc[g] \in GpuPc

\* A worker about to exchange has a chunk that is neither empty nor too long.
ClaimInv == \A w \in Workers : pc[w] = "exchange" => chunk[w] \in 1 .. (N - cur[w])

\* A range that is held lies below the cursor, and a worker that may claim
\* another one, or that ended without an error, holds none.
RangeInv ==
  \A w \in Workers :
    /\ rng[w].count > 0 => rng[w].offset + rng[w].count <= next
    /\ pc[w] \in {"off", "spawn", "load", "exchange", "join", "merge"} => rng[w].count = 0
    /\ w \notin errors /\ pc[w] \in {"exited", "joined"} => rng[w].count = 0

\* The GPU threads while the calling thread is in each part of the call.
PhaseInv ==
  /\ NoThreadOutlivesCall
  /\ pc[0] = "prepare" => outcome = "none" /\ \A g \in Gpus : pc[g] = "off"
  /\ pc[0] \in {"join", "merge"} => next = N
  /\ pc[0] = "merge" => \A g \in Gpus : pc[g] = "joined"
  /\ pc[0] \notin {"merge", "idle", "over"} => merged = 0
  /\ outcome = "ok" => pc[0] = "idle"

\* The merge has added cpu_value and the first GPU values.
MergeInv ==
  pc[0] = "merge" =>
    \A e \in Elements :
      value[e] = IF \E w \in 0 .. merged : acc[w][e] = 1 THEN 1 ELSE 0

IInv ==
  /\ TypeOK /\ PcInv /\ ClaimInv /\ RangeInv /\ ExactlyOneHolder
  /\ PhaseInv /\ MergeInv /\ ResultExact

-----------------------------------------------------------------------------
(* Helpers *)

USE NAssumption, GAssumption, ChunkAssumption, ConfigAssumption

\* std::clamp returns a positive size, whatever order its bounds are in.
LEMMA ClampPositive ==
  ASSUME NEW v \in Int, NEW k \in Clamp(v, MinChunk, MaxChunk)
  PROVE  k \in Nat \ {0}
BY DEF Clamp

\* With the bounds in order it never exceeds the upper one.
LEMMA ClampBounded ==
  ASSUME ChunkBoundsOrdered,
         NEW v \in Int, NEW k \in Clamp(v, MinChunk, MaxChunk)
  PROVE  k <= MaxChunk
BY DEF Clamp, ChunkBoundsOrdered

\* Whatever the scheduler, the chunk a worker asks for is positive.
LEMMA ChoicesPositive ==
  ASSUME NEW r \in Nat, NEW k \in ChunkChoices(r)
  PROVE  k \in Nat \ {0}
<1>1. CASE Kind = "DynamicFixed"
  BY <1>1 DEF ChunkChoices
<1>2. CASE Kind = "DynamicGuided"
  <2>1. CeilDiv(r, GuidedDenom) \in Int
    BY DEF CeilDiv
  <2>2. k \in Clamp(CeilDiv(r, GuidedDenom), MinChunk, MaxChunk)
    BY <1>2 DEF ChunkChoices
  <2> QED  BY <2>1, <2>2, ClampPositive
<1>3. CASE Kind = "DynamicAdaptive"
  <2>1. PICK t \in 1 .. MaxChunk : k \in Clamp(t, MinChunk, MaxChunk)
    BY <1>3 DEF ChunkChoices
  <2> QED  BY <2>1, ClampPositive
<1> QED  BY <1>1, <1>2, <1>3

\* claim never asks for nothing, and never beyond the end of the data.
LEMMA ChunksInData ==
  ASSUME NEW c \in 0 .. N - 1
  PROVE  Chunks(c) \subseteq 1 .. (N - c)
<1> SUFFICES ASSUME NEW k \in ChunkChoices(N - c)
             PROVE  MinOf(k, N - c) \in 1 .. (N - c)
  BY DEF Chunks
<1>1. k \in Nat \ {0}
  BY ChoicesPositive
<1> QED  BY <1>1 DEF MinOf

\* Combining a range into a value gives a value.
LEMMA CombineType ==
  ASSUME NEW v \in [Elements -> Nat], NEW r
  PROVE  Combine(v, r) \in [Elements -> Nat]
BY DEF Combine

-----------------------------------------------------------------------------
(* The invariant *)

\* The invariant holds initially.
LEMMA InitIInv == Init => IInv
<1> SUFFICES ASSUME Init PROVE IInv
  OBVIOUS
<1> USE DEF Init
<1>1. TypeOK
  BY DEF TypeOK, Workers, Gpus, WorkerPc, Identity, NoRange
<1>2. PcInv /\ ClaimInv /\ RangeInv
  BY DEF PcInv, MainPc, GpuPc, ClaimInv, RangeInv, Workers, Gpus, NoRange
<1>3. ExactlyOneHolder
  BY DEF ExactlyOneHolder, Holds, Span, Workers, NoRange, Identity, Elements
<1>4. PhaseInv /\ MergeInv /\ ResultExact
  BY DEF PhaseInv, NoThreadOutlivesCall, MergeInv, ResultExact, Gpus, Workers
<1> QED  BY <1>1, <1>2, <1>3, <1>4 DEF IInv

\* prepare preserves the invariant.
LEMMA PrepareIInv == IInv /\ Prepare => IInv'
<1> SUFFICES ASSUME IInv, Prepare PROVE IInv'
  OBVIOUS
<1>0. /\ UNCHANGED <<next, cur, chunk, rng, acc, errors, merged, value, returned, calls>>
      /\ pc[0] = "prepare"
      /\ \/ pc' = [pc EXCEPT ![0] = "idle"] /\ UNCHANGED outcome
         \/ pc' = [pc EXCEPT ![0] = "over"] /\ outcome' = "threw"
      /\ replica' \in 0 .. Replicas - 1
  BY DEF Prepare, work, IInv, TypeOK
<1>1. TypeOK'
  BY <1>0 DEF IInv, TypeOK, WorkerPc
<1>2. PcInv'
  BY <1>0 DEF IInv, TypeOK, PcInv, MainPc, GpuPc, Workers, Gpus
<1>3. ClaimInv' /\ RangeInv'
  BY <1>0 DEF IInv, ClaimInv, RangeInv, TypeOK, Workers
<1>4. ExactlyOneHolder'
  BY <1>0 DEF IInv, ExactlyOneHolder, Holds
<1>5. PhaseInv' /\ MergeInv' /\ ResultExact'
  <2>1. /\ pc'[0] \in {"idle", "over"} /\ outcome' \in {"none", "threw"}
        /\ \A g \in Gpus : pc'[g] = "off"
    BY <1>0 DEF IInv, TypeOK, PhaseInv, Workers, Gpus
  <2> QED  BY <2>1 DEF PhaseInv, NoThreadOutlivesCall, MergeInv, ResultExact
<1> QED  BY <1>1, <1>2, <1>3, <1>4, <1>5 DEF IInv

\* The beginning of run_once preserves the invariant.
LEMMA StartIInv == IInv /\ Start => IInv'
<1> SUFFICES ASSUME IInv, Start PROVE IInv'
  OBVIOUS
<1>1. TypeOK'
  BY DEF Start, IInv, TypeOK, WorkerPc, Workers, Gpus, Identity, NoRange
<1>2. PcInv' /\ ClaimInv' /\ RangeInv'
  BY DEF Start, PcInv, MainPc, GpuPc, ClaimInv, RangeInv, Workers, Gpus, NoRange
<1>3. ExactlyOneHolder'
  BY DEF Start, ExactlyOneHolder, Holds, Span, Workers, NoRange, Identity, Elements
<1>4. PhaseInv' /\ MergeInv' /\ ResultExact'
  BY DEF Start, PhaseInv, NoThreadOutlivesCall, MergeInv, ResultExact, Gpus, Workers
<1> QED  BY <1>1, <1>2, <1>3, <1>4 DEF IInv

\* Starting a GPU thread preserves the invariant.
LEMMA SpawnIInv == ASSUME NEW g \in Gpus PROVE IInv /\ Spawn(g) => IInv'
<1> SUFFICES ASSUME IInv, Spawn(g) PROVE IInv'
  OBVIOUS
<1>0. /\ UNCHANGED <<next, replica, cur, chunk, rng, acc, merged, value, returned,
                     outcome, calls>>
      /\ pc[0] = "spawn" /\ pc[g] = "off" /\ g # 0 /\ 0 \in Workers /\ g \in Workers
  BY DEF Spawn, StartThread, Unspawned, Gpus, Workers
<1>p. PICK p \in {"load", "spawn"}, q \in {"load", "exited"} :
        /\ pc' = [pc EXCEPT ![g] = q, ![0] = p]
        /\ errors' = IF q = "load" THEN errors ELSE errors \cup {g}
  <2>1. PICK p \in {"load", "spawn"} :
          \/ pc' = [pc EXCEPT ![g] = "load", ![0] = p] /\ UNCHANGED errors
          \/ pc' = [pc EXCEPT ![g] = "exited", ![0] = p] /\ errors' = errors \cup {g}
    BY DEF Spawn, StartThread
  <2>2. \E q \in {"load", "exited"} :
           /\ pc' = [pc EXCEPT ![g] = q, ![0] = p]
           /\ errors' = IF q = "load" THEN errors ELSE errors \cup {g}
    BY <2>1
  <2> QED  BY <2>2
<1>1. TypeOK'
  BY <1>0, <1>p DEF IInv, TypeOK, WorkerPc
<1>2. PcInv'
  <2>1. pc'[0] = p /\ \A h \in Gpus : pc'[h] = IF h = g THEN q ELSE pc[h]
    BY <1>0, <1>p DEF IInv, TypeOK, Workers, Gpus
  <2> QED  BY <2>1 DEF IInv, PcInv, MainPc, GpuPc
<1>3. ClaimInv' /\ RangeInv'
  BY <1>0, <1>p DEF IInv, ClaimInv, RangeInv, TypeOK
<1>4. ExactlyOneHolder'
  BY <1>0, <1>p DEF IInv, ExactlyOneHolder, Holds
<1>5. PhaseInv' /\ MergeInv' /\ ResultExact'
  BY <1>0, <1>p DEF IInv, PhaseInv, NoThreadOutlivesCall, MergeInv, ResultExact, TypeOK
<1> QED  BY <1>1, <1>2, <1>3, <1>4, <1>5 DEF IInv

\* An exception on the calling thread preserves the invariant.
LEMMA UnwindIInv ==
  IInv /\ pc[0] \in {"spawn", "reduce"} /\ Unwind => IInv'
<1> SUFFICES ASSUME IInv, pc[0] \in {"spawn", "reduce"}, Unwind PROVE IInv'
  OBVIOUS
<1>0. /\ UNCHANGED <<next, replica, cur, chunk, rng, acc, errors, merged, value,
                     returned, calls>>
      /\ 0 \in Workers /\ 0 \notin Gpus
      /\ \/ /\ \A g \in Gpus : pc[g] = "off"
            /\ pc' = [pc EXCEPT ![0] = "over"] /\ outcome' = "threw"
         \/ pc' = [w \in Workers |-> "over"] /\ outcome' = "aborted"
  BY DEF Unwind, work, Unspawned, Workers, Gpus
<1>1. TypeOK'
  BY <1>0 DEF IInv, TypeOK, WorkerPc
<1>2. PcInv'
  BY <1>0 DEF IInv, TypeOK, PcInv, MainPc, GpuPc, Workers, Gpus
<1>3. ClaimInv' /\ RangeInv'
  BY <1>0 DEF IInv, ClaimInv, RangeInv, TypeOK
<1>4. ExactlyOneHolder'
  BY <1>0 DEF IInv, ExactlyOneHolder, Holds
<1>5. PhaseInv' /\ MergeInv' /\ ResultExact'
  BY <1>0 DEF IInv, PhaseInv, NoThreadOutlivesCall, MergeInv, ResultExact, TypeOK, Workers, Gpus
<1> QED  BY <1>1, <1>2, <1>3, <1>4, <1>5 DEF IInv

\* The load of claim preserves the invariant, however stale its value.
LEMMA LoadIInv ==
  ASSUME NEW w \in Workers, NEW c \in 0 .. next
  PROVE  IInv /\ Load(w, c) => IInv'
<1> SUFFICES ASSUME IInv, Load(w, c) PROVE IInv'
  OBVIOUS
<1>0. /\ UNCHANGED <<next, replica, rng, acc, errors, merged, value, returned, outcome, calls>>
      /\ pc[w] = "load" /\ next \in 0 .. N /\ pc \in [Workers -> WorkerPc]
  BY DEF Load, IInv, TypeOK
<1>a. /\ \A v \in Workers : v \in Gpus <=> v # 0
      /\ 0 \in Workers /\ Gpus \subseteq Workers
  BY DEF Workers, Gpus
<1>b. outcome # "ok" /\ (w # 0 => pc[0] \notin {"idle", "over", "merge", "prepare"})
  BY <1>0, <1>a DEF IInv, PhaseInv, NoThreadOutlivesCall
<1>c. merged = 0
  BY <1>0, <1>b DEF IInv, PhaseInv
<1>1. CASE c >= N
  <2>1. /\ UNCHANGED <<cur, chunk>> /\ next = N
        /\ pc' = [pc EXCEPT ![w] = IF w = 0 THEN "join" ELSE "exited"]
    BY <1>0, <1>1 DEF Load, AfterLoop
  <2>2. TypeOK'
    BY <1>0, <2>1 DEF IInv, TypeOK, WorkerPc
  <2>3. PcInv'
    BY <1>0, <1>a, <2>1 DEF IInv, PcInv, MainPc, GpuPc
  <2>4. ClaimInv' /\ RangeInv'
    BY <1>0, <2>1 DEF IInv, ClaimInv, RangeInv
  <2>5. ExactlyOneHolder'
    BY <1>0 DEF IInv, ExactlyOneHolder, Holds
  <2>6. PhaseInv' /\ MergeInv' /\ ResultExact'
    BY <1>0, <1>a, <1>b, <1>c, <2>1
       DEF IInv, PhaseInv, NoThreadOutlivesCall, MergeInv, ResultExact
  <2> QED  BY <2>2, <2>3, <2>4, <2>5, <2>6 DEF IInv
<1>2. CASE ~ (c >= N)
  <2>0. c \in 0 .. N - 1
    BY <1>0, <1>2
  <2>1. PICK k \in 1 .. (N - c) :
          /\ cur' = [cur EXCEPT ![w] = c]
          /\ chunk' = [chunk EXCEPT ![w] = k]
          /\ pc' = [pc EXCEPT ![w] = "exchange"]
    BY <1>2, <2>0, ChunksInData DEF Load
  <2>2. TypeOK'
    BY <1>0, <2>0, <2>1 DEF IInv, TypeOK, WorkerPc
  <2>3. PcInv'
    BY <1>0, <1>a, <2>1 DEF IInv, PcInv, MainPc, GpuPc
  <2>4. ClaimInv'
    BY <1>0, <2>1, <2>2 DEF IInv, ClaimInv, TypeOK
  <2>4a. RangeInv'
    BY <1>0, <2>1 DEF IInv, RangeInv
  <2>5. ExactlyOneHolder'
    BY <1>0 DEF IInv, ExactlyOneHolder, Holds
  <2>6. PhaseInv' /\ MergeInv' /\ ResultExact'
    BY <1>0, <1>a, <1>b, <1>c, <2>1
       DEF IInv, PhaseInv, NoThreadOutlivesCall, MergeInv, ResultExact
  <2> QED  BY <2>2, <2>3, <2>4, <2>4a, <2>5, <2>6 DEF IInv
<1> QED  BY <1>1, <1>2

\* A successful exchange preserves the invariant: the elements between the old
\* and the new cursor go from nobody to the worker.
LEMMA ExchangeSucceedsIInv ==
  ASSUME NEW w \in Workers
  PROVE  IInv /\ ExchangeSucceeds(w) => IInv'
<1> SUFFICES ASSUME IInv, ExchangeSucceeds(w) PROVE IInv'
  OBVIOUS
<1>t. TypeOK
  BY DEF IInv
<1>0. /\ UNCHANGED <<replica, acc, errors, merged, value, returned, outcome, calls>>
      /\ pc[w] = "exchange" /\ pc' = [pc EXCEPT ![w] = "reduce"]
      /\ next' = next + chunk[w] /\ chunk[w] \in 1 .. (N - next)
      /\ rng' = [rng EXCEPT ![w] = [offset |-> next, count |-> chunk[w]]]
      /\ cur' = [cur EXCEPT ![w] = 0] /\ chunk' = [chunk EXCEPT ![w] = 0]
      /\ rng[w].count = 0
  <2>1. chunk[w] \in 1 .. (N - cur[w]) /\ cur[w] = next /\ rng[w].count = 0
    BY DEF ExchangeSucceeds, CursorUnmoved, IInv, ClaimInv, RangeInv
  <2>2. pc[w] = "exchange" /\ chunk[w] # 0 /\ chunk[w] \in 1 .. (N - next)
    BY <2>1, <1>t DEF ExchangeSucceeds, TypeOK
  <2> QED  BY <2>1, <2>2 DEF ExchangeSucceeds, LeaveClaim
<1>a. /\ \A v \in Workers : v \in Gpus <=> v # 0
      /\ 0 \in Workers /\ Gpus \subseteq Workers
  BY DEF Workers, Gpus
<1>b. outcome # "ok" /\ (w # 0 => pc[0] \notin {"idle", "over", "merge", "prepare", "join"})
  <2>1. next # N
    BY <1>0, <1>t DEF TypeOK
  <2> QED  BY <2>1, <1>0, <1>a DEF IInv, PhaseInv, NoThreadOutlivesCall
<1>c. merged = 0
  BY <1>0, <1>b DEF IInv, PhaseInv
<1>1. TypeOK'
  BY <1>0, <1>t DEF TypeOK, WorkerPc
<1>2. PcInv'
  BY <1>0, <1>a, <1>t DEF IInv, PcInv, MainPc, GpuPc, TypeOK
<1>3. ClaimInv'
  BY <1>0, <1>t DEF IInv, ClaimInv, TypeOK
<1>4. RangeInv'
  <2> SUFFICES ASSUME NEW v \in Workers
               PROVE  /\ rng'[v].count > 0 => rng'[v].offset + rng'[v].count <= next'
                      /\ pc'[v] \in {"off", "spawn", "load", "exchange", "join", "merge"}
                           => rng'[v].count = 0
                      /\ v \notin errors' /\ pc'[v] \in {"exited", "joined"}
                           => rng'[v].count = 0
    BY DEF RangeInv
  <2>1. CASE v = w
    BY <2>1, <1>0, <1>t DEF TypeOK
  <2>2. CASE v # w
    <3>1. rng'[v] = rng[v] /\ pc'[v] = pc[v] /\ rng[v] \in [offset : 0 .. N, count : 0 .. N]
      BY <2>2, <1>0, <1>t DEF TypeOK
    <3>2. next' >= next /\ next' \in Nat /\ next \in Nat
      BY <1>0, <1>t DEF TypeOK
    <3> QED  BY <3>1, <3>2, <1>0 DEF IInv, RangeInv
  <2> QED  BY <2>1, <2>2
<1>5. ExactlyOneHolder'
  <2> DEFINE New == next .. next + chunk[w] - 1
  <2>1. \A e \in Elements : Holds(w, e)' <=> (e \in New \/ Holds(w, e))
    <3>1. rng'[w] = [offset |-> next, count |-> chunk[w]] /\ acc' = acc
      BY <1>0, <1>t DEF TypeOK
    <3>2. Span(rng[w]) = {} /\ Span(rng[w])' = New
      BY <1>0, <1>t, <3>1 DEF Span, TypeOK
    <3> QED  BY <3>1, <3>2 DEF Holds
  <2>2. \A v \in Workers \ {w}, e \in Elements : Holds(v, e)' <=> Holds(v, e)
    <3> TAKE v \in Workers \ {w}, e \in Elements
    <3>1. rng'[v] = rng[v] /\ acc' = acc
      BY <1>0, <1>t DEF TypeOK
    <3> QED  BY <3>1 DEF Holds, Span
  <2>3. \A e \in Elements :
          /\ e < next' <=> e < next \/ e \in New
          /\ e \in New => e >= next
    <3>1. next \in Int /\ chunk[w] \in Nat /\ next' = next + chunk[w]
      BY <1>0, <1>t DEF TypeOK
    <3>2. TAKE e \in Elements
    <3>3. e \in Int
      BY DEF Elements
    <3> HIDE <1>0, <1>t
    <3> QED  BY <3>1, <3>3
  <2>4. \A e \in Elements :
          /\ e < next' => \E v \in Workers : Holds(v, e)'
          /\ e >= next' => \A v \in Workers : ~ Holds(v, e)'
          /\ \A u, v \in Workers : Holds(u, e)' /\ Holds(v, e)' => u = v
    <3> TAKE e \in Elements
    <3>0. e \in Int /\ next \in Int /\ next' \in Int
      BY <1>0, <1>t DEF TypeOK, Elements
    <3>1. CASE e \in New
      <4>1. e < next' /\ e >= next
        BY <3>1, <2>3
      <4>2. \A v \in Workers : ~ Holds(v, e)
        BY <4>1 DEF IInv, ExactlyOneHolder
      <4> QED  BY <3>0, <3>1, <4>1, <4>2, <2>1, <2>2
    <3>2. CASE e \notin New
      <4>1. e < next' <=> e < next
        BY <3>2, <2>3
      <4>2. \A v \in Workers : Holds(v, e)' <=> Holds(v, e)
        BY <3>2, <2>1, <2>2
      <4> QED  BY <3>0, <4>1, <4>2 DEF IInv, ExactlyOneHolder
    <3> QED  BY <3>1, <3>2
  <2>5. \A v \in Workers, e \in Elements :
          /\ acc'[v][e] <= 1
          /\ acc'[v][e] = 1 => e \notin Span(rng'[v])
    <3> TAKE v \in Workers, e \in Elements
    <3>1. acc'[v][e] <= 1
      BY <1>0 DEF IInv, ExactlyOneHolder
    <3>2. ASSUME acc'[v][e] = 1 PROVE e \notin Span(rng'[v])
      <4>1. Holds(v, e) /\ e \notin Span(rng[v])
        BY <3>2, <1>0 DEF IInv, ExactlyOneHolder, Holds
      <4>2. e < next
        BY <4>1, <1>t DEF IInv, ExactlyOneHolder, TypeOK, Elements
      <4>3. CASE v = w
        <5>1. Span(rng'[v]) = New
          BY <4>3, <1>0, <1>t DEF Span, TypeOK
        <5> QED  BY <4>2, <5>1, <2>3, <1>t DEF TypeOK, Elements
      <4>4. CASE v # w
        BY <4>4, <4>1, <1>0, <1>t DEF TypeOK
      <4> QED  BY <4>3, <4>4
    <3> QED  BY <3>1, <3>2
  <2> QED  BY <2>4, <2>5 DEF ExactlyOneHolder, Holds
<1>6. PhaseInv' /\ MergeInv' /\ ResultExact'
  BY <1>0, <1>a, <1>b, <1>c, <1>t
     DEF IInv, PhaseInv, NoThreadOutlivesCall, MergeInv, ResultExact, TypeOK
<1> QED  BY <1>1, <1>2, <1>3, <1>4, <1>5, <1>6 DEF IInv

\* A failed exchange preserves the invariant.
LEMMA ExchangeFailsIInv ==
  ASSUME NEW w \in Workers
  PROVE  IInv /\ ExchangeFails(w) => IInv'
<1> SUFFICES ASSUME IInv, ExchangeFails(w) PROVE IInv'
  OBVIOUS
<1>t. TypeOK
  BY DEF IInv
<1>0. /\ UNCHANGED <<next, replica, rng, acc, errors, merged, value, returned, outcome, calls>>
      /\ pc[w] = "exchange" /\ pc' = [pc EXCEPT ![w] = "load"]
      /\ cur' = [cur EXCEPT ![w] = 0] /\ chunk' = [chunk EXCEPT ![w] = 0]
  BY DEF ExchangeFails, LeaveClaim
<1>a. /\ \A v \in Workers : v \in Gpus <=> v # 0
      /\ 0 \in Workers /\ Gpus \subseteq Workers
  BY DEF Workers, Gpus
<1>b. outcome # "ok" /\ (w # 0 => pc[0] \notin {"idle", "over", "merge", "prepare"})
  BY <1>0, <1>a DEF IInv, PhaseInv, NoThreadOutlivesCall
<1>1. TypeOK'
  BY <1>0, <1>t DEF TypeOK, WorkerPc
<1>2. PcInv'
  BY <1>0, <1>a, <1>t DEF IInv, PcInv, MainPc, GpuPc, TypeOK
<1>3. ClaimInv' /\ RangeInv'
  BY <1>0, <1>t DEF IInv, ClaimInv, RangeInv, TypeOK
<1>4. ExactlyOneHolder'
  BY <1>0 DEF IInv, ExactlyOneHolder, Holds
<1>5. PhaseInv' /\ MergeInv' /\ ResultExact'
  BY <1>0, <1>a, <1>b, <1>t
     DEF IInv, PhaseInv, NoThreadOutlivesCall, MergeInv, ResultExact, TypeOK
<1> QED  BY <1>1, <1>2, <1>3, <1>4, <1>5 DEF IInv

\* Folding a chunk preserves the invariant: its elements go from the range of
\* the worker to its value.
LEMMA ReduceIInv ==
  ASSUME NEW w \in Workers
  PROVE  IInv /\ Reduce(w) => IInv'
<1> SUFFICES ASSUME IInv, Reduce(w) PROVE IInv'
  OBVIOUS
<1>t. TypeOK
  BY DEF IInv
<1>0. /\ UNCHANGED <<next, replica, cur, chunk, errors, merged, value, returned, outcome, calls>>
      /\ pc[w] = "reduce" /\ pc' = [pc EXCEPT ![w] = "load"]
      /\ acc' = [acc EXCEPT ![w] = Combine(acc[w], rng[w])]
      /\ rng' = [rng EXCEPT ![w] = NoRange]
  BY DEF Reduce
<1>a. /\ \A v \in Workers : v \in Gpus <=> v # 0
      /\ 0 \in Workers /\ Gpus \subseteq Workers
  BY DEF Workers, Gpus
<1>b. outcome # "ok" /\ (w # 0 => pc[0] \notin {"idle", "over", "merge", "prepare"})
  BY <1>0, <1>a DEF IInv, PhaseInv, NoThreadOutlivesCall
<1>c. acc[w] \in [Elements -> Nat] /\ Combine(acc[w], rng[w]) \in [Elements -> Nat]
  BY <1>t, CombineType DEF TypeOK
<1>1. TypeOK'
  BY <1>0, <1>t, <1>c DEF TypeOK, WorkerPc, NoRange
<1>2. PcInv'
  BY <1>0, <1>a, <1>t DEF IInv, PcInv, MainPc, GpuPc, TypeOK
<1>3. ClaimInv' /\ RangeInv'
  BY <1>0, <1>t DEF IInv, ClaimInv, RangeInv, TypeOK, NoRange
<1>4. ExactlyOneHolder'
  <2>1. \A e \in Elements :
          /\ acc'[w][e] = IF e \in Span(rng[w]) THEN acc[w][e] + 1 ELSE acc[w][e]
          /\ e \notin Span(rng'[w])
    <3> TAKE e \in Elements
    <3>1. acc'[w] = Combine(acc[w], rng[w]) /\ rng'[w] = NoRange
      BY <1>0, <1>t DEF TypeOK
    <3> QED  BY <3>1 DEF Combine, Span, NoRange
  <2>2. \A v \in Workers \ {w} : acc'[v] = acc[v] /\ rng'[v] = rng[v]
    BY <1>0, <1>t DEF TypeOK
  <2>3. \A v \in Workers, e \in Elements :
          acc[v][e] \in Nat /\ (e \in Span(rng[v]) => acc[v][e] = 0)
    <3> TAKE v \in Workers, e \in Elements
    <3>1. acc[v][e] \in Nat
      BY <1>t DEF TypeOK
    <3>2. acc[v][e] <= 1 /\ (acc[v][e] = 1 => e \notin Span(rng[v]))
      BY DEF IInv, ExactlyOneHolder
    <3> QED  BY <3>1, <3>2
  <2>4. \A v \in Workers, e \in Elements : Holds(v, e)' <=> Holds(v, e)
    <3> TAKE v \in Workers, e \in Elements
    <3>1. CASE v = w
      BY <3>1, <2>1, <2>3 DEF Holds
    <3>2. CASE v # w
      BY <3>2, <2>2 DEF Holds, Span
    <3> QED  BY <3>1, <3>2
  <2>5. \A v \in Workers, e \in Elements :
          /\ acc'[v][e] <= 1
          /\ acc'[v][e] = 1 => e \notin Span(rng'[v])
    <3> TAKE v \in Workers, e \in Elements
    <3>1. CASE v = w
      BY <3>1, <2>1, <2>3 DEF IInv, ExactlyOneHolder
    <3>2. CASE v # w
      BY <3>2, <2>2 DEF IInv, ExactlyOneHolder
    <3> QED  BY <3>1, <3>2
  <2>6. \A e \in Elements :
          /\ e < next' => \E v \in Workers : Holds(v, e)'
          /\ e >= next' => \A v \in Workers : ~ Holds(v, e)'
          /\ \A u, v \in Workers : Holds(u, e)' /\ Holds(v, e)' => u = v
    BY <1>0, <2>4 DEF IInv, ExactlyOneHolder
  <2> QED  BY <2>5, <2>6 DEF ExactlyOneHolder, Holds
<1>5. PhaseInv' /\ MergeInv' /\ ResultExact'
  BY <1>0, <1>a, <1>b, <1>t
     DEF IInv, PhaseInv, NoThreadOutlivesCall, MergeInv, ResultExact, TypeOK
<1> QED  BY <1>1, <1>2, <1>3, <1>4, <1>5 DEF IInv

\* A failing GPU thread preserves the invariant: its range stays with it.
LEMMA GpuFailsIInv ==
  ASSUME NEW g \in Gpus
  PROVE  IInv /\ GpuFails(g) => IInv'
<1> SUFFICES ASSUME IInv, GpuFails(g) PROVE IInv'
  OBVIOUS
<1>t. TypeOK
  BY DEF IInv
<1>0. /\ UNCHANGED <<next, replica, cur, chunk, rng, acc, merged, value, returned, outcome, calls>>
      /\ pc[g] = "reduce" /\ pc' = [pc EXCEPT ![g] = "exited"]
      /\ errors' = errors \cup {g}
      /\ g # 0 /\ g \in Workers /\ 0 \in Workers /\ Gpus \subseteq Workers
  BY DEF GpuFails, Gpus, Workers
<1>b. outcome # "ok" /\ pc[0] \notin {"idle", "over", "merge", "prepare"}
  BY <1>0 DEF IInv, PhaseInv, NoThreadOutlivesCall
<1>1. TypeOK'
  BY <1>0, <1>t DEF TypeOK, WorkerPc
<1>2. PcInv'
  BY <1>0, <1>t DEF IInv, PcInv, MainPc, GpuPc, TypeOK
<1>3. ClaimInv' /\ RangeInv'
  BY <1>0, <1>t DEF IInv, ClaimInv, RangeInv, TypeOK
<1>4. ExactlyOneHolder'
  BY <1>0 DEF IInv, ExactlyOneHolder, Holds
<1>5. PhaseInv' /\ MergeInv' /\ ResultExact'
  BY <1>0, <1>b, <1>t
     DEF IInv, PhaseInv, NoThreadOutlivesCall, MergeInv, ResultExact, TypeOK
<1> QED  BY <1>1, <1>2, <1>3, <1>4, <1>5 DEF IInv

\* No worker folds an element twice.
LEMMA FoldedAtMostOnce ==
  ASSUME IInv, NEW w \in Workers, NEW e \in Elements
  PROVE  acc[w][e] \in {0, 1}
<1>1. acc[w][e] \in Nat
  BY DEF IInv, TypeOK
<1>2. acc[w][e] <= 1
  BY DEF IInv, ExactlyOneHolder
<1> QED  BY <1>1, <1>2

\* Joining the threads preserves the invariant.
LEMMA JoinIInv == IInv /\ Join => IInv'
<1> SUFFICES ASSUME IInv, Join PROVE IInv'
  OBVIOUS
<1>t. TypeOK
  BY DEF IInv
<1>0. /\ UNCHANGED <<next, replica, cur, chunk, rng, acc, errors, merged, returned, calls>>
      /\ pc[0] = "join" /\ next = N /\ merged = 0
      /\ \A g \in Gpus : pc[g] = "exited" /\ pc'[g] = "joined"
      /\ pc' \in [Workers -> {"over", "merge", "joined"}]
      /\ 0 \in Workers /\ 0 \notin Gpus /\ \A w \in Workers : w = 0 \/ w \in Gpus
      /\ \/ pc'[0] = "over" /\ outcome' = "threw" /\ value' = value
         \/ pc'[0] = "merge" /\ errors = {} /\ outcome' = outcome /\ value' = acc[0]
  <2>1. pc[0] = "join" /\ next = N /\ merged = 0 /\ \A g \in Gpus : pc[g] = "exited"
    BY DEF Join, AllExited, IInv, PhaseInv
  <2>2. 0 \in Workers /\ 0 \notin Gpus /\ \A w \in Workers : w = 0 \/ w \in Gpus
    BY DEF Workers, Gpus
  <2>3. pc' = [w \in Workers |->
                CASE w = 0 -> IF CallFailed THEN "over" ELSE "merge"
                  [] w # 0 -> IF pc[w] = "exited" THEN "joined" ELSE pc[w]]
    BY DEF Join
  <2>4. /\ \A w \in Workers : pc'[w] = IF w = 0 THEN IF CallFailed THEN "over" ELSE "merge"
                                               ELSE "joined"
        /\ DOMAIN pc' = Workers
    BY <2>1, <2>2, <2>3
  <2>5. pc' \in [Workers -> {"over", "merge", "joined"}]
    BY <2>2, <2>3, <2>4
  <2>6. /\ \A g \in Gpus : pc'[g] = "joined"
        /\ \/ pc'[0] = "over" /\ outcome' = "threw" /\ value' = value
           \/ pc'[0] = "merge" /\ errors = {} /\ outcome' = outcome /\ value' = acc[0]
    BY <2>2, <2>4 DEF Join, CallFailed, Workers, Gpus
  <2> QED  BY <2>1, <2>2, <2>5, <2>6 DEF Join
<1>1. TypeOK'
  BY <1>0, <1>t DEF TypeOK, WorkerPc
<1>2. PcInv'
  BY <1>0 DEF PcInv, MainPc, GpuPc
<1>3. ClaimInv' /\ RangeInv'
  <2>1. ClaimInv'
    BY <1>0 DEF ClaimInv
  <2>2. ASSUME NEW w \in Workers
        PROVE  /\ rng[w].count > 0 => rng[w].offset + rng[w].count <= next
               /\ w \notin errors \/ w = 0 => rng[w].count = 0
    BY <1>0 DEF IInv, RangeInv
  <2>3. \A w \in Workers : pc'[w] = "merge" => w = 0
    BY <1>0
  <2> QED  BY <1>0, <2>1, <2>2, <2>3 DEF RangeInv
<1>4. ExactlyOneHolder'
  BY <1>0 DEF IInv, ExactlyOneHolder, Holds
<1>5. PhaseInv' /\ ResultExact'
  BY <1>0 DEF IInv, PhaseInv, NoThreadOutlivesCall, ResultExact
<1>6. MergeInv'
  <2> SUFFICES ASSUME pc'[0] = "merge", NEW e \in Elements
               PROVE  value'[e] = IF \E w \in 0 .. merged' : acc'[w][e] = 1 THEN 1 ELSE 0
    BY DEF MergeInv
  <2>1. value'[e] = acc[0][e] /\ acc[0][e] \in {0, 1}
    BY <1>0, FoldedAtMostOnce
  <2>2. 0 .. merged' = {0} /\ acc' = acc
    BY <1>0
  <2> QED  BY <2>1, <2>2
<1> QED  BY <1>1, <1>2, <1>3, <1>4, <1>5, <1>6 DEF IInv

\* Merging one value preserves the invariant.
LEMMA MergeGpuIInv == IInv /\ MergeGpu => IInv'
<1> SUFFICES ASSUME IInv, MergeGpu PROVE IInv'
  OBVIOUS
<1>t. TypeOK
  BY DEF IInv
<1> DEFINE m == merged + 1
<1>0. /\ UNCHANGED <<next, replica, pc, cur, chunk, rng, acc, errors, returned, outcome, calls>>
      /\ pc[0] = "merge" /\ merged' = m /\ m \in 1 .. G /\ m \in Workers
      /\ value' = [e \in Elements |-> value[e] + acc[m][e]]
  BY <1>t DEF MergeGpu, Merge, TypeOK, Workers
<1>1. TypeOK'
  <2>1. acc[m] \in [Elements -> Nat] /\ value \in [Elements -> Nat]
    BY <1>0, <1>t DEF TypeOK
  <2>2. value' \in [Elements -> Nat]
    BY <1>0, <2>1
  <2> QED  BY <1>0, <2>2, <1>t DEF TypeOK
<1>2. PcInv' /\ ClaimInv' /\ RangeInv'
  BY <1>0 DEF IInv, PcInv, ClaimInv, RangeInv
<1>3. ExactlyOneHolder'
  BY <1>0 DEF IInv, ExactlyOneHolder, Holds
<1>4. PhaseInv' /\ ResultExact'
  BY <1>0 DEF IInv, PhaseInv, NoThreadOutlivesCall, ResultExact
<1>5. MergeInv'
  <2> SUFFICES ASSUME NEW e \in Elements
               PROVE  value'[e] = IF \E w \in 0 .. merged' : acc'[w][e] = 1 THEN 1 ELSE 0
    BY DEF MergeInv
  <2>1. value'[e] = value[e] + acc[m][e]
    BY <1>0
  <2>2. value[e] = IF \E w \in 0 .. merged : acc[w][e] = 1 THEN 1 ELSE 0
    BY <1>0 DEF IInv, MergeInv
  <2>3. acc[m][e] \in {0, 1}
    BY <1>0, FoldedAtMostOnce
  <2>4. 0 .. merged' = (0 .. merged) \cup {m} /\ m \notin 0 .. merged
        /\ 0 .. merged \subseteq Workers
    <3>1. merged \in Nat /\ merged + 1 <= G
      BY <1>0, <1>t DEF TypeOK
    <3>2. merged' = merged + 1
      BY <1>0
    <3> QED  BY <3>1, <3>2 DEF Workers
  <2>5. acc[m][e] = 1 => \A w \in 0 .. merged : acc[w][e] # 1
    <3> SUFFICES ASSUME acc[m][e] = 1, NEW w \in 0 .. merged, acc[w][e] = 1
                 PROVE  FALSE
      OBVIOUS
    <3>1. w \in Workers /\ w # m /\ Holds(w, e) /\ Holds(m, e)
      BY <2>4 DEF Holds
    <3> QED  BY <3>1, <1>0 DEF IInv, ExactlyOneHolder
  <2> HIDE DEF m
  <2> QED  BY <1>0, <2>1, <2>2, <2>3, <2>4, <2>5
<1> QED  BY <1>1, <1>2, <1>3, <1>4, <1>5 DEF IInv

\* Returning preserves the invariant: the merged value counts each element once.
LEMMA ReturnIInv == IInv /\ Return => IInv'
<1> SUFFICES ASSUME IInv, Return PROVE IInv'
  OBVIOUS
<1>t. TypeOK
  BY DEF IInv
<1>0. /\ UNCHANGED <<next, replica, cur, chunk, rng, acc, errors, merged, value, calls>>
      /\ pc[0] = "merge" /\ merged = G /\ returned' = value /\ outcome' = "ok"
      /\ pc' = [pc EXCEPT ![0] = "idle"]
      /\ errors = {} /\ next = N /\ \A g \in Gpus : pc[g] = "joined"
      /\ 0 \in Workers /\ 0 \notin Gpus /\ \A w \in Workers : w = 0 \/ w \in Gpus
  BY DEF Return, work, IInv, PhaseInv, NoThreadOutlivesCall, Workers, Gpus
<1>1. TypeOK'
  BY <1>0, <1>t DEF TypeOK, WorkerPc
<1>2. PcInv'
  BY <1>0, <1>t DEF IInv, PcInv, MainPc, GpuPc, TypeOK
<1>3. ClaimInv' /\ RangeInv'
  BY <1>0, <1>t DEF IInv, ClaimInv, RangeInv, TypeOK
<1>4. ExactlyOneHolder'
  BY <1>0 DEF IInv, ExactlyOneHolder, Holds
<1>5. PhaseInv' /\ MergeInv'
  BY <1>0, <1>t DEF IInv, PhaseInv, NoThreadOutlivesCall, MergeInv, TypeOK
<1>6. ResultExact'
  <2>1. ASSUME NEW e \in Elements PROVE value[e] = 1
    <3>1. e < next
      BY <1>0 DEF Elements
    <3>2. PICK w \in Workers : Holds(w, e)
      BY <3>1 DEF IInv, ExactlyOneHolder
    <3>3. rng[w].count = 0 /\ rng[w] \in [offset : 0 .. N, count : 0 .. N]
      BY <1>0, <1>t DEF IInv, RangeInv, TypeOK
    <3>4. e \notin Span(rng[w])
      BY <3>3 DEF Span, Elements
    <3>5. acc[w][e] = 1
      BY <3>2, <3>4, <1>t DEF Holds, IInv, ExactlyOneHolder, TypeOK
    <3>6. w \in 0 .. merged
      BY <1>0 DEF Workers
    <3> QED  BY <3>5, <3>6, <1>0 DEF IInv, MergeInv
  <2>2. value = Total
    BY <2>1, <1>t DEF Total, TypeOK
  <2> QED  BY <1>0, <2>2 DEF ResultExact
<1> QED  BY <1>1, <1>2, <1>3, <1>4, <1>5, <1>6 DEF IInv

-----------------------------------------------------------------------------
(* Theorems *)

\* Every step of the strategy preserves the invariant.
LEMMA IInvInductive == IInv /\ [Next]_vars => IInv'
<1> SUFFICES ASSUME IInv, [Next]_vars PROVE IInv'
  OBVIOUS
<1>1. CASE SpawnFails \/ CpuFails
  BY <1>1, UnwindIInv DEF SpawnFails, CpuFails
<1>2. ASSUME NEW w \in Workers, Worker(w) PROVE IInv'
  BY <1>2, LoadIInv, ExchangeSucceedsIInv, ExchangeFailsIInv, ReduceIInv DEF Worker
<1>3. CASE Finished \/ UNCHANGED vars
  <2>0. UNCHANGED vars
    BY <1>3 DEF Finished
  <2>1. TypeOK' /\ PcInv' /\ ClaimInv' /\ RangeInv'
    BY <2>0 DEF vars, IInv, TypeOK, PcInv, ClaimInv, RangeInv
  <2>2. ExactlyOneHolder'
    BY <2>0 DEF vars, IInv, ExactlyOneHolder, Holds
  <2>3. PhaseInv' /\ MergeInv' /\ ResultExact'
    BY <2>0 DEF vars, IInv, PhaseInv, NoThreadOutlivesCall, MergeInv, ResultExact
  <2> QED  BY <2>1, <2>2, <2>3 DEF IInv
<1> QED  BY <1>1, <1>2, <1>3, PrepareIInv, StartIInv, SpawnIInv, GpuFailsIInv, JoinIInv,
            MergeGpuIInv, ReturnIInv DEF Next

\* The invariant IInv holds of every call: types, claims, joins and merge.
THEOREM Invariance == Spec => []IInv
BY InitIInv, IInvInductive, PTL DEF Spec

\* Every variable keeps its type: the cursor stays within the data, and no
\* worker asks for elements beyond it.
THEOREM TypeCorrect == Spec => []TypeOK
<1>1. IInv => TypeOK
  BY DEF IInv
<1> QED  BY <1>1, Invariance, PTL

\* claim hands each element to exactly one worker, whatever loads were stale
\* and exchanges failed.
THEOREM ClaimsExact == Spec => []ExactlyOneHolder
<1>1. IInv => ExactlyOneHolder
  BY DEF IInv
<1> QED  BY <1>1, Invariance, PTL

\* A value run_once returns counts every element exactly once.
THEOREM ReturnsExact == Spec => []ResultExact
<1>1. IInv => ResultExact
  BY DEF IInv
<1> QED  BY <1>1, Invariance, PTL

\* No GPU thread outlives the call whose locals it uses.
THEOREM ThreadsJoined == Spec => []NoThreadOutlivesCall
<1>1. IInv => NoThreadOutlivesCall
  BY DEF IInv, PhaseInv
<1> QED  BY <1>1, Invariance, PTL

-----------------------------------------------------------------------------
(* The capacity contract *)

\* What a worker is about to claim, or has claimed, fits a GPU reducer.
CapacityInv ==
  \A w \in Workers :
    /\ pc[w] = "exchange" => chunk[w] <= Capacity
    /\ pc[w] = "reduce" => rng[w].count <= Capacity

\* The sizes prepare computes are natural numbers.
LEMMA CapacityType ==
  /\ CalibrationElements \in Nat /\ RuntimeMaxChunk \in Nat /\ Capacity \in Nat
  /\ CalibrationElements <= Capacity /\ RuntimeMaxChunk <= Capacity
BY DEF CalibrationElements, RuntimeMaxChunk, Capacity, MinOf, MaxOf

\* With the bounds in order, no chunk exceeds the capacity of a reducer.
LEMMA ChunksFit ==
  ASSUME ChunkBoundsOrdered, NEW c \in 0 .. N - 1, NEW k \in Chunks(c)
  PROVE  k <= Capacity
<1>1. PICK j \in ChunkChoices(N - c) : k = MinOf(j, N - c)
  BY DEF Chunks
<1>2. j \in Nat
  BY ChoicesPositive
<1>3. j <= RuntimeMaxChunk
  <2>1. CASE Kind = "DynamicFixed"
    BY <2>1 DEF ChunkChoices, RuntimeMaxChunk
  <2>2. CASE Kind = "DynamicGuided"
    <3>1. CeilDiv(N - c, GuidedDenom) \in Int
      BY DEF CeilDiv
    <3>2. j \in Clamp(CeilDiv(N - c, GuidedDenom), MinChunk, MaxChunk)
      BY <2>2 DEF ChunkChoices
    <3> QED  BY <2>2, <3>1, <3>2, ClampBounded DEF RuntimeMaxChunk
  <2>3. CASE Kind = "DynamicAdaptive"
    <3>1. PICK t \in 1 .. MaxChunk : j \in Clamp(t, MinChunk, MaxChunk)
      BY <2>3 DEF ChunkChoices
    <3> QED  BY <2>3, <3>1, ClampBounded DEF RuntimeMaxChunk
  <2> QED  BY <2>1, <2>2, <2>3
<1> QED  BY <1>1, <1>2, <1>3, CapacityType DEF MinOf

\* Chunks keep within the capacity from claim to reduction.
LEMMA CapacityInductive ==
  ASSUME ChunkBoundsOrdered
  PROVE  IInv /\ CapacityInv /\ [Next]_vars => CapacityInv'
<1> SUFFICES ASSUME IInv, CapacityInv, [Next]_vars, NEW w \in Workers
             PROVE  /\ pc'[w] = "exchange" => chunk'[w] <= Capacity
                    /\ pc'[w] = "reduce" => rng'[w].count <= Capacity
  <2>1. Capacity' = Capacity
    BY DEF Capacity, RuntimeMaxChunk, CalibrationElements
  <2> QED  BY <2>1 DEF CapacityInv
<1>t. TypeOK /\ 0 \in Workers
  BY DEF IInv, Workers
<1>1. ASSUME NEW v \in Workers, NEW c \in 0 .. next, Load(v, c)
      PROVE  /\ pc'[w] = "exchange" => chunk'[w] <= Capacity
             /\ pc'[w] = "reduce" => rng'[w].count <= Capacity
  <2>1. CASE c >= N
    <3>1. UNCHANGED <<chunk, rng>> /\ pc' = [pc EXCEPT ![v] = AfterLoop(v)]
          /\ AfterLoop(v) \in {"join", "exited"}
      BY <1>1, <2>1 DEF Load, AfterLoop
    <3> QED  BY <3>1, <1>t DEF CapacityInv, TypeOK
  <2>2. CASE ~ (c >= N)
    <3>1. c \in 0 .. N - 1
      BY <2>2, <1>t DEF TypeOK
    <3>2. PICK k \in Chunks(c) :
            /\ chunk' = [chunk EXCEPT ![v] = k]
            /\ pc' = [pc EXCEPT ![v] = "exchange"] /\ rng' = rng
      BY <1>1, <2>2 DEF Load
    <3> QED  BY <3>1, <3>2, <1>t, ChunksFit DEF CapacityInv, TypeOK
  <2> QED  BY <2>1, <2>2
<1>2. ASSUME NEW v \in Workers, ExchangeSucceeds(v)
      PROVE  /\ pc'[w] = "exchange" => chunk'[w] <= Capacity
             /\ pc'[w] = "reduce" => rng'[w].count <= Capacity
  BY <1>2, <1>t DEF ExchangeSucceeds, LeaveClaim, AfterLoop, CapacityInv, TypeOK
<1>3. ASSUME NEW v \in Workers, ExchangeFails(v) \/ Reduce(v)
      PROVE  /\ pc'[w] = "exchange" => chunk'[w] <= Capacity
             /\ pc'[w] = "reduce" => rng'[w].count <= Capacity
  BY <1>3, <1>t DEF ExchangeFails, Reduce, LeaveClaim, CapacityInv, TypeOK
<1>4. ASSUME NEW g \in Gpus, Spawn(g)
      PROVE  /\ pc'[w] = "exchange" => chunk'[w] <= Capacity
             /\ pc'[w] = "reduce" => rng'[w].count <= Capacity
  <2>1. pc'[w] \in {"load", "spawn", "exited"} \/ pc'[w] = pc[w]
    BY <1>4, <1>t DEF Spawn, StartThread, TypeOK
  <2> QED  BY <1>4, <2>1 DEF Spawn, StartThread, CapacityInv
<1>5. ASSUME NEW g \in Gpus, GpuFails(g)
      PROVE  /\ pc'[w] = "exchange" => chunk'[w] <= Capacity
             /\ pc'[w] = "reduce" => rng'[w].count <= Capacity
  BY <1>5, <1>t DEF GpuFails, CapacityInv, TypeOK
<1>6. CASE Start \/ Join
  <2>1. pc'[w] \notin {"exchange", "reduce"}
    <3>1. CASE Start
      BY <3>1 DEF Start
    <3>2. CASE Join
      BY <3>2 DEF Join, AllExited, Workers, Gpus
    <3> QED  BY <1>6, <3>1, <3>2
  <2> QED  BY <2>1
<1>7. CASE Prepare \/ SpawnFails \/ CpuFails \/ Return
  <2>1. UNCHANGED <<chunk, rng>>
    BY <1>7 DEF Prepare, SpawnFails, CpuFails, Unwind, Return, work
  <2>2. pc'[w] \in {"idle", "over"} \/ pc'[w] = pc[w]
    BY <1>7, <1>t DEF Prepare, SpawnFails, CpuFails, Unwind, Return, TypeOK
  <2> QED  BY <2>1, <2>2 DEF CapacityInv
<1>8. CASE MergeGpu \/ Finished \/ UNCHANGED vars
  BY <1>8 DEF MergeGpu, Finished, vars, CapacityInv
<1> QED
  BY <1>1, <1>2, <1>3, <1>4, <1>5, <1>6, <1>7, <1>8 DEF Next, Worker

\* With the chunk bounds in order, no GPU reducer is ever handed more elements
\* than it was sized for, whatever the scheduler.
THEOREM CapacityKept == ASSUME ChunkBoundsOrdered PROVE Spec => []CapacityContract
<1>1. Init => CapacityInv
  BY DEF Init, CapacityInv, Workers
<1>2. CapacityInv => CapacityContract
  BY CapacityType DEF CapacityInv, CapacityContract, Gpus, Workers
<1> QED  BY <1>1, <1>2, CapacityInductive, Invariance, PTL DEF Spec

-----------------------------------------------------------------------------
(* Updates of what the threads share *)

\* No step rewinds the cursor, changes the replica or merges beside a running thread.
LEMMA NextQuiescent ==
  IInv /\ [Next]_vars =>
    [next' < next \/ replica' # replica \/ value' # value
       => \A g \in Gpus : pc[g] \notin {"load", "exchange", "reduce"}]_vars
<1> SUFFICES ASSUME IInv, Next, NEW g \in Gpus, pc[g] \in {"load", "exchange", "reduce"}
             PROVE  ~ (next' < next) /\ replica' = replica /\ value' = value
  OBVIOUS
<1>0. pc[0] \notin {"idle", "over", "merge", "prepare"} /\ next \in Nat
  <2>1. pc[0] \notin {"idle", "over", "merge", "prepare"}
    BY DEF IInv, PhaseInv, NoThreadOutlivesCall
  <2>2. next \in Nat
    BY DEF IInv, TypeOK
  <2> QED  BY <2>1, <2>2
<1>1. ASSUME NEW w \in Workers, ExchangeSucceeds(w)
      PROVE  ~ (next' < next) /\ replica' = replica /\ value' = value
  <2>1. cur[w] = next /\ chunk[w] \in 0 .. N
    BY <1>1 DEF ExchangeSucceeds, CursorUnmoved, IInv, TypeOK
  <2> QED  BY <1>0, <1>1, <2>1 DEF ExchangeSucceeds
<1>2. ASSUME NEW w \in Workers, Worker(w), ~ ExchangeSucceeds(w)
      PROVE  ~ (next' < next) /\ replica' = replica /\ value' = value
  BY <1>0, <1>2 DEF Worker, Load, ExchangeFails, Reduce
<1>3. CASE SpawnFails \/ CpuFails \/ \E h \in Gpus : Spawn(h) \/ GpuFails(h)
  <2>1. UNCHANGED <<next, replica, value>>
    BY <1>3 DEF SpawnFails, CpuFails, Unwind, work, Spawn, StartThread, GpuFails
  <2> QED  BY <1>0, <2>1
<1>4. CASE Finished
  BY <1>0, <1>4 DEF Finished, vars
<1>5. ~ Prepare /\ ~ Start /\ ~ MergeGpu /\ ~ Return /\ ~ Join
  BY <1>0 DEF Prepare, Start, MergeGpu, Return, Join, AllExited
<1> QED  BY <1>1, <1>2, <1>3, <1>4, <1>5 DEF Next

\* The cursor is rewound, the replica changed and the values merged only while
\* no GPU thread runs.
THEOREM UpdatesQuiescent == Spec => QuiescentUpdates
BY Invariance, NextQuiescent, PTL DEF Spec, QuiescentUpdates

-----------------------------------------------------------------------------
(* Refinement of ParallelReduction *)

\* The initial states are idle states of ParallelReduction.
LEMMA AbstractInit == Init => Abstract!Init
<1> SUFFICES ASSUME Init PROVE Abstract!Init
  OBVIOUS
<1>1. Phase = "idle"
  BY DEF Init, Phase, Workers
<1>2. Absorbed = {}
  BY DEF Init, Absorbed, Identity, Workers
<1>3. returned = Abstract!Identity
  BY DEF Init, Identity, Elements, Abstract!Identity, Abstract!Elements
<1> QED  BY <1>1, <1>2, <1>3 DEF Abstract!Init

\* Reducing a chunk absorbs its elements, none of which had been absorbed.
LEMMA ReduceAbsorbs ==
  ASSUME IInv, NEW w \in Workers, Reduce(w)
  PROVE  Abstract!Absorb
<1> DEFINE S == Span(rng[w]) \cap Elements
<1>0. /\ acc' = [acc EXCEPT ![w] = Combine(acc[w], rng[w])]
      /\ pc[w] = "reduce" /\ pc' = [pc EXCEPT ![w] = "load"]
      /\ UNCHANGED returned
      /\ TypeOK /\ 0 \in Workers
  BY DEF Reduce, IInv, Workers
<1>1. Phase = "running" /\ Phase' = "running"
  <2>1. CASE w = 0
    BY <2>1, <1>0 DEF Phase, TypeOK
  <2>2. CASE w # 0
    <3>1. w \in Gpus
      BY <2>2 DEF Workers, Gpus
    <3>2. pc[0] \notin {"idle", "over", "prepare"}
      BY <3>1, <1>0 DEF IInv, PhaseInv, NoThreadOutlivesCall
    <3> QED  BY <3>2, <2>2, <1>0 DEF Phase, TypeOK
  <2> QED  BY <2>1, <2>2
<1>2. \A v \in Workers, e \in Elements : acc[v][e] \in {0, 1}
  BY FoldedAtMostOnce
<1>3. S \cap Absorbed = {}
  <2> SUFFICES ASSUME NEW e \in S, NEW v \in Workers, acc[v][e] > 0 PROVE FALSE
    BY DEF Absorbed
  <2>1. acc[v][e] = 1 /\ Holds(w, e) /\ Holds(v, e)
    BY <1>2 DEF Holds
  <2>2. v = w
    BY <2>1 DEF IInv, ExactlyOneHolder
  <2> QED  BY <2>1, <2>2 DEF IInv, ExactlyOneHolder
<1>4. Absorbed' = Absorbed \cup S
  <2>1. \A v \in Workers, e \in Elements :
          acc'[v][e] > 0 <=> acc[v][e] > 0 \/ (v = w /\ e \in S)
    <3> TAKE v \in Workers, e \in Elements
    <3>1. acc'[v] = IF v = w THEN Combine(acc[w], rng[w]) ELSE acc[v]
      BY <1>0 DEF TypeOK
    <3>2. Combine(acc[w], rng[w])[e] = IF e \in S THEN acc[w][e] + 1 ELSE acc[w][e]
      BY DEF Combine
    <3>3. acc[v][e] \in Nat /\ acc[w][e] \in Nat
      BY <1>2
    <3> QED  BY <3>1, <3>2, <3>3
  <2> QED  BY <2>1 DEF Absorbed
<1>5. S \in SUBSET (Abstract!Elements \ Absorbed)
  BY <1>3 DEF Abstract!Elements, Elements
<1> HIDE DEF S
<1> QED  BY <1>0, <1>1, <1>4, <1>5 DEF Abstract!Absorb

\* Steps in which no value changes are stutters of the abstract call, or the
\* step by which it fails.
LEMMA QuietStep ==
  ASSUME UNCHANGED <<acc, returned>>,
         Phase' = Phase \/ (Phase \in {"idle", "running"} /\ Phase' = "over")
  PROVE  [Abstract!Next]_(Abstract!absVars)
<1>1. Absorbed' = Absorbed
  BY DEF Absorbed
<1> QED  BY <1>1 DEF Abstract!Next, Abstract!Fail, Abstract!absVars

\* Every step is a step of ParallelReduction, or leaves it alone.
LEMMA AbstractStep ==
  IInv /\ [Next]_vars => [Abstract!Next]_(Abstract!absVars)
<1> SUFFICES ASSUME IInv, [Next]_vars PROVE [Abstract!Next]_(Abstract!absVars)
  OBVIOUS
<1>t. TypeOK /\ 0 \in Workers /\ 0 \notin Gpus
  BY DEF IInv, Workers, Gpus
<1>1. CASE Start
  <2>1. Phase = "idle" /\ Phase' = "running" /\ returned' = returned
    BY <1>1, <1>t DEF Start, Phase
  <2>2. Absorbed' = {}
    BY <1>1 DEF Start, Absorbed, Identity
  <2> QED  BY <2>1, <2>2 DEF Abstract!Next, Abstract!Start
<1>2. CASE Return
  <2>1. Phase = "running" /\ Phase' = "idle"
    BY <1>2, <1>t DEF Return, Phase, TypeOK
  <2>2. IInv' /\ outcome' = "ok"
    BY <1>2, ReturnIInv DEF Return
  <2>3. returned' = Total
    BY <2>2 DEF IInv, ResultExact
  <2>4. value = Total /\ UNCHANGED acc
    BY <1>2, <2>3 DEF Return, work
  <2>5. Absorbed = Elements /\ Absorbed' = Absorbed
    <3>1. ASSUME NEW e \in Elements PROVE \E w \in Workers : acc[w][e] = 1
      <4>1. value[e] = 1
        BY <2>4 DEF Total
      <4>2. \E w \in 0 .. merged : acc[w][e] = 1
        BY <4>1, <1>2 DEF Return, IInv, MergeInv
      <4>3. 0 .. merged \subseteq Workers
        BY <1>2 DEF Return, Workers
      <4> QED  BY <4>2, <4>3
    <3>2. \A e \in Elements : \E w \in Workers : acc[w][e] > 0
      BY <3>1
    <3> QED  BY <3>2, <2>4 DEF Absorbed
  <2> QED  BY <2>1, <2>3, <2>5
           DEF Abstract!Next, Abstract!Return, Abstract!Elements, Abstract!Total, Elements, Total
<1>3. ASSUME NEW w \in Workers, Reduce(w) PROVE [Abstract!Next]_(Abstract!absVars)
  BY <1>3, ReduceAbsorbs DEF Abstract!Next
<1>4. ASSUME NEW w \in Workers, NEW c \in 0 .. next, Load(w, c)
      PROVE  [Abstract!Next]_(Abstract!absVars)
  <2>1. pc[w] = "load" /\ UNCHANGED <<acc, returned>>
        /\ \E p \in {"join", "exited", "exchange"} : pc' = [pc EXCEPT ![w] = p]
    BY <1>4 DEF Load, AfterLoop
  <2> QED  BY <2>1, <1>t, QuietStep DEF Phase, TypeOK
<1>5. ASSUME NEW w \in Workers, ExchangeSucceeds(w) \/ ExchangeFails(w)
      PROVE  [Abstract!Next]_(Abstract!absVars)
  <2>1. pc[w] = "exchange" /\ UNCHANGED <<acc, returned>>
        /\ \E p \in {"join", "exited", "reduce", "load"} : pc' = [pc EXCEPT ![w] = p]
    BY <1>5 DEF ExchangeSucceeds, ExchangeFails, AfterLoop
  <2> QED  BY <2>1, <1>t, QuietStep DEF Phase, TypeOK
<1>6. ASSUME NEW g \in Gpus, Spawn(g) \/ GpuFails(g)
      PROVE  [Abstract!Next]_(Abstract!absVars)
  <2>1. CASE Spawn(g)
    <3>1. pc[0] = "spawn" /\ pc'[0] \in {"load", "spawn"} /\ UNCHANGED <<acc, returned>>
      BY <2>1, <1>t DEF Spawn, StartThread, TypeOK
    <3> QED  BY <3>1, QuietStep DEF Phase
  <2>2. CASE GpuFails(g)
    <3>1. pc'[0] = pc[0] /\ UNCHANGED <<acc, returned>>
      BY <2>2, <1>t DEF GpuFails, TypeOK
    <3> QED  BY <3>1, QuietStep DEF Phase
  <2> QED  BY <1>6, <2>1, <2>2
<1>7. CASE Prepare \/ SpawnFails \/ CpuFails
  <2>1. pc[0] \in {"prepare", "spawn", "reduce"} /\ UNCHANGED <<acc, returned>>
    BY <1>7 DEF Prepare, SpawnFails, CpuFails, Unwind, work
  <2>2. pc'[0] = "over" \/ (pc[0] = "prepare" /\ pc'[0] = "idle")
    BY <1>7, <1>t DEF Prepare, SpawnFails, CpuFails, Unwind, TypeOK
  <2> QED  BY <2>1, <2>2, QuietStep DEF Phase
<1>8. CASE Join
  <2>1. pc[0] = "join" /\ pc'[0] \in {"over", "merge"} /\ UNCHANGED <<acc, returned>>
    BY <1>8, <1>t DEF Join
  <2> QED  BY <2>1, QuietStep DEF Phase
<1>9. CASE MergeGpu \/ Finished \/ UNCHANGED vars
  BY <1>9, QuietStep DEF MergeGpu, Finished, vars, Phase
<1> QED
  BY <1>1, <1>2, <1>3, <1>4, <1>5, <1>6, <1>7, <1>8, <1>9 DEF Next, Worker

\* The strategy keeps the promise of ParallelReduction: its calls fold the data
\* piece by piece and return only the whole.
THEOREM Refinement == Spec => ImplementsReduction
BY Invariance, AbstractInit, AbstractStep, PTL DEF Spec, ImplementsReduction, Abstract!Spec
=============================================================================
