------------------------- MODULE EnergyMeter_proofs -------------------------
(***************************************************************************)
(* Proofs about EnergyMeter, for every range of the counter, every course  *)
(* of the power and any number of GPUs.  IInv orders what was consumed at  *)
(* the reads of RAPL and at the edges of the batch (BlockInv), says what a *)
(* row is made of (RowInv) and bounds the times and the number of the      *)
(* samples (PollInv); OrderInv and CounterInv add the order of the samples *)
(* and of the reads of the GPU counters.                                   *)
(*                                                                         *)
(* First the arithmetic: of a counter that wraps, and of the integral.     *)
(* What is clipped and the area up to a sample are recursive functions,    *)
(* which induction over the samples (UpTo) relates to the window and to    *)
(* the least and the greatest power.                                       *)
(***************************************************************************)
EXTENDS EnergyMeter, SequenceTheorems, WellFoundedInduction, TLAPS

Sample   == [ts : Nat, p : Powers]
Starting == {"start_cpu", "start_gpu", "flag"}
Stopping == {"stop_cpu", "stop_gpu", "lower", "join", "total"}

Types ==
  /\ now \in 0 .. MaxTime /\ power \in Powers /\ used \in Nat
  /\ rapl \in BOOLEAN /\ nvml \in BOOLEAN /\ counted \subseteq Gpus
  /\ pc \in Starting \cup {"batch"} \cup Stopping \cup {"close", "closed", "left"}
  /\ started \in BOOLEAN /\ retry \in BOOLEAN /\ running \in BOOLEAN /\ handle \in BOOLEAN
  /\ exc \in {"none", "rapl", "nvml", "batch", "index", "interrupt"}
  /\ cpuRead \in Reading(Nat) /\ gpuRead \in Reading(Nat)
  /\ window \in Reading(Nat) /\ batch \in Reading(Nat)
  /\ poller \in {"off", "loop", "read", "sleep", "ended"}
  /\ ts \in Nat \cup {None}
  /\ samples \in [Gpus -> Seq(Sample)]

\* The block: the meter counts as started from the command on, and the first
\* attempt to stop it comes after the batch.
BlockInv ==
  /\ pc \in Starting => ~ started /\ ~ retry
  /\ pc \in {"batch"} \cup Stopping => started
  /\ rapl /\ (started \/ pc \in {"start_gpu", "flag"}) =>
       cpuRead.from \in Nat /\ cpuRead.from <= used
  /\ started => batch.from \in Nat /\ batch.from <= used /\ (rapl => cpuRead.from <= batch.from)
  /\ ~ retry /\ pc \in Stopping => batch.to \in Nat /\ batch.from <= batch.to /\ batch.to <= used
  /\ ~ retry /\ rapl /\ pc \in Stopping \ {"stop_cpu"} =>
       cpuRead.to \in Nat /\ batch.to <= cpuRead.to /\ cpuRead.to <= used

\* A row is made of the reads of the first stop.
RowInv ==
  row # None =>
    /\ pc \in {"close", "closed"} /\ started
    /\ row.cpu = IF rapl THEN Delta(RaplCounter(cpuRead.from), RaplCounter(cpuRead.to)) ELSE None
    /\ rapl => /\ cpuRead.to \in Nat /\ batch.to \in Nat
               /\ batch.from <= batch.to /\ batch.to <= cpuRead.to

Atmost(n) == \A g \in Gpus : Len(samples[g]) <= n

PollInv ==
  /\ pc \in {"start_cpu", "start_gpu"} => poller = "off" /\ ~ running
  /\ poller = "off" => \A g \in Gpus : samples[g] = <<>>
  /\ poller # "off" => window.from \in Nat /\ window.from <= now
  /\ nvml /\ pc \in {"lower", "join", "total"} => window.to \in Nat
  /\ poller = "loop" => Atmost(now + 1) /\ (running => Atmost(now))
  /\ poller = "read" => ts \in Nat /\ ts <= now /\ window.from <= ts /\ Atmost(ts)
  /\ poller = "sleep" => ts \in Nat /\ ts <= now /\ Atmost(ts + 1)
  /\ poller = "ended" => Atmost(now + 1)
  /\ \A g \in Gpus : \A i \in DOMAIN samples[g] : window.from <= samples[g][i].ts

IInv == Types /\ BlockInv /\ RowInv /\ PollInv

Sorted(c) == \A i, j \in 1 .. Len(c) : i <= j => c[i].ts <= c[j].ts

\* The samples of a GPU are in the order of time.
OrderInv ==
  \A g \in Gpus :
    /\ \A i \in 1 .. Len(samples[g]) :
         samples[g][i].ts <= now /\ (poller = "read" => samples[g][i].ts <= ts)
    /\ Sorted(samples[g])

\* The counters of the GPUs were read before the batch.
CounterInv ==
  nvml =>
    /\ started \/ pc = "flag" => gpuRead.from \in Nat /\ gpuRead.from <= used
    /\ started => gpuRead.from <= batch.from


USE EnergyAssumption

-----------------------------------------------------------------------------
(* The counter *)

LEMMA Wrapped ==
  ASSUME NEW u \in Nat PROVE RaplCounter(u) \in 0 .. MaxRange
BY DEF RaplCounter

LEMMA Parts ==
  ASSUME NEW a \in Nat, NEW n \in Nat \ {0}
  PROVE  a % n = a - n * (a \div n) /\ a \div n \in Nat /\ a % n \in 0 .. n - 1
<1>1. a % n = a - n * (a \div n)
  OBVIOUS
<1>2. a \div n \in Nat
  OBVIOUS
<1>3. a % n \in 0 .. n - 1
  OBVIOUS
<1> QED BY <1>1, <1>2, <1>3

\* Within one range the difference of two reads is what was consumed, or one
\* less if the counter wrapped in between.
LEMMA DeltaTrue ==
  ASSUME NEW u \in Nat, NEW v \in Nat, u <= v, v - u <= MaxRange
  PROVE  LET d == Delta(RaplCounter(u), RaplCounter(v))
         IN /\ d \in {(v - u) - 1, v - u}
            /\ d = v - u \/ RaplCounter(v) < RaplCounter(u)
<1> DEFINE n == MaxRange + 1
           p == u \div n
           q == v \div n
<1>1. n \in Nat \ {0}
  OBVIOUS
<1> HIDE DEF n
<1>2. u % n = u - n * p /\ p \in Nat /\ u % n \in 0 .. n - 1
  BY <1>1, Parts
<1>3. v % n = v - n * q /\ q \in Nat /\ v % n \in 0 .. n - 1
  BY <1>1, Parts
<1>4. RaplCounter(u) = u % n /\ RaplCounter(v) = v % n
  BY DEF RaplCounter, n
<1> DEFINE a == u % n
           b == v % n
<1> HIDE DEF p, q
<1>5. a = u - n * p /\ a \in 0 .. n - 1
  BY <1>2
<1>6. b = v - n * q /\ b \in 0 .. n - 1
  BY <1>3
<1>7. n * p \in Nat /\ n * q \in Nat /\ p \in Nat /\ q \in Nat
  BY <1>1, <1>2, <1>3
<1> HIDE DEF a, b
<1>8. n * q - n * p = (v - u) - (b - a) /\ a \in 0 .. n - 1 /\ b \in 0 .. n - 1
  BY <1>1, <1>5, <1>6, <1>7
<1>9. v - u \in 0 .. n - 1
  BY DEF n
<1>10. q = p \/ q = p + 1
  <2>1. ASSUME q <= p - 1 PROVE FALSE
    <3>1. n * q <= n * p - n
      BY <1>1, <1>2, <1>3, <2>1
    <3> QED BY <1>1, <1>7, <1>9, <1>8, <3>1
  <2>2. ASSUME q >= p + 2 PROVE FALSE
    <3>1. n * q >= n * p + 2 * n
      BY <1>1, <1>2, <1>3, <2>2
    <3> QED BY <1>1, <1>7, <1>9, <1>8, <3>1
  <2> QED BY <1>2, <1>3, <2>1, <2>2
<1>11. CASE q = p
  <2>1. v - u = b - a
    BY <1>1, <1>2, <1>8, <1>11
  <2> QED BY <1>4, <1>8, <2>1 DEF Delta, a, b, n
<1>12. CASE q = p + 1
  <2>1. n * q = n * p + n
    BY <1>1, <1>2, <1>12
  <2>2. v - u = (b - a) + n /\ b < a
    BY <1>1, <1>7, <1>9, <1>8, <2>1
  <2> QED BY <1>4, <1>8, <2>2 DEF Delta, a, b, n
<1> QED BY <1>10, <1>11, <1>12

-----------------------------------------------------------------------------
(* The samples *)

\* A nonempty set of naturals has a least element.
LEMMA LeastElement ==
  ASSUME NEW S, S \subseteq Nat, S # {}
  PROVE  \E x \in S : \A y \in S : x <= y
<1> DEFINE R == OpToRel(<, Nat)
<1>1. \E x \in S : \A y \in S : ~(<<y, x>> \in R)
  <2>1. IsWellFoundedOn(R, Nat)
    BY NatLessThanWellFounded
  <2> HIDE DEF R
  <2> QED BY <2>1, WFMin
<1>2. PICK x \in S : \A y \in S : ~(<<y, x>> \in R)
  BY <1>1
<1>3. R = {p \in Nat \X Nat : p[1] < p[2]}
  BY DEF OpToRel
<1>4. ASSUME NEW y \in S, y < x PROVE FALSE
  <2>1. <<y, x>> \in Nat \X Nat /\ <<y, x>>[1] < <<y, x>>[2]
    BY <1>4
  <2>2. <<y, x>> \in {p \in Nat \X Nat : p[1] < p[2]}
    BY <2>1
  <2> QED BY <1>2, <1>3, <2>2
<1> QED BY <1>4

\* Induction up to m, for a set instead of a predicate.
LEMMA UpTo ==
  ASSUME NEW T, NEW m \in Nat, 0 \in T, \A k \in 0 .. m - 1 : k \in T => k + 1 \in T
  PROVE  0 .. m \subseteq T
<1> SUFFICES ASSUME NEW S, S = {k \in 0 .. m : k \notin T}, S # {} PROVE FALSE
  OBVIOUS
<1>1. PICK k \in S : \A j \in S : k <= j
  BY LeastElement
<1>2. k - 1 \in 0 .. m - 1 /\ k - 1 \notin S
  BY <1>1
<1>3. k - 1 \in T
  BY <1>2
<1> QED BY <1>1, <1>2, <1>3

\* What is clipped of the first i samples, one after the other.
LEMMA ClippedShape ==
  ASSUME NEW s, NEW w, Len(s) \in Nat
  PROVE  /\ Clipped(s, w)[0] = <<>>
         /\ \A i \in 0 .. Len(s) - 1 :
              Clipped(s, w)[i + 1] = IF InWindow(s[i + 1], w) THEN Append(Clipped(s, w)[i], s[i + 1])
                                     ELSE Clipped(s, w)[i]
<1> PICK n \in Nat : n = Len(s)
  OBVIOUS
<1> DEFINE Put(q, i) == IF InWindow(s[i], w) THEN Append(q, s[i]) ELSE q
           Step(f, i) == IF i = 0 THEN <<>> ELSE Put(f[i - 1], i)
           T == {k \in 0 .. n : \E f : f = [i \in 0 .. k |-> Step(f, i)]}
<1> HIDE DEF Put
<1>1. 0 \in T
  <2>1. PICK f : f = [i \in 0 .. 0 |-> <<>>]
    OBVIOUS
  <2>2. f = [i \in 0 .. 0 |-> Step(f, i)]
    BY <2>1
  <2> QED BY <2>2
<1>2. ASSUME NEW k \in 0 .. n - 1, k \in T PROVE k + 1 \in T
  <2>1. PICK f : f = [i \in 0 .. k |-> Step(f, i)]
    BY <1>2
  <2>2. PICK g : g = [i \in 0 .. k + 1 |-> IF i <= k THEN f[i] ELSE Step(f, i)]
    OBVIOUS
  <2>3. \A i \in 0 .. k + 1 : g[i] = Step(g, i)
    <3>1. ASSUME NEW i \in 0 .. k + 1 PROVE g[i] = Step(f, i)
      <4>1. CASE i <= k
        <5>1. i \in 0 .. k
          BY <4>1
        <5>2. f[i] = Step(f, i)
          BY <2>1, <5>1
        <5> QED BY <2>2, <4>1, <5>2
      <4>2. CASE ~(i <= k)
        BY <2>2, <4>2
      <4> QED BY <4>1, <4>2
    <3>2. ASSUME NEW i \in 0 .. k + 1, i # 0 PROVE g[i - 1] = f[i - 1]
      BY <2>2, <3>2
    <3> QED BY <3>1, <3>2
  <2>4. g = [i \in 0 .. k + 1 |-> Step(g, i)]
    BY <2>2, <2>3
  <2> QED BY <2>4
<1>3. 0 .. n \subseteq T
  <2> HIDE DEF T
  <2>1. \A k \in 0 .. n - 1 : k \in T => k + 1 \in T
    BY <1>2
  <2> QED BY <1>1, <2>1, UpTo
<1>4. \E f : f = [i \in 0 .. n |-> Step(f, i)]
  <2>1. n \in T
    BY <1>3
  <2> QED BY <2>1
<1>5. Clipped(s, w) = [i \in 0 .. n |-> Step(Clipped(s, w), i)]
  BY <1>4 DEF Clipped, Put
<1>6. Clipped(s, w)[0] = <<>>
  BY <1>5
<1>7. ASSUME NEW i \in 0 .. n - 1 PROVE Clipped(s, w)[i + 1] = Put(Clipped(s, w)[i], i + 1)
  <2>1. i + 1 \in 0 .. n /\ i + 1 # 0 /\ (i + 1) - 1 = i
    OBVIOUS
  <2>2. Clipped(s, w)[i + 1] = Step(Clipped(s, w), i + 1)
    BY <1>5, <2>1
  <2> QED BY <2>1, <2>2
<1> QED BY <1>6, <1>7 DEF Put

\* What is clipped is sorted and lies in the window, and is nothing only if no
\* sample lies there.
LEMMA ClippedSound ==
  ASSUME NEW s \in Seq(Sample), NEW w \in [from : Nat, to : Nat], Sorted(s),
         NEW c, c = Clipped(s, w)[Len(s)]
  PROVE  /\ c \in Seq(Sample) /\ Sorted(c)
         /\ \A i \in 1 .. Len(c) : InWindow(c[i], w)
         /\ c = <<>> => \A i \in 1 .. Len(s) : ~ InWindow(s[i], w)
<1>1. PICK n \in Nat : n = Len(s)
  BY LenProperties
<1>2. PICK K : K = Clipped(s, w)
  OBVIOUS
<1>3. /\ K[0] = <<>>
      /\ \A i \in 0 .. n - 1 :
           K[i + 1] = IF InWindow(s[i + 1], w) THEN Append(K[i], s[i + 1]) ELSE K[i]
  BY <1>1, <1>2, ClippedShape
<1> DEFINE Good(k) ==
      /\ K[k] \in Seq(Sample) /\ Sorted(K[k])
      /\ \A i \in 1 .. Len(K[k]) : InWindow(K[k][i], w)
      /\ \A i \in 1 .. Len(K[k]) : \A j \in 1 .. n : k <= j => K[k][i].ts <= s[j].ts
      /\ K[k] = <<>> => \A i \in 1 .. k : ~ InWindow(s[i], w)
<1>4. Good(0)
  BY <1>3 DEF Sorted
<1>5. ASSUME NEW k \in 0 .. n - 1, Good(k) PROVE Good(k + 1)
  <2>1. PICK x : x = s[k + 1]
    OBVIOUS
  <2>2. k + 1 \in 1 .. n /\ x \in Sample
    BY <1>1, <2>1, ElementOfSeq
  <2>3. \A j \in 1 .. n : k + 1 <= j => x.ts <= s[j].ts
    BY <1>1, <2>1, <2>2 DEF Sorted
  <2>4. CASE ~ InWindow(x, w)
    <3>1. K[k + 1] = K[k]
      BY <1>3, <2>1, <2>4
    <3>2. \A i \in 1 .. k + 1 : i \in 1 .. k \/ i = k + 1
      OBVIOUS
    <3>3. K[k] = <<>> => \A i \in 1 .. k + 1 : ~ InWindow(s[i], w)
      BY <1>5, <2>1, <2>4, <3>2
    <3>4. \A i \in 1 .. Len(K[k]) : \A j \in 1 .. n : k + 1 <= j => K[k][i].ts <= s[j].ts
      BY <1>5
    <3> QED BY <1>5, <3>1, <3>3, <3>4
  <2>5. CASE InWindow(x, w)
    <3>1. PICK q \in Seq(Sample) : q = K[k]
      BY <1>5
    <3>2. PICK r : r = Append(q, x)
      OBVIOUS
    <3>3. K[k + 1] = r
      BY <1>3, <2>1, <2>5, <3>1, <3>2
    <3>4. PICK m \in Nat : m = Len(q)
      BY <3>1, LenProperties
    <3>5. /\ r \in Seq(Sample) /\ Len(r) = m + 1 /\ r[m + 1] = x
          /\ \A i \in 1 .. m : r[i] = q[i]
      BY <2>2, <3>1, <3>2, <3>4, AppendProperties
    <3>6. \A i \in 1 .. m + 1 : i \in 1 .. m \/ i = m + 1
      OBVIOUS
    <3>7. \A i \in 1 .. m : q[i].ts <= x.ts /\ InWindow(q[i], w)
      BY <1>5, <2>1, <2>2, <3>1, <3>4
    <3>8. Sorted(r)
      <4> SUFFICES ASSUME NEW i \in 1 .. m + 1, NEW j \in 1 .. m + 1, i <= j PROVE r[i].ts <= r[j].ts
        BY <3>5 DEF Sorted
      <4>1. CASE i \in 1 .. m /\ j \in 1 .. m
        BY <1>5, <3>1, <3>4, <3>5, <4>1 DEF Sorted
      <4>2. CASE i \in 1 .. m /\ j = m + 1
        BY <3>5, <3>7, <4>2
      <4>3. CASE i = m + 1 /\ j = m + 1
        BY <2>2, <3>5, <4>3 DEF Sample
      <4> QED BY <3>6, <4>1, <4>2, <4>3
    <3>9. \A i \in 1 .. m + 1 : InWindow(r[i], w)
      BY <2>5, <3>5, <3>6, <3>7
    <3>10. \A i \in 1 .. m + 1 : \A j \in 1 .. n : k + 1 <= j => r[i].ts <= s[j].ts
      <4> SUFFICES ASSUME NEW i \in 1 .. m + 1, NEW j \in 1 .. n, k + 1 <= j PROVE r[i].ts <= s[j].ts
        OBVIOUS
      <4>1. CASE i \in 1 .. m
        <5>1. q[i].ts <= s[j].ts
          BY <1>5, <3>1, <3>4, <4>1
        <5> QED BY <3>5, <4>1, <5>1
      <4>2. CASE i = m + 1
        BY <2>3, <3>5, <4>2
      <4> QED BY <3>6, <4>1, <4>2
    <3>11. r # <<>>
      BY <3>5
    <3> QED BY <3>3, <3>5, <3>8, <3>9, <3>10, <3>11
  <2> QED BY <2>4, <2>5
<1>6. PICK T : T = {k \in 0 .. n : Good(k)}
  OBVIOUS
<1>7. 0 \in T /\ \A k \in 0 .. n - 1 : k \in T => k + 1 \in T
  <2> HIDE DEF Good
  <2> QED BY <1>4, <1>5, <1>6
<1>8. n \in T
  <2>1. 0 .. n \subseteq T
    BY <1>7, UpTo
  <2> QED BY <2>1
<1>9. Good(n)
  BY <1>6, <1>8
<1> QED BY <1>1, <1>2, <1>9

LEMMA Scaled ==
  ASSUME NEW a \in Nat, NEW b \in Nat, a <= b, NEW d \in Nat
  PROVE  a * d \in Nat /\ b * d \in Nat /\ a * d <= b * d
<1>1. a * d \in Nat /\ b * d \in Nat
  OBVIOUS
<1>2. PICK e \in Nat : b = a + e
  <2>1. b - a \in Nat /\ b = a + (b - a)
    OBVIOUS
  <2> QED BY <2>1
<1>3. b * d = a * d + e * d /\ e * d \in Nat
  BY <1>2
<1> QED BY <1>1, <1>3

\* A sum over two stretches of time.
LEMMA Spread ==
  ASSUME NEW a \in Nat, NEW d \in Nat, NEW e \in Nat
  PROVE  a * (2 * (d + e)) = a * (2 * d) + (2 * a) * e
OBVIOUS

\* The area between two samples and under the first n of them.
LEMMA TrapezoidShape ==
  ASSUME NEW c, NEW n \in Nat \ {0}, Len(c) = n
  PROVE  /\ Trapezoids(c)[1] = 0
         /\ \A i \in 1 .. n - 1 :
              Trapezoids(c)[i + 1]
                = Trapezoids(c)[i] + (c[i].p + c[i + 1].p) * (c[i + 1].ts - c[i].ts)
<1> DEFINE Plus(a, i) == a + (c[i - 1].p + c[i].p) * (c[i].ts - c[i - 1].ts)
           Step(f, i) == IF i = 1 THEN 0 ELSE Plus(f[i - 1], i)
           T == {k \in 0 .. n - 1 : \E f : f = [i \in 1 .. k + 1 |-> Step(f, i)]}
<1> HIDE DEF Plus
<1>1. 0 \in T
  <2>1. PICK f : f = [i \in 1 .. 0 + 1 |-> 0]
    OBVIOUS
  <2>2. f = [i \in 1 .. 0 + 1 |-> Step(f, i)]
    BY <2>1
  <2> QED BY <2>2
<1>2. ASSUME NEW k \in 0 .. (n - 1) - 1, k \in T PROVE k + 1 \in T
  <2>1. PICK f : f = [i \in 1 .. k + 1 |-> Step(f, i)]
    BY <1>2
  <2>2. PICK g : g = [i \in 1 .. (k + 1) + 1 |-> IF i <= k + 1 THEN f[i] ELSE Step(f, i)]
    OBVIOUS
  <2>3. \A i \in 1 .. (k + 1) + 1 : g[i] = Step(g, i)
    <3>1. ASSUME NEW i \in 1 .. (k + 1) + 1 PROVE g[i] = Step(f, i)
      <4>1. CASE i <= k + 1
        <5>1. i \in 1 .. k + 1
          BY <4>1
        <5>2. f[i] = Step(f, i)
          BY <2>1, <5>1
        <5> QED BY <2>2, <4>1, <5>2
      <4>2. CASE ~(i <= k + 1)
        BY <2>2, <4>2
      <4> QED BY <4>1, <4>2
    <3>2. ASSUME NEW i \in 1 .. (k + 1) + 1, i # 1 PROVE g[i - 1] = f[i - 1]
      BY <2>2, <3>2
    <3> QED BY <3>1, <3>2
  <2>4. g = [i \in 1 .. (k + 1) + 1 |-> Step(g, i)]
    BY <2>2, <2>3
  <2> QED BY <2>4
<1>3. 0 .. n - 1 \subseteq T
  <2> HIDE DEF T
  <2>1. \A k \in 0 .. (n - 1) - 1 : k \in T => k + 1 \in T
    BY <1>2
  <2>2. n - 1 \in Nat
    OBVIOUS
  <2> QED BY <1>1, <2>1, <2>2, UpTo
<1>4. \E f : f = [i \in 1 .. n |-> Step(f, i)]
  <2>1. n - 1 \in T /\ (n - 1) + 1 = n
    BY <1>3
  <2> QED BY <2>1
<1>5. Trapezoids(c) = [i \in 1 .. n |-> Step(Trapezoids(c), i)]
  BY <1>4 DEF Trapezoids, Plus
<1>6. Trapezoids(c)[1] = 0
  BY <1>5
<1>7. ASSUME NEW i \in 1 .. n - 1 PROVE Trapezoids(c)[i + 1] = Plus(Trapezoids(c)[i], i + 1)
  <2>1. i + 1 \in 1 .. n /\ i + 1 # 1 /\ (i + 1) - 1 = i
    OBVIOUS
  <2>2. Trapezoids(c)[i + 1] = Step(Trapezoids(c), i + 1)
    BY <1>5, <2>1
  <2> QED BY <2>1, <2>2
<1>8. \A i \in 1 .. n - 1 : (i + 1) - 1 = i
  OBVIOUS
<1> QED BY <1>6, <1>7, <1>8 DEF Plus

\* The area under samples between two powers lies between theirs.
LEMMA AreaBetween ==
  ASSUME NEW c \in Seq(Sample), NEW n \in Nat \ {0}, Len(c) = n, Sorted(c),
         NEW lo \in Nat, NEW hi \in Nat,
         \A i \in 1 .. n : lo <= c[i].p /\ c[i].p <= hi
  PROVE  /\ Trapezoids(c)[n] \in Int
         /\ lo * (2 * (c[n].ts - c[1].ts)) <= Trapezoids(c)[n]
         /\ Trapezoids(c)[n] <= hi * (2 * (c[n].ts - c[1].ts))
<1>1. PICK A : A = Trapezoids(c)
  OBVIOUS
<1>2. /\ A[1] = 0
      /\ \A i \in 1 .. n - 1 : A[i + 1] = A[i] + (c[i].p + c[i + 1].p) * (c[i + 1].ts - c[i].ts)
  BY <1>1, TrapezoidShape
<1>3. \A i \in 1 .. n : c[i].ts \in Nat /\ c[i].p \in Nat
  <2>1. \A i \in 1 .. n : c[i] \in Sample
    BY ElementOfSeq
  <2> QED BY <2>1 DEF Sample
<1>4. \A i, j \in 1 .. n : i <= j => c[i].ts <= c[j].ts
  BY DEF Sorted
<1> DEFINE Good(i) == /\ A[i] \in Int
                      /\ lo * (2 * (c[i].ts - c[1].ts)) <= A[i]
                      /\ A[i] <= hi * (2 * (c[i].ts - c[1].ts))
<1>5. Good(1)
  <2>1. c[1].ts - c[1].ts = 0
    BY <1>3
  <2>2. lo * (2 * 0) = 0 /\ hi * (2 * 0) = 0
    OBVIOUS
  <2> QED BY <1>2, <2>1, <2>2
<1>6. ASSUME NEW i \in 1 .. n - 1, Good(i) PROVE Good(i + 1)
  <2>1. i \in 1 .. n /\ i + 1 \in 1 .. n /\ 1 \in 1 .. n
    OBVIOUS
  <2>2. PICK p \in Nat, q \in Nat : p = c[i].p /\ q = c[i + 1].p
    BY <1>3, <2>1
  <2>3. PICK d \in Nat, e \in Nat : d = c[i].ts - c[1].ts /\ e = c[i + 1].ts - c[i].ts
    <3>1. c[i].ts - c[1].ts \in Nat /\ c[i + 1].ts - c[i].ts \in Nat
      BY <1>3, <1>4, <2>1
    <3> QED BY <3>1
  <2>4. c[i + 1].ts - c[1].ts = d + e
    BY <1>3, <2>1, <2>3
  <2>5. A[i + 1] = A[i] + (p + q) * e
    BY <1>2, <2>2, <2>3
  <2>6. 2 * lo \in Nat /\ 2 * hi \in Nat /\ p + q \in Nat /\ 2 * lo <= p + q /\ p + q <= 2 * hi
    <3>1. lo <= p /\ p <= hi /\ lo <= q /\ q <= hi
      BY <2>1, <2>2
    <3> QED BY ONLY <3>1, lo \in Nat, hi \in Nat, p \in Nat, q \in Nat
  <2>7. (p + q) * e \in Nat /\ (2 * lo) * e <= (p + q) * e /\ (p + q) * e <= (2 * hi) * e
        /\ (2 * lo) * e \in Nat /\ (2 * hi) * e \in Nat
    <3>1. (2 * lo) * e \in Nat /\ (p + q) * e \in Nat /\ (2 * lo) * e <= (p + q) * e
      BY ONLY <2>6, <2>3, Scaled
    <3>2. (2 * hi) * e \in Nat /\ (p + q) * e <= (2 * hi) * e
      BY ONLY <2>6, <2>3, Scaled
    <3> QED BY <3>1, <3>2
  <2>8. /\ lo * (2 * (d + e)) = lo * (2 * d) + (2 * lo) * e
        /\ hi * (2 * (d + e)) = hi * (2 * d) + (2 * hi) * e
    BY Spread
  <2>9. A[i] \in Int /\ lo * (2 * d) <= A[i] /\ A[i] <= hi * (2 * d)
        /\ lo * (2 * d) \in Nat /\ hi * (2 * d) \in Nat
    <3>1. lo * (2 * d) \in Nat /\ hi * (2 * d) \in Nat
      OBVIOUS
    <3>2. d = c[i].ts - c[1].ts
      BY <2>3
    <3> QED BY <1>6, <3>1, <3>2
  <2>10. /\ A[i + 1] \in Int
         /\ lo * (2 * (d + e)) <= A[i + 1] /\ A[i + 1] <= hi * (2 * (d + e))
    <3>1. PICK l1 \in Nat, l2 \in Nat, u1 \in Nat, u2 \in Nat, m \in Nat :
            /\ l1 = lo * (2 * d) /\ l2 = (2 * lo) * e /\ u1 = hi * (2 * d) /\ u2 = (2 * hi) * e
            /\ m = (p + q) * e
      BY <2>7, <2>9
    <3>2. l1 <= A[i] /\ A[i] <= u1 /\ l2 <= m /\ m <= u2 /\ A[i + 1] = A[i] + m /\ A[i] \in Int
      BY <2>5, <2>7, <2>9, <3>1
    <3>3. lo * (2 * (d + e)) = l1 + l2 /\ hi * (2 * (d + e)) = u1 + u2
      BY <2>8, <3>1
    <3>4. A[i + 1] \in Int /\ l1 + l2 <= A[i + 1] /\ A[i + 1] <= u1 + u2
      BY ONLY <3>2, l1 \in Nat, l2 \in Nat, u1 \in Nat, u2 \in Nat, m \in Nat
    <3> QED BY <3>3, <3>4
  <2> QED BY <2>4, <2>10
<1>7. PICK T : T = {k \in 0 .. n - 1 : Good(k + 1)}
  OBVIOUS
<1>8. 0 \in T /\ \A k \in 0 .. (n - 1) - 1 : k \in T => k + 1 \in T
  <2> HIDE DEF Good
  <2>1. 0 \in T
    BY <1>5, <1>7
  <2>2. ASSUME NEW k \in 0 .. (n - 1) - 1, k \in T PROVE k + 1 \in T
    <3>1. Good(k + 1) /\ k + 1 \in 1 .. n - 1
      BY <1>7, <2>2
    <3>2. Good((k + 1) + 1)
      BY <1>6, <3>1
    <3> QED BY <1>7, <3>2
  <2> QED BY <2>1, <2>2
<1>9. n - 1 \in T
  <2>1. n - 1 \in Nat
    OBVIOUS
  <2>2. 0 .. n - 1 \subseteq T
    BY <1>8, <2>1, UpTo
  <2> QED BY <2>2
<1>10. Good(n)
  <2>1. (n - 1) + 1 = n
    OBVIOUS
  <2> HIDE DEF Good
  <2> QED BY <1>7, <1>9, <2>1
<1> QED BY <1>1, <1>10

Powered(c) == {c[i].p : i \in DOMAIN c}

\* The least and the greatest power of a sequence of samples bound all of them.
LEMMA Extremes ==
  ASSUME NEW c \in Seq(Sample), c # <<>>
  PROVE  /\ Powered(c) # {} /\ Min(Powered(c)) \in Nat /\ Max(Powered(c)) \in Nat
         /\ \A i \in 1 .. Len(c) : Min(Powered(c)) <= c[i].p /\ c[i].p <= Max(Powered(c))
<1>1. PICK n \in Nat \ {0} : n = Len(c)
  <2>1. Len(c) \in Nat /\ Len(c) # 0
    BY LenProperties, EmptySeq
  <2> QED BY <2>1
<1>2. \A i \in 1 .. n : c[i].p \in Nat
  <2>1. \A i \in 1 .. n : c[i] \in Sample
    BY <1>1, ElementOfSeq
  <2> QED BY <2>1 DEF Sample
<1>3. PICK S : S = Powered(c)
  OBVIOUS
<1>4. DOMAIN c = 1 .. n
  BY <1>1, LenProperties
<1>5. S \subseteq Nat /\ S # {} /\ \A i \in 1 .. n : c[i].p \in S
  <2>1. 1 \in 1 .. n
    OBVIOUS
  <2> QED BY <1>2, <1>3, <1>4, <2>1 DEF Powered
<1>6. Min(S) \in S /\ \A y \in S : Min(S) <= y
  <2>1. \E x \in S : \A y \in S : x <= y
    BY <1>5, LeastElement
  <2> QED BY <2>1 DEF Min
<1>7. \E x \in S : \A y \in S : x >= y
  <2>1. PICK T : T = {k \in 0 .. n - 1 : \E m \in 1 .. n : \A i \in 1 .. k + 1 : c[i].p <= c[m].p}
    OBVIOUS
  <2>2. 0 \in T
    <3>1. 1 \in 1 .. n /\ \A i \in 1 .. 0 + 1 : i = 1
      OBVIOUS
    <3>2. \A i \in 1 .. 0 + 1 : c[i].p <= c[1].p
      BY <1>2, <3>1
    <3>3. 0 \in 0 .. n - 1
      OBVIOUS
    <3> QED BY <2>1, <3>1, <3>2, <3>3
  <2>3. ASSUME NEW k \in 0 .. (n - 1) - 1, k \in T PROVE k + 1 \in T
    <3>1. PICK m \in 1 .. n : \A i \in 1 .. k + 1 : c[i].p <= c[m].p
      BY <2>1, <2>3
    <3>2. (k + 1) + 1 \in 1 .. n /\ k + 1 \in 0 .. n - 1
      OBVIOUS
    <3>3. \A i \in 1 .. (k + 1) + 1 : i \in 1 .. k + 1 \/ i = (k + 1) + 1
      OBVIOUS
    <3>4. PICK j \in 1 .. n : j = (k + 1) + 1
      BY <3>2
    <3>5. CASE c[j].p <= c[m].p
      <4>1. \A i \in 1 .. (k + 1) + 1 : c[i].p <= c[m].p
        BY <3>1, <3>3, <3>4, <3>5
      <4> QED BY <2>1, <3>2, <4>1
    <3>6. CASE ~(c[j].p <= c[m].p)
      <4>1. \A i \in 1 .. (k + 1) + 1 : c[i].p <= c[j].p
        <5> SUFFICES ASSUME NEW i \in 1 .. (k + 1) + 1 PROVE c[i].p <= c[j].p
          OBVIOUS
        <5>1. CASE i \in 1 .. k + 1
          <6>1. c[i].p <= c[m].p /\ i \in 1 .. n
            BY <3>1, <5>1
          <6> QED BY <1>2, <3>6, <6>1
        <5>2. CASE i = j
          BY <1>2, <5>2
        <5> QED BY <3>3, <3>4, <5>1, <5>2
      <4> QED BY <2>1, <3>2, <4>1
    <3> QED BY <3>5, <3>6
  <2>4. n - 1 \in T
    <3>1. n - 1 \in Nat
      OBVIOUS
    <3>2. 0 .. n - 1 \subseteq T
      BY <2>2, <2>3, <3>1, UpTo
    <3> QED BY <3>2
  <2>5. PICK m \in 1 .. n : \A i \in 1 .. n : c[i].p <= c[m].p
    <3>1. (n - 1) + 1 = n
      OBVIOUS
    <3> QED BY <2>1, <2>4, <3>1
  <2>6. \A y \in S : \E i \in 1 .. n : y = c[i].p
    BY <1>3, <1>4 DEF Powered
  <2>7. ASSUME NEW y \in S PROVE c[m].p >= y
    <3>1. PICK i \in 1 .. n : y = c[i].p
      BY <2>6
    <3> QED BY <1>2, <2>5, <3>1
  <2> QED BY <1>5, <2>7
<1>8. Max(S) \in S /\ \A y \in S : Max(S) >= y
  BY <1>7 DEF Max
<1>9. Min(S) \in Nat /\ Max(S) \in Nat
  BY <1>5, <1>6, <1>8
<1>10. ASSUME NEW i \in 1 .. n PROVE Min(S) <= c[i].p /\ c[i].p <= Max(S)
  <2>1. c[i].p \in S
    BY <1>5
  <2> QED BY <1>2, <1>6, <1>8, <1>9, <2>1
<1> QED BY <1>1, <1>3, <1>5, <1>9, <1>10

\* The integral of samples in the window lies between their least and their
\* greatest power over all of the window.
LEMMA IntegralBetween ==
  ASSUME NEW c \in Seq(Sample), c # <<>>, Sorted(c), NEW w \in [from : Nat, to : Nat],
         \A i \in 1 .. Len(c) : InWindow(c[i], w)
  PROVE  /\ Min(Powered(c)) * (2 * (w.to - w.from)) <= Integral(c, w)
         /\ Integral(c, w) <= Max(Powered(c)) * (2 * (w.to - w.from))
<1>1. PICK n \in Nat \ {0} : n = Len(c)
  <2>1. Len(c) \in Nat /\ Len(c) # 0
    BY LenProperties, EmptySeq
  <2> QED BY <2>1
<1>2. PICK lo \in Nat, hi \in Nat : /\ lo = Min(Powered(c)) /\ hi = Max(Powered(c))
                                    /\ \A i \in 1 .. n : lo <= c[i].p /\ c[i].p <= hi
  BY <1>1, Extremes
<1>3. 1 \in 1 .. n /\ n \in 1 .. n
  OBVIOUS
<1>4. c[1] \in Sample /\ c[n] \in Sample
  BY <1>1, <1>3, ElementOfSeq
<1>5. PICK p \in Nat, q \in Nat : p = c[1].p /\ q = c[n].p
  BY <1>4 DEF Sample
<1>6. PICK x \in Nat, y \in Nat : x = c[1].ts /\ y = c[n].ts
  BY <1>4 DEF Sample
<1>7. PICK from \in Nat, to \in Nat : from = w.from /\ to = w.to
  OBVIOUS
<1>8. from <= x /\ x <= y /\ y <= to
  <2>1. InWindow(c[1], w) /\ InWindow(c[n], w)
    BY <1>1, <1>3
  <2>2. c[1].ts <= c[n].ts
    BY <1>1, <1>3 DEF Sorted
  <2> QED BY <1>6, <1>7, <2>1, <2>2 DEF InWindow
<1>9. PICK d1 \in Nat, d2 \in Nat, d3 \in Nat : d1 = x - from /\ d2 = y - x /\ d3 = to - y
  <2>1. x - from \in Nat /\ y - x \in Nat /\ to - y \in Nat
    BY <1>8
  <2> QED BY <2>1
<1>10. w.to - w.from = (d1 + d2) + d3
  BY <1>7, <1>9
<1>11. PICK a \in Int : a = Trapezoids(c)[n] /\ lo * (2 * d2) <= a /\ a <= hi * (2 * d2)
  BY <1>1, <1>2, <1>6, <1>9, AreaBetween
<1>12. Integral(c, w) = a + (2 * p) * d1 + (2 * q) * d3
  BY <1>1, <1>5, <1>6, <1>7, <1>9, <1>11 DEF Integral
<1>13. lo <= p /\ p <= hi /\ lo <= q /\ q <= hi
  BY <1>2, <1>3, <1>5
<1>14. /\ (2 * lo) * d1 <= (2 * p) * d1 /\ (2 * p) * d1 <= (2 * hi) * d1
       /\ (2 * lo) * d1 \in Nat /\ (2 * p) * d1 \in Nat /\ (2 * hi) * d1 \in Nat
  <2>1. 2 * lo \in Nat /\ 2 * p \in Nat /\ 2 * hi \in Nat /\ 2 * lo <= 2 * p /\ 2 * p <= 2 * hi
    BY <1>13
  <2> QED BY ONLY <2>1, d1 \in Nat, Scaled
<1>15. /\ (2 * lo) * d3 <= (2 * q) * d3 /\ (2 * q) * d3 <= (2 * hi) * d3
       /\ (2 * lo) * d3 \in Nat /\ (2 * q) * d3 \in Nat /\ (2 * hi) * d3 \in Nat
  <2>1. 2 * lo \in Nat /\ 2 * q \in Nat /\ 2 * hi \in Nat /\ 2 * lo <= 2 * q /\ 2 * q <= 2 * hi
    BY <1>13
  <2> QED BY ONLY <2>1, d3 \in Nat, Scaled
<1>16. \A z \in Nat : /\ z * (2 * ((d1 + d2) + d3)) = z * (2 * d2) + (2 * z) * d1 + (2 * z) * d3
                      /\ z * (2 * d2) \in Nat
  OBVIOUS
<1>17. /\ lo * (2 * ((d1 + d2) + d3)) <= a + (2 * p) * d1 + (2 * q) * d3
       /\ a + (2 * p) * d1 + (2 * q) * d3 <= hi * (2 * ((d1 + d2) + d3))
  <2>1. /\ lo * (2 * ((d1 + d2) + d3)) = lo * (2 * d2) + (2 * lo) * d1 + (2 * lo) * d3
        /\ hi * (2 * ((d1 + d2) + d3)) = hi * (2 * d2) + (2 * hi) * d1 + (2 * hi) * d3
        /\ lo * (2 * d2) \in Nat /\ hi * (2 * d2) \in Nat
    BY <1>16
  <2>2. PICK l1 \in Nat, l2 \in Nat, l3 \in Nat, u1 \in Nat, u2 \in Nat, u3 \in Nat,
             m1 \in Nat, m3 \in Nat :
          /\ l1 = (2 * lo) * d1 /\ l2 = lo * (2 * d2) /\ l3 = (2 * lo) * d3
          /\ u1 = (2 * hi) * d1 /\ u2 = hi * (2 * d2) /\ u3 = (2 * hi) * d3
          /\ m1 = (2 * p) * d1 /\ m3 = (2 * q) * d3
    BY <1>14, <1>15, <2>1
  <2>3. /\ l1 <= m1 /\ m1 <= u1 /\ l3 <= m3 /\ m3 <= u3 /\ l2 <= a /\ a <= u2
    BY <1>11, <1>14, <1>15, <2>2
  <2>4. /\ lo * (2 * ((d1 + d2) + d3)) = l2 + l1 + l3
        /\ hi * (2 * ((d1 + d2) + d3)) = u2 + u1 + u3
    BY <2>1, <2>2
  <2>5. l2 + l1 + l3 <= a + m1 + m3 /\ a + m1 + m3 <= u2 + u1 + u3
    BY ONLY <2>3, a \in Int, l1 \in Nat, l2 \in Nat, l3 \in Nat, u1 \in Nat, u2 \in Nat,
            u3 \in Nat, m1 \in Nat, m3 \in Nat
  <2> QED BY <2>2, <2>4, <2>5
<1> QED BY <1>2, <1>10, <1>12, <1>17

-----------------------------------------------------------------------------
(* The invariant *)

LEMMA InitInv == Init => IInv
<1> SUFFICES ASSUME Init PROVE IInv
  OBVIOUS
<1>1. Types
  <2>1. Unread \in Reading(Nat) /\ now \in 0 .. MaxTime /\ used \in Nat
    BY DEF Init, Reading, Unread
  <2>2. samples \in [Gpus -> Seq(Sample)]
    BY DEF Init
  <2> QED BY <2>1, <2>2 DEF Init, Types, Starting, Stopping
<1>2. BlockInv /\ RowInv /\ PollInv
  BY DEF Init, BlockInv, RowInv, PollInv, Starting, Stopping
<1> QED BY <1>1, <1>2 DEF IInv

\* Time passes.
LEMMA TickInv == ASSUME IInv, Tick PROVE IInv'
<1>1. Types'
  BY DEF Tick, IInv, Types, setup, block, reads, thread
<1>2. BlockInv'
  BY DEF Tick, IInv, Types, BlockInv, setup, block, reads, thread, Starting, Stopping
<1>3. RowInv'
  BY DEF Tick, IInv, RowInv, Delta, RaplCounter, setup, block, reads, thread
<1>4. PollInv'
  <2>1. \A g \in Gpus : Len(samples[g]) \in Nat
    BY LenProperties DEF IInv, Types
  <2>2. /\ now \in Nat /\ now' = now + 1 /\ UNCHANGED <<setup, block, reads, thread>>
    BY DEF Tick, IInv, Types
  <2> QED BY <2>1, <2>2 DEF IInv, PollInv, Atmost, setup, block, reads, thread
<1> QED BY <1>1, <1>2, <1>3, <1>4 DEF IInv

\* An exception: only the block changes.
LEMMA RaiseInv ==
  ASSUME IInv, NEW e \in {"rapl", "nvml", "batch", "index"}, Raise(e), row' = row,
         UNCHANGED <<clock, setup, thread, cpuRead, window, batch>>, gpuRead' \in Reading(Nat),
         pc \in Starting \cup {"batch"} \cup Stopping
  PROVE  IInv'
<1>1. Types'
  BY DEF Raise, IInv, Types, clock, setup, thread, Starting, Stopping
<1>2. row = None
  BY DEF IInv, RowInv, Starting, Stopping
<1>3. BlockInv'
  BY DEF Raise, IInv, Types, BlockInv, clock, setup, thread, Starting, Stopping
<1>4. PollInv'
  BY DEF Raise, IInv, PollInv, Atmost, clock, setup, thread, Starting, Stopping
<1> QED BY <1>1, <1>2, <1>3, <1>4 DEF IInv, RowInv

LEMMA FailInv ==
  ASSUME IInv, NEW f \in {"rapl", "nvml", "batch"}, Fail(f), row' = row, UNCHANGED <<clock, setup>>,
         pc \in Starting \cup {"batch"} \cup Stopping
  PROVE  IInv'
<1>1. gpuRead' \in Reading(Nat)
  BY DEF Fail, reads, IInv, Types
<1> QED BY <1>1, RaiseInv DEF Fail, reads

LEMMA InterruptInv == ASSUME IInv, Interrupt PROVE IInv'
<1>1. Types'
  BY DEF Interrupt, IInv, Types, clock, setup, reads, thread, Starting, Stopping
<1>2. BlockInv'
  BY DEF Interrupt, IInv, Types, BlockInv, clock, setup, reads, thread, Starting, Stopping
<1>3. RowInv'
  BY DEF Interrupt, RowInv
<1>4. PollInv'
  BY DEF Interrupt, IInv, PollInv, Atmost, clock, setup, reads, thread, Starting, Stopping
<1> QED BY <1>1, <1>2, <1>3, <1>4 DEF IInv

LEMMA StartCpuInv == ASSUME IInv, StartCpu PROVE IInv'
<1>1. CASE rapl /\ Fail("rapl")
  BY <1>1, FailInv DEF StartCpu, At, Starting
<1>2. CASE /\ cpuRead' = [cpuRead EXCEPT !.from = IF rapl THEN used ELSE None]
           /\ Goto(IF nvml THEN "start_gpu" ELSE "flag")
           /\ UNCHANGED <<gpuRead, window, batch, thread>>
  <2>1. /\ pc = "start_cpu" /\ pc' \in {"start_gpu", "flag"} /\ row' = row
        /\ UNCHANGED <<clock, setup, started, exc, retry, gpuRead, window, batch, thread>>
        /\ cpuRead' \in Reading(Nat) /\ (rapl => cpuRead'.from = used)
    BY <1>2 DEF StartCpu, At, Goto, IInv, Types, Reading
  <2>2. Types'
    BY <2>1 DEF IInv, Types, clock, setup, thread, Starting
  <2>3. BlockInv'
    BY <2>1 DEF IInv, Types, BlockInv, clock, setup, thread, Starting, Stopping
  <2>4. RowInv' /\ PollInv'
    BY <2>1 DEF IInv, RowInv, PollInv, Atmost, clock, setup, thread
  <2> QED BY <2>2, <2>3, <2>4 DEF IInv
<1> QED BY <1>1, <1>2 DEF StartCpu

LEMMA StartGpuInv == ASSUME IInv, StartGpu PROVE IInv'
<1>1. CASE counted # {} /\ Fail("nvml")
  BY <1>1, FailInv DEF StartGpu, At, Starting
<1>2. CASE /\ window' = [window EXCEPT !.from = now]
           /\ gpuRead' = [gpuRead EXCEPT !.from = used]
           /\ running' = (Polled # {}) /\ handle' = running'
           /\ poller' = IF Polled # {} THEN "loop" ELSE "off"
           /\ Goto("flag")
           /\ UNCHANGED <<cpuRead, batch, ts, samples>>
  <2>1. /\ pc = "start_gpu" /\ pc' = "flag" /\ row' = row /\ now \in Nat
        /\ UNCHANGED <<clock, setup, started, exc, retry, cpuRead, batch, ts, samples>>
        /\ window' \in Reading(Nat) /\ window'.from = now /\ gpuRead' \in Reading(Nat)
        /\ poller' \in {"off", "loop"} /\ running' \in BOOLEAN /\ handle' \in BOOLEAN
    BY <1>2 DEF StartGpu, At, Goto, IInv, Types, Reading
  <2>2. Types'
    BY <2>1 DEF IInv, Types, clock, setup, Starting
  <2>3. BlockInv'
    BY <2>1 DEF IInv, Types, BlockInv, clock, setup, Starting, Stopping
  <2>4. RowInv'
    BY <2>1 DEF IInv, RowInv
  <2>5. \A g \in Gpus : samples'[g] = <<>>
    BY <2>1 DEF IInv, PollInv
  <2>6. PollInv'
    BY <2>1, <2>5 DEF PollInv, Atmost, clock
  <2> QED BY <2>2, <2>3, <2>4, <2>6 DEF IInv
<1> QED BY <1>1, <1>2 DEF StartGpu

LEMMA FlagInv == ASSUME IInv, Flag PROVE IInv'
<1>1. /\ pc = "flag" /\ pc' = "batch" /\ started' = TRUE /\ row' = row /\ used \in Nat
      /\ UNCHANGED <<clock, setup, exc, retry, cpuRead, gpuRead, window, thread>>
      /\ batch' \in Reading(Nat) /\ batch'.from = used
  BY DEF Flag, At, IInv, Types, Reading
<1>2. Types'
  BY <1>1 DEF IInv, Types, clock, setup, thread, Starting
<1>3. BlockInv'
  BY <1>1 DEF IInv, Types, BlockInv, clock, setup, thread, Starting, Stopping
<1>4. RowInv' /\ PollInv'
  BY <1>1 DEF IInv, RowInv, PollInv, Atmost, clock, setup, thread
<1> QED BY <1>2, <1>3, <1>4 DEF IInv

LEMMA BatchInv == ASSUME IInv, Batch PROVE IInv'
<1>1. CASE Fail("batch")
  BY <1>1, FailInv DEF Batch, At
<1>2. CASE /\ batch' = [batch EXCEPT !.to = used] /\ Goto("stop_cpu")
           /\ UNCHANGED <<cpuRead, gpuRead, window, thread>>
  <2>1. /\ pc = "batch" /\ pc' = "stop_cpu" /\ row' = row /\ used \in Nat
        /\ UNCHANGED <<clock, setup, started, exc, retry, cpuRead, gpuRead, window, thread>>
        /\ batch' \in Reading(Nat) /\ batch'.to = used /\ batch'.from = batch.from
    BY <1>2 DEF Batch, At, Goto, IInv, Types, Reading
  <2>2. Types'
    BY <2>1 DEF IInv, Types, clock, setup, thread, Stopping
  <2>3. BlockInv'
    BY <2>1 DEF IInv, Types, BlockInv, clock, setup, thread, Starting, Stopping
  <2>4. RowInv' /\ PollInv'
    BY <2>1 DEF IInv, RowInv, PollInv, Atmost, clock, setup, thread
  <2> QED BY <2>2, <2>3, <2>4 DEF IInv
<1> QED BY <1>1, <1>2 DEF Batch

LEMMA StopCpuInv == ASSUME IInv, StopCpu PROVE IInv'
<1>1. CASE rapl /\ Fail("rapl")
  BY <1>1, FailInv DEF StopCpu, At, Stopping
<1>2. CASE /\ cpuRead' = [cpuRead EXCEPT !.to = IF rapl THEN used ELSE None]
           /\ Goto(IF nvml THEN "stop_gpu" ELSE "total")
           /\ UNCHANGED <<gpuRead, window, batch, thread>>
  <2>1. /\ pc = "stop_cpu" /\ row' = row /\ used \in Nat
        /\ pc' \in {"stop_gpu", "total"} /\ (nvml => pc' = "stop_gpu")
        /\ UNCHANGED <<clock, setup, started, exc, retry, gpuRead, window, batch, thread>>
        /\ cpuRead' \in Reading(Nat) /\ (rapl => cpuRead'.to = used) /\ cpuRead'.from = cpuRead.from
    BY <1>2 DEF StopCpu, At, Goto, IInv, Types, Reading
  <2>2. Types'
    BY <2>1 DEF IInv, Types, clock, setup, thread, Stopping
  <2>3. BlockInv'
    BY <2>1 DEF IInv, Types, BlockInv, clock, setup, thread, Starting, Stopping
  <2>4. RowInv' /\ PollInv'
    BY <2>1 DEF IInv, RowInv, PollInv, Atmost, clock, setup, thread
  <2> QED BY <2>2, <2>3, <2>4 DEF IInv
<1> QED BY <1>1, <1>2 DEF StopCpu

LEMMA StopGpuInv == ASSUME IInv, StopGpu PROVE IInv'
<1>1. /\ pc = "stop_gpu" /\ pc' = "lower" /\ row' = row /\ now \in Nat
      /\ UNCHANGED <<clock, setup, started, exc, retry, cpuRead, gpuRead, batch, thread>>
      /\ window' \in Reading(Nat) /\ window'.to = now /\ window'.from = window.from
  BY DEF StopGpu, At, Goto, IInv, Types, Reading
<1>2. Types'
  BY <1>1 DEF IInv, Types, clock, setup, thread, Stopping
<1>3. BlockInv'
  BY <1>1 DEF IInv, Types, BlockInv, clock, setup, thread, Starting, Stopping
<1>4. RowInv' /\ PollInv'
  BY <1>1 DEF IInv, RowInv, PollInv, Atmost, clock, setup, thread
<1> QED BY <1>2, <1>3, <1>4 DEF IInv

\* The flag is lowered, the thread joined or given up.
LEMMA LowerInv == ASSUME IInv, Lower \/ Join PROVE IInv'
<1>1. /\ pc \in {"lower", "join"} /\ pc' \in {"join", "total"} /\ row' = row
      /\ UNCHANGED <<clock, setup, started, exc, retry, reads, poller, ts, samples>>
      /\ running' \in BOOLEAN /\ (running' => running) /\ handle' \in BOOLEAN
  <2>1. running \in BOOLEAN /\ handle \in BOOLEAN
    BY DEF IInv, Types
  <2>2. CASE Lower
    BY <2>1, <2>2, Zenon DEF Lower, At, Goto
  <2>3. CASE Join
    BY <2>1, <2>3, Zenon DEF Join, At, Goto
  <2> QED BY <2>2, <2>3
<1>2. Types'
  BY <1>1 DEF IInv, Types, clock, setup, reads, Stopping
<1>3. BlockInv'
  BY <1>1 DEF IInv, Types, BlockInv, clock, setup, reads, Starting, Stopping
<1>4. RowInv' /\ PollInv'
  BY <1>1 DEF IInv, RowInv, PollInv, Atmost, clock, setup, reads
<1> QED BY <1>2, <1>3, <1>4 DEF IInv

\* The row, made from the two reads, or the missing sample.
LEMMA TotalInv == ASSUME IInv, Total PROVE IInv'
<1>1. pc = "total" /\ UNCHANGED <<clock, setup>>
  BY DEF Total, At
<1>2. CASE Fail("nvml") /\ UNCHANGED row
  BY <1>1, <1>2, FailInv DEF Stopping
<1>3. CASE /\ gpuRead' = [gpuRead EXCEPT !.to = used]
           /\ UNCHANGED <<cpuRead, window, batch, thread>>
           /\ Raise("index") /\ UNCHANGED row
  <2>1. gpuRead' \in Reading(Nat)
    BY <1>3 DEF IInv, Types, Reading
  <2> QED BY <1>1, <1>3, <2>1, RaiseInv DEF Stopping
<1>4. CASE /\ gpuRead' = [gpuRead EXCEPT !.to = used]
           /\ UNCHANGED <<cpuRead, window, batch, thread>>
           /\ Goto("close")
           /\ row' = IF retry THEN None ELSE
                [cpu |-> IF rapl THEN Delta(RaplCounter(cpuRead.from), RaplCounter(cpuRead.to)) ELSE None,
                 gpu |-> IF nvml THEN [g \in Gpus |-> GpuEnergy(g)'] ELSE None]
  <2>1. gpuRead' \in Reading(Nat)
    BY <1>4 DEF IInv, Types, Reading
  <2>2. /\ UNCHANGED <<clock, setup, started, exc, retry, cpuRead, window, batch, thread>>
        /\ pc' = "close"
    BY <1>1, <1>4 DEF Goto
  <2>3. Types'
    BY <2>1, <2>2 DEF IInv, Types, clock, setup, thread
  <2>4. BlockInv'
    BY <1>1, <2>2 DEF IInv, Types, BlockInv, clock, setup, thread, Starting, Stopping
  <2>5. RowInv'
    <3>1. CASE retry
      BY <1>4, <3>1 DEF RowInv
    <3>2. CASE ~ retry
      <4>1. started /\ (rapl => /\ cpuRead.to \in Nat /\ batch.to \in Nat
                                /\ batch.from <= batch.to /\ batch.to <= cpuRead.to)
        BY <1>1, <3>2 DEF IInv, BlockInv, Stopping
      <4>2. row'.cpu = IF rapl THEN Delta(RaplCounter(cpuRead.from), RaplCounter(cpuRead.to)) ELSE None
        BY <1>4, <3>2
      <4> HIDE DEF Delta, RaplCounter
      <4>3. (Delta(RaplCounter(cpuRead.from), RaplCounter(cpuRead.to)))'
              = Delta(RaplCounter(cpuRead.from), RaplCounter(cpuRead.to))
        BY <2>2 DEF Delta, RaplCounter
      <4> QED BY <2>2, <4>1, <4>2, <4>3 DEF RowInv, setup
    <3> QED BY <3>1, <3>2
  <2>6. PollInv'
    BY <2>2 DEF IInv, PollInv, Atmost, clock, setup, thread
  <2> QED BY <2>3, <2>4, <2>5, <2>6 DEF IInv
<1> QED BY <1>2, <1>3, <1>4 DEF Total

LEMMA CloseInv == ASSUME IInv, Close PROVE IInv'
<1>1. /\ pc = "close" /\ pc' = "closed" /\ row' = row
      /\ UNCHANGED <<clock, setup, started, exc, retry, reads, thread>>
  BY DEF Close, At, Goto
<1>2. Types'
  BY <1>1 DEF IInv, Types, clock, setup, reads, thread
<1>3. BlockInv'
  BY <1>1 DEF IInv, BlockInv, clock, setup, reads, Starting, Stopping
<1>4. RowInv'
  BY <1>1 DEF IInv, RowInv, Delta, RaplCounter, setup, reads
<1>5. PollInv'
  BY <1>1 DEF IInv, PollInv, Atmost, clock, setup, reads, thread
<1> QED BY <1>2, <1>3, <1>4, <1>5 DEF IInv

\* The polling thread touches nothing of the block.
LEMMA PollerFrame ==
  ASSUME IInv, UNCHANGED <<clock, setup, block, reads, running, handle, row>>,
         poller' \in {"loop", "read", "sleep", "ended"}, ts' \in Nat \cup {None},
         samples' \in [Gpus -> Seq(Sample)], PollInv'
  PROVE  IInv'
<1>1. Types'
  BY DEF IInv, Types, clock, setup, block, reads
<1>2. BlockInv'
  BY DEF IInv, BlockInv, clock, setup, block, reads
<1>3. RowInv'
  BY DEF IInv, RowInv, Delta, RaplCounter, setup, block, reads
<1> QED BY <1>1, <1>2, <1>3 DEF IInv

LEMMA LoopInv == ASSUME IInv, Loop PROVE IInv'
<1>1. /\ poller = "loop" /\ poller' \in {"read", "ended"} /\ now \in Nat /\ samples' = samples
      /\ poller' = "read" => running /\ ts' = now
      /\ ts' \in Nat \cup {None}
      /\ UNCHANGED <<clock, setup, block, reads, running, handle, row>>
  BY DEF Loop, IInv, Types
<1>2. PollInv'
  BY <1>1 DEF IInv, PollInv, Atmost, clock, setup, block, reads
<1> QED BY <1>1, <1>2, PollerFrame DEF IInv, Types

LEMMA WakeInv == ASSUME IInv, Wake PROVE IInv'
<1>1. /\ poller = "sleep" /\ poller' = "loop" /\ now \in Nat /\ samples' = samples /\ ts' = ts
      /\ now > ts \/ ~ running
      /\ UNCHANGED <<clock, setup, block, reads, running, handle, row>>
  BY DEF Wake, IInv, Types
<1>2. \A g \in Gpus : Len(samples[g]) \in Nat
  BY LenProperties DEF IInv, Types
<1>3. PollInv'
  BY <1>1, <1>2 DEF IInv, PollInv, Atmost, clock, setup, block, reads
<1> QED BY <1>1, <1>3, PollerFrame DEF IInv, Types

LEMMA ReadInv == ASSUME IInv, Read PROVE IInv'
<1>1. /\ poller = "read" /\ poller' = "sleep" /\ ts' = ts /\ power \in Powers /\ now \in Nat
      /\ ts \in Nat /\ ts <= now /\ window.from <= ts /\ window.from \in Nat
      /\ UNCHANGED <<clock, setup, block, reads, running, handle, row>>
      /\ samples \in [Gpus -> Seq(Sample)] /\ Atmost(ts)
  BY DEF Read, IInv, Types, PollInv
<1>2. PICK ok \in SUBSET Polled :
        samples' = [g \in Gpus |-> IF g \in ok THEN Append(samples[g], [ts |-> ts, p |-> power])
                                   ELSE samples[g]]
  BY DEF Read
<1> DEFINE new == [ts |-> ts, p |-> power]
<1>3. new \in Sample
  BY <1>1 DEF Sample
<1>4. ASSUME NEW g \in Gpus
      PROVE  /\ samples'[g] \in Seq(Sample)
             /\ Len(samples'[g]) <= ts + 1
             /\ \A i \in DOMAIN samples'[g] : window.from <= samples'[g][i].ts
  <2>1. /\ samples[g] \in Seq(Sample) /\ Len(samples[g]) <= ts /\ Len(samples[g]) \in Nat
        /\ \A i \in 1 .. Len(samples[g]) : window.from <= samples[g][i].ts
        /\ DOMAIN samples[g] = 1 .. Len(samples[g])
    BY <1>1, LenProperties DEF Atmost, IInv, PollInv
  <2>2. CASE g \in ok
    <3>1. samples'[g] = Append(samples[g], new)
      BY <1>2, <2>2
    <3> DEFINE s == Append(samples[g], new)
    <3>2. /\ s \in Seq(Sample) /\ Len(s) = Len(samples[g]) + 1
          /\ \A i \in 1 .. Len(samples[g]) : s[i] = samples[g][i]
          /\ s[Len(samples[g]) + 1] = new
      BY <1>3, <2>1, AppendProperties
    <3>3. DOMAIN s = 1 .. Len(samples[g]) + 1 /\ new.ts = ts
      BY <3>2, LenProperties
    <3> HIDE DEF s, new
    <3>4. \A i \in DOMAIN s : window.from <= s[i].ts
      <4> SUFFICES ASSUME NEW i \in 1 .. Len(samples[g]) + 1 PROVE window.from <= s[i].ts
        BY <3>3
      <4>1. CASE i = Len(samples[g]) + 1
        BY <1>1, <3>2, <3>3, <4>1
      <4>2. CASE i # Len(samples[g]) + 1
        <5>1. i \in 1 .. Len(samples[g])
          BY <2>1, <4>2
        <5> QED BY <2>1, <3>2, <5>1
      <4> QED BY <4>1, <4>2
    <3>5. samples'[g] = s
      BY <3>1 DEF s
    <3> QED BY <1>1, <2>1, <3>2, <3>4, <3>5
  <2>3. CASE g \notin ok
    <3>1. samples'[g] = samples[g]
      BY <1>2, <2>3
    <3> QED BY <1>1, <2>1, <3>1
  <2> QED BY <2>2, <2>3
<1>5. samples' \in [Gpus -> Seq(Sample)]
  BY <1>2, <1>4
<1>6. PollInv'
  BY <1>1, <1>4 DEF IInv, PollInv, Atmost, clock, setup, block, reads
<1> QED BY <1>1, <1>5, <1>6, PollerFrame

LEMMA StutterInv == ASSUME IInv, UNCHANGED vars PROVE IInv'
<1>1. Types'
  BY DEF vars, IInv, Types, clock, setup, block, reads, thread
<1>2. BlockInv'
  BY DEF vars, IInv, BlockInv, clock, setup, block, reads, thread
<1>3. RowInv'
  BY DEF vars, IInv, RowInv, Delta, RaplCounter, clock, setup, block, reads, thread
<1>4. PollInv'
  BY DEF vars, IInv, PollInv, Atmost, clock, setup, block, reads, thread
<1> QED BY <1>1, <1>2, <1>3, <1>4 DEF IInv

LEMMA StepInv == ASSUME IInv, [Next]_vars PROVE IInv'
<1>1. CASE Tick
  BY <1>1, TickInv
<1>2. CASE RunnerStep
  BY <1>2, StartCpuInv, StartGpuInv, FlagInv, BatchInv, StopCpuInv, StopGpuInv, LowerInv,
     TotalInv, CloseInv DEF RunnerStep
<1>3. CASE PollerStep
  BY <1>3, LoopInv, ReadInv, WakeInv DEF PollerStep
<1>4. CASE Interrupt
  BY <1>4, InterruptInv
<1>5. CASE Finished \/ UNCHANGED vars
  BY <1>5, StutterInv DEF Finished
<1> QED BY <1>1, <1>2, <1>3, <1>4, <1>5 DEF Next

-----------------------------------------------------------------------------
(* What else holds of the samples and of the counters *)

LEMMA OrderFrame ==
  ASSUME OrderInv, UNCHANGED <<now, ts, samples>>, poller' = "read" => poller = "read"
  PROVE  OrderInv'
BY DEF OrderInv, Sorted

LEMMA OrderTick == ASSUME IInv, OrderInv, Tick PROVE OrderInv'
<1>1. now \in Nat /\ now' = now + 1 /\ UNCHANGED <<poller, ts, samples>>
  BY DEF Tick, IInv, Types, thread
<1>2. ASSUME NEW g \in Gpus, NEW i \in 1 .. Len(samples[g]) PROVE samples[g][i].ts <= now + 1
  <2>1. samples[g][i] \in Sample
    BY ElementOfSeq DEF IInv, Types
  <2>2. samples[g][i].ts \in Nat /\ samples[g][i].ts <= now
    BY <2>1 DEF OrderInv, Sample
  <2> QED BY <1>1, <2>2
<1> QED BY <1>1, <1>2 DEF OrderInv, Sorted

LEMMA OrderLoop == ASSUME IInv, OrderInv, Loop PROVE OrderInv'
<1>1. samples' = samples /\ now' = now /\ (poller' = "read" => ts' = now)
  BY DEF Loop, clock
<1> QED BY <1>1 DEF OrderInv, Sorted

\* A sample is stamped later than all before it.
LEMMA OrderRead == ASSUME IInv, OrderInv, Read PROVE OrderInv'
<1>1. /\ poller = "read" /\ poller' = "sleep" /\ power \in Powers /\ now \in Nat /\ now' = now
      /\ ts \in Nat /\ ts <= now /\ samples \in [Gpus -> Seq(Sample)]
  BY DEF Read, IInv, Types, PollInv, clock
<1>2. PICK ok \in SUBSET Polled :
        samples' = [g \in Gpus |-> IF g \in ok THEN Append(samples[g], [ts |-> ts, p |-> power])
                                   ELSE samples[g]]
  BY DEF Read
<1>3. ASSUME NEW g \in Gpus
      PROVE  (\A i \in 1 .. Len(samples'[g]) : samples'[g][i].ts <= now) /\ Sorted(samples'[g])
  <2>1. PICK s \in Seq(Sample), n \in Nat : s = samples[g] /\ n = Len(s)
    BY <1>1, LenProperties
  <2>2. \A i \in 1 .. n : s[i].ts \in Nat /\ s[i].ts <= ts /\ s[i].ts <= now
    <3>1. \A i \in 1 .. n : s[i] \in Sample
      BY <2>1, ElementOfSeq
    <3> QED BY <1>1, <2>1, <3>1 DEF OrderInv, Sample
  <2>3. Sorted(s)
    BY <2>1 DEF OrderInv
  <2>4. CASE g \notin ok
    <3>1. samples'[g] = s
      BY <1>2, <2>1, <2>4
    <3> QED BY <2>1, <2>2, <2>3, <3>1
  <2>5. CASE g \in ok
    <3>1. PICK x \in Sample : x = [ts |-> ts, p |-> power] /\ x.ts = ts
      <4>1. [ts |-> ts, p |-> power] \in Sample
        BY <1>1 DEF Sample
      <4> QED BY <4>1
    <3>2. PICK r : r = Append(s, x)
      OBVIOUS
    <3>3. samples'[g] = r
      BY <1>2, <2>1, <2>5, <3>1, <3>2
    <3>4. Len(r) = n + 1 /\ r[n + 1] = x /\ \A i \in 1 .. n : r[i] = s[i]
      BY <2>1, <3>2, AppendProperties
    <3>5. \A i \in 1 .. n + 1 : i \in 1 .. n \/ i = n + 1
      OBVIOUS
    <3>6. \A i \in 1 .. n + 1 : r[i].ts <= ts /\ r[i].ts <= now
      BY <1>1, <2>2, <3>1, <3>4, <3>5
    <3>7. Sorted(r)
      <4> SUFFICES ASSUME NEW i \in 1 .. n + 1, NEW j \in 1 .. n + 1, i <= j PROVE r[i].ts <= r[j].ts
        BY <3>4 DEF Sorted
      <4>1. CASE i \in 1 .. n /\ j \in 1 .. n
        BY <2>1, <2>3, <3>4, <4>1 DEF Sorted
      <4>2. CASE j = n + 1
        BY <3>1, <3>4, <3>6, <4>2
      <4> QED BY <3>5, <4>1, <4>2
    <3> QED BY <3>3, <3>4, <3>6, <3>7
  <2> QED BY <2>4, <2>5
<1> QED BY <1>1, <1>3 DEF OrderInv

LEMMA OrderStep == ASSUME IInv, OrderInv, [Next]_vars PROVE OrderInv'
<1>1. CASE Tick
  BY <1>1, OrderTick
<1>2. CASE RunnerStep
  <2>1. UNCHANGED <<now, ts, samples>> /\ (poller' = "read" => poller = "read")
    <3>1. CASE StartGpu
      BY <3>1 DEF StartGpu, At, Fail, clock, thread
    <3>2. CASE ~ StartGpu
      BY <1>2, <3>2 DEF RunnerStep, StartCpu, Flag, Batch, StopCpu, StopGpu, Lower, Join, Total,
         Close, At, Fail, clock, thread
    <3> QED BY <3>1, <3>2
  <2> QED BY <2>1, OrderFrame
<1>3. CASE Loop
  BY <1>3, OrderLoop
<1>4. CASE Read
  BY <1>4, OrderRead
<1>5. CASE Wake \/ Interrupt \/ Finished \/ UNCHANGED vars
  <2>1. UNCHANGED <<now, ts, samples>> /\ (poller' = "read" => poller = "read")
    BY <1>5 DEF Wake, Interrupt, Finished, vars, clock, thread
  <2> QED BY <2>1, OrderFrame
<1> QED BY <1>1, <1>2, <1>3, <1>4, <1>5 DEF Next, PollerStep

LEMMA CounterFrame ==
  ASSUME CounterInv, UNCHANGED <<nvml, used, batch>>, gpuRead'.from = gpuRead.from,
         started' => started, pc' = "flag" /\ nvml => pc = "flag"
  PROVE  CounterInv'
BY DEF CounterInv

LEMMA CounterStep == ASSUME IInv, CounterInv, [Next]_vars PROVE CounterInv'
<1>0. used \in Nat /\ gpuRead \in Reading(Nat) /\ batch \in Reading(Nat)
  BY DEF IInv, Types
<1>1. CASE Tick
  <2>1. power \in Nat /\ used' = used + power /\ UNCHANGED <<nvml, pc, started, gpuRead, batch>>
    BY <1>1 DEF Tick, IInv, Types, setup, block, reads
  <2> QED BY <1>0, <2>1 DEF CounterInv
<1>2. CASE StartGpu
  <2>1. CASE Fail("nvml")
    <3>1. UNCHANGED <<nvml, used, batch, gpuRead, started>> /\ pc' # "flag"
      BY <1>2, <2>1 DEF StartGpu, At, Fail, Raise, clock, setup, reads
    <3> QED BY <3>1, CounterFrame
  <2>2. CASE gpuRead' = [gpuRead EXCEPT !.from = used]
    <3>1. gpuRead'.from = used
      BY <1>0, <2>2 DEF Reading
    <3>2. used' = used /\ nvml' = nvml
      BY <1>2 DEF StartGpu, At, clock, setup
    <3>3. ~ started'
      <4>1. pc = "start_gpu" /\ (started' = started)
        BY <1>2 DEF StartGpu, At, Fail, Raise, Goto
      <4> QED BY <4>1 DEF IInv, BlockInv, Starting
    <3> QED BY <1>0, <3>1, <3>2, <3>3 DEF CounterInv
  <2> QED BY <1>2, <2>1, <2>2 DEF StartGpu
<1>3. CASE Flag
  <2>1. /\ pc = "flag" /\ UNCHANGED <<nvml, used, gpuRead>> /\ pc' = "batch"
        /\ batch' = [batch EXCEPT !.from = used]
    BY <1>3 DEF Flag, At, clock, setup
  <2>2. batch'.from = used
    BY <1>0, <2>1 DEF Reading
  <2> QED BY <2>1, <2>2 DEF CounterInv
<1>4. CASE Batch
  <2>1. UNCHANGED <<nvml, used, gpuRead, started>> /\ batch'.from = batch.from /\ pc' # "flag"
    BY <1>0, <1>4 DEF Batch, At, Fail, Raise, Goto, clock, setup, reads, Reading
  <2> QED BY <2>1 DEF CounterInv
<1>5. CASE Total
  <2>1. UNCHANGED <<nvml, used, batch, started>> /\ gpuRead'.from = gpuRead.from /\ pc' # "flag"
    BY <1>0, <1>5 DEF Total, At, Fail, Raise, Goto, clock, setup, reads, Reading
  <2> QED BY <2>1, CounterFrame
<1>6. CASE StartCpu
  <2>1. UNCHANGED <<nvml, used, batch, gpuRead, started>> /\ (pc' = "flag" => ~ nvml)
    BY <1>6 DEF StartCpu, At, Fail, Raise, Goto, clock, setup, reads
  <2> QED BY <2>1, CounterFrame
<1>7. CASE StopCpu \/ StopGpu \/ Lower \/ Join \/ Close
  <2>1. UNCHANGED <<nvml, used, batch, gpuRead, started>> /\ pc' # "flag"
    BY <1>7 DEF StopCpu, StopGpu, Lower, Join, Close, At, Fail, Raise, Goto, clock, setup, reads
  <2> QED BY <2>1, CounterFrame
<1>8. CASE PollerStep \/ Finished \/ UNCHANGED vars
  <2>1. UNCHANGED <<nvml, used, batch, gpuRead, started, pc>>
    BY <1>8 DEF PollerStep, Loop, Read, Wake, Finished, vars, clock, setup, block, reads
  <2> QED BY <2>1, CounterFrame
<1>9. CASE Interrupt
  <2>1. UNCHANGED <<nvml, used, batch, gpuRead, started>> /\ pc' # "flag"
    BY <1>9 DEF Interrupt, clock, setup, reads
  <2> QED BY <2>1, CounterFrame
<1> QED BY <1>1, <1>2, <1>3, <1>4, <1>5, <1>6, <1>7, <1>8, <1>9 DEF Next, RunnerStep

-----------------------------------------------------------------------------
(* Theorems *)

\* Every reachable state of the meter and the block around it satisfies the
\* inductive invariant.
THEOREM Invariance == Spec => []IInv
<1>1. IInv /\ [Next]_vars => IInv'
  BY StepInv
<1> QED BY InitInv, <1>1, PTL DEF Spec

\* The state is well typed, and the polling thread takes no more than one
\* sample per tick.
THEOREM TypeCorrect == Spec => []TypeOK
<1>1. ASSUME IInv PROVE TypeOK
  <2>1. \A g \in Gpus : Len(samples[g]) <= now + 1
    <3> SUFFICES ASSUME NEW g \in Gpus PROVE Len(samples[g]) <= now + 1
      OBVIOUS
    <3>1. Len(samples[g]) \in Nat /\ now \in Nat
      BY <1>1, LenProperties DEF IInv, Types
    <3>2. CASE poller = "off"
      BY <1>1, <3>1, <3>2 DEF IInv, PollInv
    <3>3. CASE poller \in {"loop", "ended"}
      BY <1>1, <3>3 DEF IInv, PollInv, Atmost
    <3>4. CASE poller \in {"read", "sleep"}
      <4>1. ts \in Nat /\ ts <= now /\ Len(samples[g]) <= ts + 1
        BY <1>1, <3>1, <3>4 DEF IInv, PollInv, Atmost
      <4> QED BY <3>1, <4>1
    <3> QED BY <1>1, <3>2, <3>3, <3>4 DEF IInv, Types
  <2>2. row # None => row.cpu \in Energies
    <3> SUFFICES ASSUME row # None, rapl PROVE row.cpu \in Nat
      BY <1>1 DEF IInv, RowInv, Energies
    <3>1. cpuRead.from \in Nat /\ cpuRead.to \in Nat
          /\ row.cpu = Delta(RaplCounter(cpuRead.from), RaplCounter(cpuRead.to))
      BY <1>1 DEF IInv, RowInv, BlockInv
    <3>2. RaplCounter(cpuRead.from) \in 0 .. MaxRange /\ RaplCounter(cpuRead.to) \in 0 .. MaxRange
      BY <3>1, Wrapped
    <3> QED BY <3>1, <3>2 DEF Delta
  <2> QED BY <1>1, <2>1, <2>2 DEF TypeOK, IInv, Types, Starting, Stopping
<1> QED BY Invariance, <1>1, PTL

\* The CPU energy of a row is right to one unit of the counter, whatever its
\* range and wherever it stood, as long as a batch consumes less than a range.
THEOREM CpuTrue == Spec => []CpuEnergyTrue
<1>1. ASSUME IInv, TypeOK PROVE CpuEnergyTrue
  <2> SUFFICES ASSUME row # None, rapl, Consumed(cpuRead) <= MaxRange
               PROVE  /\ row.cpu \in {Consumed(cpuRead) - 1, Consumed(cpuRead)}
                      /\ row.cpu = Consumed(cpuRead) \/ RaplCounter(cpuRead.to) < RaplCounter(cpuRead.from)
                      /\ cpuRead.from <= batch.from /\ batch.to <= cpuRead.to
    BY <1>1 DEF CpuEnergyTrue
  <2>1. /\ cpuRead.from \in Nat /\ cpuRead.to \in Nat /\ batch.from \in Nat /\ batch.to \in Nat
        /\ cpuRead.from <= batch.from /\ batch.from <= batch.to /\ batch.to <= cpuRead.to
        /\ row.cpu = Delta(RaplCounter(cpuRead.from), RaplCounter(cpuRead.to))
    BY <1>1 DEF IInv, RowInv, BlockInv
  <2>2. cpuRead.from <= cpuRead.to /\ cpuRead.to - cpuRead.from <= MaxRange
    BY <2>1 DEF Consumed
  <2> QED BY <2>1, <2>2, DeltaTrue DEF Consumed
<1> QED BY Invariance, TypeCorrect, <1>1, PTL

\* stop fails of its own accord only if all samples of a GPU were taken after
\* the end of the window.
THEOREM OnlyStraySamples == Spec => StopRaises
<1> DEFINE Late == \E g \in Polled :
                     samples[g] # <<>> /\ \A i \in DOMAIN samples[g] : samples[g][i].ts > window.to
<1>1. ASSUME IInv, Next, exc' = "index" PROVE Late \/ exc' = exc
  <2>1. ASSUME NEW e \in {"rapl", "nvml", "batch", "interrupt"}, Raise(e) PROVE exc' = exc
    BY <1>1, <2>1 DEF Raise
  <2>2. CASE Tick \/ PollerStep \/ Finished
    BY <2>2 DEF Tick, PollerStep, Loop, Read, Wake, Finished, block, vars
  <2>3. CASE Interrupt
    BY <1>1, <2>3 DEF Interrupt
  <2>4. CASE StartCpu \/ StartGpu \/ Batch \/ StopCpu
    BY <2>1, <2>4 DEF StartCpu, StartGpu, Batch, StopCpu, Fail, Goto
  <2>5. CASE Flag \/ StopGpu \/ Lower \/ Join \/ Close
    BY <2>5 DEF Flag, StopGpu, Lower, Join, Close, Goto
  <2>6. CASE Total
    <3>1. CASE Fail("nvml") \/ Goto("close")
      BY <2>1, <3>1 DEF Fail, Goto
    <3>2. CASE nvml /\ Stray
      <4>1. PICK g \in Polled : /\ samples[g] # <<>>
                                /\ \A i \in DOMAIN samples[g] : ~ InWindow(samples[g][i], window)
        BY <3>2 DEF Stray
      <4>2. g \in Gpus
        BY DEF Polled
      <4>3. poller # "off" /\ window.from \in Nat /\ window.to \in Nat
        BY <1>1, <2>6, <3>2, <4>1, <4>2 DEF IInv, PollInv, Total, At
      <4>4. ASSUME NEW i \in DOMAIN samples[g] PROVE samples[g][i].ts > window.to
        <5>1. samples[g][i] \in Sample
          BY <1>1, <4>2 DEF IInv, Types
        <5>2. samples[g][i].ts \in Nat
          BY <5>1 DEF Sample
        <5>3. window.from <= samples[g][i].ts
          BY <1>1, <4>2 DEF IInv, PollInv
        <5> QED BY <4>1, <4>3, <5>2, <5>3 DEF InWindow
      <4> QED BY <4>1, <4>4
    <3> QED BY <2>6, <3>1, <3>2 DEF Total
  <2> QED BY <1>1, <2>2, <2>3, <2>4, <2>5, <2>6 DEF Next, RunnerStep
<1>2. IInv /\ [Next]_vars => [exc' = "index" => Late]_exc
  BY <1>1 DEF vars, block
<1> QED BY Invariance, <1>2, PTL DEF Spec, StopRaises

\* The samples of every GPU are in the order of time, and the counters are read
\* before the batch is sent.
THEOREM ReadsInOrder == Spec => [](OrderInv /\ CounterInv)
<1>1. Init => OrderInv /\ CounterInv
  <2> SUFFICES ASSUME Init PROVE OrderInv /\ CounterInv
    OBVIOUS
  <2>1. \A g \in Gpus : samples[g] = <<>>
    BY DEF Init
  <2>2. OrderInv
    BY <2>1 DEF OrderInv, Sorted
  <2> QED BY <2>2 DEF Init, CounterInv
<1>2. IInv /\ (OrderInv /\ CounterInv) /\ [Next]_vars => (OrderInv /\ CounterInv)'
  BY OrderStep, CounterStep
<1> QED BY Invariance, <1>1, <1>2, PTL DEF Spec

\* The energy of a GPU in a row lies between what its least and its greatest
\* sample would give over the whole window, whatever they are, however many and
\* wherever in the window; with a counter at least the batch is counted.
THEOREM GpuTrue == Spec => GpuEnergySound
<1> DEFINE Fair(g) ==
      IF g \in counted THEN row'.gpu[g] >= Consumed(batch)
      ELSE samples[g] # <<>> =>
             LET seen == {Inside(g)[i].p : i \in DOMAIN Inside(g)}
                 span == 2 * Consumed(window)
             IN seen # {} /\ Min(seen) * span <= row'.gpu[g] /\ row'.gpu[g] <= Max(seen) * span
<1>1. ASSUME IInv, OrderInv, CounterInv, Next, row = None, row' # None, nvml, NEW g \in Gpus
      PROVE  Fair(g)
  <2>0. row' # row
    BY <1>1
  <2>1. Total
    <3>1. ~ (StartCpu \/ StartGpu \/ Flag \/ Batch \/ StopCpu \/ StopGpu \/ Lower \/ Join \/ Close)
      BY <2>0 DEF StartCpu, StartGpu, Flag, Batch, StopCpu, StopGpu, Lower, Join, Close
    <3>2. ~ (Tick \/ PollerStep \/ Interrupt \/ Finished)
      BY <1>1, <2>0 DEF Tick, PollerStep, Loop, Read, Wake, Interrupt, Finished, vars
    <3> QED BY <1>1, <3>1, <3>2 DEF Next, RunnerStep
  <2>2. /\ pc = "total" /\ ~ Stray /\ ~ retry
        /\ gpuRead' = [gpuRead EXCEPT !.to = used]
        /\ UNCHANGED <<used, counted, samples, window>>
        /\ row'.gpu = [h \in Gpus |-> GpuEnergy(h)']
    BY <1>1, <2>0, <2>1 DEF Total, At, clock, setup, thread
  <2>3. row'.gpu[g] = GpuEnergy(g)'
    BY <2>2
  <2>4. CASE g \in counted
    <3>1. gpuRead \in Reading(Nat) /\ used \in Nat /\ started
      BY <1>1, <2>2 DEF IInv, Types, BlockInv, Stopping
    <3>2. gpuRead'.to = used /\ gpuRead'.from = gpuRead.from
      BY <2>2, <3>1 DEF Reading
    <3>3. GpuEnergy(g)' = used - gpuRead.from
      BY <2>2, <2>4, <3>2 DEF GpuEnergy
    <3>4. gpuRead.from \in Nat /\ gpuRead.from <= batch.from
      BY <1>1, <3>1 DEF CounterInv
    <3>5. /\ batch.from \in Nat /\ batch.to \in Nat /\ batch.to <= used
      BY <1>1, <2>2, <3>1 DEF IInv, BlockInv, Stopping
    <3> QED BY <2>3, <2>4, <3>1, <3>3, <3>4, <3>5 DEF Consumed
  <2>5. CASE g \notin counted /\ samples[g] # <<>>
    <3>1. PICK s \in Seq(Sample) : s = samples[g] /\ s # <<>> /\ Sorted(s)
      BY <1>1, <2>5 DEF IInv, Types, OrderInv
    <3>2. PICK w \in [from : Nat, to : Nat] : w = window
      <4>1. window.from \in Nat /\ window.to \in Nat /\ window \in Reading(Nat)
        BY <1>1, <2>2, <2>5 DEF IInv, Types, PollInv
      <4> QED BY <4>1 DEF Reading
    <3>3. PICK c : c = Clipped(s, w)[Len(s)] /\ c = Inside(g)
      BY <3>1, <3>2 DEF Inside
    <3>4. /\ c \in Seq(Sample) /\ Sorted(c) /\ \A i \in 1 .. Len(c) : InWindow(c[i], w)
          /\ c = <<>> => \A i \in 1 .. Len(s) : ~ InWindow(s[i], w)
      BY <3>1, <3>3, ClippedSound
    <3>5. c # <<>>
      <4>1. g \in Polled
        BY <2>5 DEF Polled
      <4>2. DOMAIN s = 1 .. Len(s)
        BY <3>1, LenProperties
      <4> QED BY <2>2, <2>5, <3>1, <3>2, <3>4, <4>1, <4>2 DEF Stray
    <3>6. GpuEnergy(g)' = Integral(c, w)
      <4>1. GpuEnergy(g)' = Integral(Inside(g)', window')
        BY <2>2, <2>5 DEF GpuEnergy
      <4>2. Inside(g)' = Inside(g)
        BY <2>2 DEF Inside
      <4> QED BY <2>2, <3>2, <3>3, <4>1, <4>2
    <3>7. /\ Min(Powered(c)) * (2 * (w.to - w.from)) <= Integral(c, w)
          /\ Integral(c, w) <= Max(Powered(c)) * (2 * (w.to - w.from))
      BY <3>4, <3>5, IntegralBetween
    <3>8. Powered(c) # {}
      BY <3>4, <3>5, Extremes
    <3>9. Powered(c) = {Inside(g)[i].p : i \in DOMAIN Inside(g)} /\ Consumed(window) = w.to - w.from
      BY <3>2, <3>3 DEF Powered, Consumed
    <3> QED BY <2>3, <2>5, <3>6, <3>7, <3>8, <3>9
  <2> QED BY <2>4, <2>5
<1>2. IInv /\ (OrderInv /\ CounterInv) /\ [Next]_vars =>
        [row = None /\ row' # None /\ nvml => \A g \in Gpus : Fair(g)]_row
  BY <1>1 DEF vars
<1> QED BY Invariance, ReadsInOrder, <1>2, PTL DEF Spec, GpuEnergySound
=============================================================================
