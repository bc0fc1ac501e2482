----------------------- MODULE StaticPartition_proofs -----------------------
(***************************************************************************)
(* The ranges of StaticPartition tile the dataset and the strategy         *)
(* implements ParallelReduction, for every dataset, number of GPUs, kind   *)
(* of partition, prediction, number of calls and failure.                  *)
(*                                                                         *)
(* First the arithmetic: the running sum Before is a recursive function    *)
(* over the engines, and what it adds up to is proved by induction over    *)
(* them (UpTo, from the least element of a set).  Then the plan that       *)
(* prepare makes (PlanInv), then the threads of run_once (IInv), which     *)
(* lose nothing of the ranges, count nothing twice and outlive no call.    *)
(***************************************************************************)
EXTENDS StaticPartition, FiniteSetTheorems, WellFoundedInduction, TLAPS

LEMMA Sizes == N \in Nat \ {0} /\ G \in Nat \ {0}
BY StaticAssumption

USE Sizes

LEMMA Indexing ==
  /\ 0 \in Threads /\ 0 \notin Gpus /\ Gpus \subseteq Threads /\ Engines \subseteq Threads
  /\ \A t \in Threads : t = 0 \/ t \in Gpus
  /\ \A g \in Gpus : g # 0 /\ g \in Engines
BY DEF Gpus, Threads, Engines

-----------------------------------------------------------------------------
(* Running sums *)

\* A nonempty set of naturals has a least element.
LEMMA LeastElement ==
  ASSUME NEW S, S \subseteq Nat, S # {}
  PROVE  \E x \in S : \A y \in S : x <= y
<1> DEFINE R == OpToRel(<, Nat)
<1>1. \E x \in S : \A y \in S : ~(<<y, x>> \in R)
  <2>1. IsWellFoundedOn(R, Nat)
    BY NatLessThanWellFounded
  <2> HIDE DEF R
  <2> QED BY <2>1, WFMin
<1>2. PICK x \in S : \A y \in S : ~(<<y, x>> \in R)
  BY <1>1
<1>3. R = {p \in Nat \X Nat : p[1] < p[2]}
  BY DEF OpToRel
<1>4. ASSUME NEW y \in S, y < x PROVE FALSE
  <2>1. <<y, x>> \in Nat \X Nat /\ <<y, x>>[1] < <<y, x>>[2]
    BY <1>4
  <2>2. <<y, x>> \in {p \in Nat \X Nat : p[1] < p[2]}
    BY <2>1
  <2> QED BY <1>2, <1>3, <2>2
<1> QED BY <1>4

\* Induction up to m, for a set instead of a predicate.
LEMMA UpTo ==
  ASSUME NEW T, NEW m \in Nat, 0 \in T, \A k \in 0 .. m - 1 : k \in T => k + 1 \in T
  PROVE  0 .. m \subseteq T
<1> SUFFICES ASSUME NEW S, S = {k \in 0 .. m : k \notin T}, S # {} PROVE FALSE
  OBVIOUS
<1>1. PICK k \in S : \A j \in S : k <= j
  BY LeastElement
<1>2. k - 1 \in 0 .. m - 1 /\ k - 1 \notin S
  BY <1>1
<1>3. k - 1 \in T
  BY <1>2
<1> QED BY <1>1, <1>2, <1>3

\* What engine i takes of the shares c.
Taken(c, i) == IF i \in Engines THEN c[i] ELSE 0

\* Before is the running sum: its recursive equation has a solution.
LEMMA BeforeShape ==
  ASSUME NEW c
  PROVE  /\ Before(c)[0] = 0
         /\ \A i \in 0 .. G : Before(c)[i + 1] = Before(c)[i] + Taken(c, i)
<1> DEFINE Step(f, i) == IF i = 0 THEN 0 ELSE f[i - 1] + (IF i - 1 \in Engines THEN c[i - 1] ELSE 0)
           T == {k \in 0 .. G + 1 : \E f : f = [i \in 0 .. k |-> Step(f, i)]}
<1>1. 0 \in T
  <2>1. PICK f : f = [i \in 0 .. 0 |-> 0]
    OBVIOUS
  <2>2. f = [i \in 0 .. 0 |-> Step(f, i)]
    BY <2>1
  <2> QED BY <2>2
<1>2. ASSUME NEW k \in 0 .. G, k \in T PROVE k + 1 \in T
  <2>1. PICK f : f = [i \in 0 .. k |-> Step(f, i)]
    BY <1>2
  <2>2. PICK g : g = [i \in 0 .. k + 1 |-> IF i <= k THEN f[i] ELSE Step(f, i)]
    OBVIOUS
  <2>3. \A i \in 0 .. k + 1 : g[i] = Step(g, i)
    <3>1. ASSUME NEW i \in 0 .. k + 1 PROVE g[i] = Step(f, i)
      <4>1. CASE i <= k
        <5>1. i \in 0 .. k
          BY <4>1
        <5>2. f[i] = Step(f, i)
          BY <2>1, <5>1
        <5> QED BY <2>2, <4>1, <5>2
      <4>2. CASE ~(i <= k)
        BY <2>2, <4>2
      <4> QED BY <4>1, <4>2
    <3>2. ASSUME NEW i \in 0 .. k + 1, i # 0 PROVE g[i - 1] = f[i - 1]
      BY <2>2, <3>2
    <3> QED BY <3>1, <3>2
  <2>4. g = [i \in 0 .. k + 1 |-> Step(g, i)]
    BY <2>2, <2>3
  <2> QED BY <2>4
<1>3. 0 .. G + 1 \subseteq T
  <2> HIDE DEF T
  <2>1. \A k \in 0 .. (G + 1) - 1 : k \in T => k + 1 \in T
    BY <1>2
  <2> QED BY <1>1, <2>1, UpTo
<1>4. \E f : f = [i \in 0 .. G + 1 |-> Step(f, i)]
  <2>1. G + 1 \in T
    BY <1>3
  <2> QED BY <2>1
<1>5. Before(c) = [i \in 0 .. G + 1 |-> Step(Before(c), i)]
  BY <1>4 DEF Before
<1>6. Before(c)[0] = 0
  BY <1>5
<1>7. ASSUME NEW i \in 0 .. G PROVE Before(c)[i + 1] = Before(c)[i] + Taken(c, i)
  <2>1. i + 1 \in 0 .. G + 1 /\ i + 1 # 0 /\ (i + 1) - 1 = i
    OBVIOUS
  <2>2. Before(c)[i + 1] = Step(Before(c), i + 1)
    BY <1>5, <2>1
  <2> QED BY <2>1, <2>2 DEF Taken
<1> QED BY <1>6, <1>7

\* With shares that are naturals, engine after engine.
LEMMA BeforeTyped ==
  ASSUME NEW c, \A i \in Engines : c[i] \in Nat
  PROVE  /\ \A i \in 0 .. G : Taken(c, i) \in Nat
         /\ \A i \in 0 .. G + 1 : Before(c)[i] \in Nat
         /\ \A i, j \in 0 .. G + 1 : i <= j => Before(c)[i] <= Before(c)[j]
<1> SUFFICES ASSUME NEW b, b = Before(c)
             PROVE  /\ \A i \in 0 .. G : Taken(c, i) \in Nat
                    /\ \A i \in 0 .. G + 1 : b[i] \in Nat
                    /\ \A i, j \in 0 .. G + 1 : i <= j => b[i] <= b[j]
  OBVIOUS
<1>1. b[0] = 0 /\ \A i \in 0 .. G : b[i + 1] = b[i] + Taken(c, i)
  BY BeforeShape
<1>2. \A i \in 0 .. G : Taken(c, i) \in Nat
  BY DEF Taken
<1>3. PICK S : S = {k \in 0 .. G + 1 : b[k] \in Nat}
  OBVIOUS
<1>4. \A k \in 0 .. (G + 1) - 1 : k \in S => k + 1 \in S
  BY <1>1, <1>2, <1>3
<1>5. 0 .. G + 1 \subseteq S
  <2>1. 0 \in S /\ G + 1 \in Nat
    BY <1>1, <1>3
  <2> QED BY <1>4, <2>1, UpTo
<1>6. \A i \in 0 .. G + 1 : b[i] \in Nat
  BY <1>3, <1>5
<1>7. ASSUME NEW i \in 0 .. G + 1
      PROVE  \A j \in 0 .. G + 1 : i <= j => b[i] <= b[j]
  <2>1. PICK U : U = {k \in 0 .. G + 1 : i <= k => b[i] <= b[k]}
    OBVIOUS
  <2>2. \A k \in 0 .. (G + 1) - 1 : k \in U => k + 1 \in U
    <3> SUFFICES ASSUME NEW k \in 0 .. G, k \in U, i <= k + 1 PROVE b[i] <= b[k + 1]
      BY <2>1
    <3>1. b[k + 1] = b[k] + Taken(c, k) /\ b[k] \in Nat /\ b[i] \in Nat /\ Taken(c, k) \in Nat
      BY <1>1, <1>2, <1>6
    <3>2. CASE i <= k
      BY <2>1, <3>1, <3>2
    <3>3. CASE i = k + 1
      BY <3>1, <3>3
    <3> QED BY <3>2, <3>3
  <2>3. 0 \in U
    BY <1>6, <2>1
  <2>4. 0 .. G + 1 \subseteq U
    BY <2>2, <2>3, UpTo
  <2> QED BY <2>1, <2>4
<1> QED BY <1>2, <1>6, <1>7

\* Each element of the dataset is in the range of one engine.
Tiles(r) ==
  /\ r \in [Engines -> DataRange]
  /\ \A e \in Elements : \E i \in Engines :
       e \in Span(r[i]) /\ \A j \in Engines \ {i} : e \notin Span(r[j])

\* Shares that add up to the dataset, laid one after the other, tile it.
LEMMA LaidOutTiles ==
  ASSUME NEW c, \A i \in Engines : c[i] \in Nat, TotalOf(c) = N
  PROVE  Tiles(LaidOut(c))
<1> SUFFICES ASSUME NEW b, b = Before(c), NEW r, r = LaidOut(c) PROVE Tiles(r)
  OBVIOUS
<1>1. /\ b[0] = 0 /\ b[G + 1] = N
      /\ \A i \in 0 .. G : b[i + 1] = b[i] + Taken(c, i) /\ Taken(c, i) \in Nat
      /\ \A i \in 0 .. G + 1 : b[i] \in Nat
      /\ \A i, j \in 0 .. G + 1 : i <= j => b[i] <= b[j]
  BY BeforeShape, BeforeTyped DEF TotalOf
<1>2. r = [i \in Engines |-> [offset |-> b[i], count |-> c[i]]]
  BY DEF LaidOut
<1>3. ASSUME NEW i \in Engines
      PROVE  /\ i \in 0 .. G /\ i + 1 \in 0 .. G + 1
             /\ r[i] = [offset |-> b[i], count |-> c[i]]
             /\ b[i + 1] = b[i] + c[i] /\ b[i] \in Nat /\ c[i] \in Nat /\ b[i + 1] <= N
             /\ \A e \in Nat : e \in Span(r[i]) <=> b[i] <= e /\ e < b[i + 1]
  <2>1. i \in 0 .. G /\ i + 1 \in 0 .. G + 1
    BY Indexing DEF Threads
  <2>2. r[i] = [offset |-> b[i], count |-> c[i]]
    BY <1>2
  <2>3. b[i + 1] = b[i] + c[i] /\ b[i] \in Nat /\ c[i] \in Nat
    BY <1>1, <2>1 DEF Taken
  <2>4. b[i + 1] <= b[G + 1]
    BY <1>1, <2>1
  <2>5. b[i + 1] <= N
    BY <1>1, <2>4
  <2>6. ASSUME NEW e \in Nat PROVE e \in Span(r[i]) <=> b[i] <= e /\ e < b[i + 1]
    <3>1. Span(r[i]) = b[i] .. b[i] + c[i] - 1
      BY <2>2 DEF Span
    <3> QED BY <2>3, <3>1
  <2> QED BY <2>1, <2>2, <2>3, <2>5, <2>6
<1>4. \A i \in Engines : \A e \in Nat : e \in Span(r[i]) <=> b[i] <= e /\ e < b[i + 1]
  BY <1>3
<1>5. r \in [Engines -> DataRange]
  <2>1. ASSUME NEW i \in Engines PROVE r[i] \in DataRange
    <3>1. r[i] = [offset |-> b[i], count |-> c[i]] /\ b[i + 1] = b[i] + c[i] /\ b[i] \in Nat
          /\ c[i] \in Nat /\ b[i + 1] <= N
      BY <1>3
    <3>2. b[i] \in 0 .. N /\ c[i] \in 0 .. N
      BY <3>1
    <3> QED BY <3>1, <3>2 DEF DataRange
  <2> QED BY <1>2, <2>1
<1>6. ASSUME NEW e \in Elements PROVE \E i \in Engines : e \in Span(r[i])
  <2>1. e \in 0 .. N - 1
    BY DEF Elements
  <2>2. PICK S : S = {k \in 0 .. G + 1 : e < b[k]}
    OBVIOUS
  <2>3. G + 1 \in S
    BY <1>1, <2>1, <2>2
  <2>4. PICK k \in S : \A j \in S : k <= j
    BY <2>2, <2>3, LeastElement
  <2>5. k \in 1 .. G + 1 /\ k - 1 \in 0 .. G
    BY <1>1, <2>1, <2>2, <2>4
  <2>6. PICK i \in 0 .. G : i = k - 1
    BY <2>5
  <2>7. i \notin S /\ i + 1 = k
    BY <2>4, <2>5, <2>6
  <2>8. b[i] <= e /\ e < b[i + 1]
    BY <1>1, <2>1, <2>2, <2>4, <2>6, <2>7
  <2>9. i \in Engines
    BY <1>1, <2>1, <2>8 DEF Taken
  <2>10. e \in Span(r[i])
    BY <1>4, <2>1, <2>8, <2>9
  <2> QED BY <2>9, <2>10
<1>7. ASSUME NEW e \in Elements, NEW i \in Engines, NEW j \in Engines, i < j,
             e \in Span(r[i]), e \in Span(r[j])
      PROVE  FALSE
  <2>0. e \in Nat
    BY DEF Elements
  <2>1. e \in Nat /\ b[j] <= e /\ e < b[i + 1]
    BY <1>4, <1>7, <2>0
  <2>2. i \in 0 .. G /\ j \in 0 .. G /\ b[j] \in Nat /\ b[i + 1] \in Nat
    BY <1>1, <1>3
  <2>3. b[i + 1] <= b[j]
    BY <1>1, <1>7, <2>2
  <2> QED BY <2>1, <2>2, <2>3
<1>8. \A e \in Elements : \A i, j \in Engines : i # j => ~(e \in Span(r[i]) /\ e \in Span(r[j]))
  <2> SUFFICES ASSUME NEW e \in Elements, NEW i \in Engines, NEW j \in Engines, i # j,
                      e \in Span(r[i]), e \in Span(r[j])
               PROVE  FALSE
    OBVIOUS
  <2>1. i < j \/ j < i
    <3>1. i \in 0 .. G /\ j \in 0 .. G
      BY <1>3
    <3> QED BY <3>1
  <2> QED BY <1>7, <2>1
<1> QED BY <1>5, <1>6, <1>8 DEF Tiles

-----------------------------------------------------------------------------
(* What the partitions add up to *)

LEMMA Division ==
  ASSUME NEW total \in Nat, NEW n \in Nat \ {0}
  PROVE  /\ total \div n \in Nat /\ total % n \in 0 .. n - 1
         /\ n * (total \div n) + (total % n) = total
OBVIOUS

\* The equal share of engine i, when the engines are first .. G.
Share(total, first, i) ==
  total \div (G + 1 - first) + (IF i - first < (total % (G + 1 - first)) THEN 1 ELSE 0)

LEMMA EqualShape ==
  ASSUME NEW total \in Nat, NEW first \in {0, 1}, NEW E, E = first .. G, NEW i \in E
  PROVE  Equal(total, E)[i] = Share(total, first, i)
<1>0. \A a, b \in Int : Cardinality(a .. b) = IF a > b THEN 0 ELSE b - a + 1
  BY FS_Interval
<1>1. Cardinality(E) = G + 1 - first
  <2>1. first \in Int /\ G \in Int /\ ~(first > G)
    OBVIOUS
  <2>2. Cardinality(first .. G) = G - first + 1
    BY <1>0, <2>1
  <2> QED BY <2>1, <2>2
<1>2. Cardinality({j \in E : j < i}) = i - first
  <2>1. PICK a, b \in Int : a = first /\ b = i - 1
    OBVIOUS
  <2>2. {j \in E : j < i} = a .. b
    BY <2>1
  <2>3. Cardinality(a .. b) = IF a > b THEN 0 ELSE b - a + 1
    BY <1>0
  <2>4. (IF a > b THEN 0 ELSE b - a + 1) = i - first
    BY <2>1
  <2> QED BY <2>2, <2>3, <2>4
<1> QED BY <1>1, <1>2 DEF Equal, Share

LEMMA NextShare ==
  ASSUME NEW o \in Nat, NEW p \in Nat, NEW q \in Nat, NEW k \in Nat, NEW r \in Nat
  PROVE  o + p + (IF k < r THEN k ELSE r) + (q + (IF k < r THEN 1 ELSE 0))
           = o + (p + q) + (IF k + 1 < r THEN k + 1 ELSE r)
OBVIOUS

LEMMA Times ==
  ASSUME NEW k \in Nat, NEW q \in Nat
  PROVE  k * q \in Nat /\ (k + 1) * q = k * q + q
OBVIOUS

\* They add up to what is shared.
LEMMA EqualTotal ==
  ASSUME NEW total \in Nat, NEW first \in {0, 1}, NEW c, \A i \in Engines : c[i] \in Nat,
         \A i \in first .. G : Taken(c, i) = Share(total, first, i)
  PROVE  TotalOf(c) = Before(c)[first] + total
<1>0. PICK n \in Nat \ {0} : n = G + 1 - first
  OBVIOUS
<1>1. PICK q \in Nat, r \in Nat : /\ q = total \div n /\ r = total % n
                                  /\ r < n /\ n * q + r = total
  <2>1. total \div n \in Nat /\ total % n \in 0 .. n - 1 /\ n * (total \div n) + (total % n) = total
    BY Division
  <2>2. total % n \in Nat /\ total % n < n
    BY <2>1
  <2> QED BY <2>1, <2>2
<1>2. PICK b : b = Before(c)
  OBVIOUS
<1>3. \A i \in first .. G : b[i + 1] = b[i] + (q + (IF i - first < r THEN 1 ELSE 0))
  <2> SUFFICES ASSUME NEW i \in first .. G
               PROVE  b[i + 1] = b[i] + (q + (IF i - first < r THEN 1 ELSE 0))
    OBVIOUS
  <2>1. i \in 0 .. G
    OBVIOUS
  <2>2. b[i + 1] = b[i] + Taken(c, i)
    BY <1>2, <2>1, BeforeShape
  <2>3. Taken(c, i) = q + (IF i - first < r THEN 1 ELSE 0)
    BY <1>0, <1>1 DEF Share
  <2> QED BY <2>2, <2>3
<1>4. PICK o \in Nat : o = b[first]
  <2>1. first \in 0 .. G + 1
    OBVIOUS
  <2> QED BY <1>2, <2>1, BeforeTyped
<1>5. PICK S : S = {k \in 0 .. n : b[first + k] = o + k * q + (IF k < r THEN k ELSE r)}
  OBVIOUS
<1>6. 0 \in S
  <2>1. first + 0 = first /\ 0 * q = 0 /\ 0 \in 0 .. n
    BY <1>0
  <2>2. o + 0 * q + (IF 0 < r THEN 0 ELSE r) = o
    BY <2>1
  <2> QED BY <1>4, <1>5, <2>1, <2>2
<1>7. \A k \in 0 .. n - 1 : k \in S => k + 1 \in S
  <2> SUFFICES ASSUME NEW k \in 0 .. n - 1, k \in S PROVE k + 1 \in S
    OBVIOUS
  <2>1. PICK i \in first .. G : i = first + k
    BY <1>0
  <2>2. b[i + 1] = b[i] + (q + (IF k < r THEN 1 ELSE 0))
    <3>1. i - first = k
      BY <2>1
    <3> QED BY <1>3, <3>1
  <2>3. b[i] = o + k * q + (IF k < r THEN k ELSE r)
    BY <1>5, <2>1
  <2>4. PICK p \in Nat : p = k * q
    BY Times
  <2>5. (k + 1) * q = p + q
    BY <2>4, Times
  <2>6. k \in Nat
    OBVIOUS
  <2>7. b[i + 1] = o + (p + q) + (IF k + 1 < r THEN k + 1 ELSE r)
    BY <2>2, <2>3, <2>4, <2>6, NextShare
  <2>8. i + 1 = first + (k + 1) /\ k + 1 \in 0 .. n
    BY <1>0, <2>1
  <2> QED BY <1>5, <2>5, <2>7, <2>8
<1>8. n \in S
  <2>1. 0 .. n \subseteq S
    BY <1>6, <1>7, UpTo
  <2> QED BY <2>1
<1>9. b[first + n] = o + n * q + r /\ first + n = G + 1
  <2>1. b[first + n] = o + n * q + (IF n < r THEN n ELSE r)
    BY <1>5, <1>8
  <2> QED BY <1>0, <1>1, <2>1
<1>10. PICK p \in Nat : p = n * q
  BY Times
<1>11. b[G + 1] = o + total
  <2>1. b[G + 1] = o + p + r
    BY <1>9, <1>10
  <2> QED BY <1>1, <1>10, <2>1
<1> QED BY <1>2, <1>4, <1>11 DEF TotalOf

LEMMA ShareNat ==
  ASSUME NEW total \in Nat, NEW first \in {0, 1}, NEW i
  PROVE  Share(total, first, i) \in Nat
<1>1. PICK n \in Nat \ {0} : n = G + 1 - first
  OBVIOUS
<1>2. total \div n \in Nat
  BY Division
<1> QED BY <1>1, <1>2 DEF Share

LEMMA EqualTiles == Tiles(EqualPartition(N))
<1>1. PICK first \in {0, 1} : Engines = first .. G /\ (first = 1 => 0 \notin Engines)
  <2>1. CASE hybrid
    BY <2>1 DEF Engines, Threads
  <2>2. CASE ~ hybrid
    BY <2>2 DEF Engines, Gpus
  <2> QED BY <2>1, <2>2
<1>2. PICK c : c = Equal(N, Engines)
  OBVIOUS
<1>3. \A i \in Engines : c[i] = Share(N, first, i)
  BY <1>1, <1>2, EqualShape
<1>4. \A i \in Engines : c[i] \in Nat
  BY <1>3, ShareNat
<1>5. \A i \in first .. G : Taken(c, i) = Share(N, first, i)
  BY <1>1, <1>3 DEF Taken
<1>6. Before(c)[first] = 0
  <2>1. Before(c)[0] = 0 /\ Before(c)[0 + 1] = Before(c)[0] + Taken(c, 0)
    BY BeforeShape
  <2>2. first = 1 => Taken(c, 0) = 0
    BY <1>1 DEF Taken
  <2> QED BY <2>1, <2>2
<1>7. TotalOf(c) = N
  <2>1. TotalOf(c) = Before(c)[first] + N
    BY <1>4, <1>5, EqualTotal
  <2> QED BY <1>6, <2>1
<1> QED BY <1>2, <1>4, <1>7, LaidOutTiles DEF EqualPartition

LEMMA FileTiles ==
  ASSUME NEW cpu \in 0 .. N, hybrid \/ cpu = 0
  PROVE  Tiles(FilePartition(N, cpu))
<1>1. PICK c : c = [i \in Engines |-> IF i = 0 THEN cpu ELSE Equal(N - cpu, Gpus)[i]]
  OBVIOUS
<1>2. PICK rest \in Nat : rest = N - cpu
  OBVIOUS
<1>3. \A i \in Gpus : Equal(rest, Gpus)[i] = Share(rest, 1, i)
  BY EqualShape DEF Gpus
<1>4. \A i \in Gpus : c[i] = Share(rest, 1, i)
  BY <1>1, <1>2, <1>3, Indexing
<1>5. \A i \in Engines : c[i] \in Nat
  <2> SUFFICES ASSUME NEW i \in Engines PROVE c[i] \in Nat
    OBVIOUS
  <2>1. CASE i = 0
    BY <1>1, <2>1
  <2>2. CASE i # 0
    <3>1. i \in Gpus
      BY <2>2, Indexing
    <3> QED BY <1>4, <3>1, ShareNat
  <2> QED BY <2>1, <2>2
<1>6. \A i \in 1 .. G : Taken(c, i) = Share(rest, 1, i)
  BY <1>4, Indexing DEF Taken, Gpus
<1>7. Before(c)[1] = cpu
  <2>1. Before(c)[0] = 0 /\ Before(c)[0 + 1] = Before(c)[0] + Taken(c, 0)
    BY BeforeShape
  <2>2. CASE hybrid
    <3>1. 0 \in Engines
      BY <2>2 DEF Engines, Threads
    <3>2. Taken(c, 0) = cpu
      BY <1>1, <3>1 DEF Taken
    <3> QED BY <2>1, <3>2
  <2>3. CASE ~ hybrid
    <3>1. 0 \notin Engines
      BY <2>3 DEF Engines, Gpus
    <3>2. Taken(c, 0) = 0 /\ cpu = 0
      BY <2>3, <3>1 DEF Taken
    <3> QED BY <2>1, <3>2
  <2> QED BY <2>2, <2>3
<1>8. TotalOf(c) = N
  <2>1. TotalOf(c) = Before(c)[1] + rest
    BY <1>5, <1>6, EqualTotal
  <2> QED BY <1>2, <1>7, <2>1
<1> QED BY <1>1, <1>5, <1>8, LaidOutTiles DEF FilePartition

LEMMA DivBelow ==
  ASSUME NEW a \in Nat, NEW s \in Nat \ {0}
  PROVE  a \div s \in Nat /\ (a \div s) * s <= a
<1>1. PICK q \in Nat, r \in Nat : q = a \div s /\ s * q + r = a
  BY Division
<1>2. s * q = q * s /\ s * q \in Nat
  OBVIOUS
<1> QED BY <1>1, <1>2

LEMMA Cancel ==
  ASSUME NEW a \in Nat, NEW b \in Nat, NEW s \in Nat \ {0}, a * s <= b * s
  PROVE  a <= b
<1> SUFFICES ASSUME a > b PROVE FALSE
  OBVIOUS
<1>1. PICK d \in Nat : a = b + 1 + d
  OBVIOUS
<1>2. a * s = b * s + s + d * s
  BY <1>1
<1>3. b * s \in Nat /\ d * s \in Nat
  OBVIOUS
<1> QED BY <1>2, <1>3

LEMMA Grow ==
  ASSUME NEW a \in Nat, NEW b \in Nat, a <= b, NEW s \in Nat
  PROVE  s * a <= s * b
<1>1. PICK d \in Nat : b = a + d
  <2>1. b - a \in Nat /\ b = a + (b - a)
    OBVIOUS
  <2> QED BY <2>1
<1>2. s * b = s * a + s * d /\ s * a \in Nat /\ s * d \in Nat
  BY <1>1
<1> QED BY <1>2

\* A share that is rounded down, laid after shares of which the same holds.
LEMMA PrefixStep ==
  ASSUME NEW x \in Nat, NEW y \in Nat, NEW w \in Nat, NEW u \in Nat, NEW s \in Nat, NEW t \in Nat,
         x * s <= t * y, w * s <= u * t
  PROVE  (x + w) * s <= t * (y + u)
<1>1. (x + w) * s = x * s + w * s /\ t * (y + u) = t * y + t * u /\ t * u = u * t
  OBVIOUS
<1>2. x * s \in Nat /\ w * s \in Nat /\ t * y \in Nat /\ u * t \in Nat
  OBVIOUS
<1> QED BY <1>1, <1>2

\* The shares in proportion to the predictions, rounded down, leave something or
\* nothing to the last engine, never less.
LEMMA PrefixFits ==
  ASSUME NEW raw, \A i \in Engines : raw[i] \in Nat, NEW sum \in Nat \ {0}, sum = TotalOf(raw),
         NEW share, share = [i \in Engines |-> (raw[i] * N) \div sum]
  PROVE  /\ \A i \in Engines : share[i] \in Nat
         /\ Before(share)[G] <= N
<1>1. \A i \in Engines : share[i] \in Nat /\ share[i] * sum <= raw[i] * N
  <2> SUFFICES ASSUME NEW i \in Engines PROVE share[i] \in Nat /\ share[i] * sum <= raw[i] * N
    OBVIOUS
  <2>1. PICK a \in Nat : a = raw[i] * N
    <3>1. raw[i] * N \in Nat
      BY Times
    <3> QED BY <3>1
  <2>2. share[i] = a \div sum
    BY <2>1
  <2> QED BY <2>1, <2>2, DivBelow
<1>2. PICK b, r : b = Before(share) /\ r = Before(raw)
  OBVIOUS
<1>3. /\ b[0] = 0 /\ r[0] = 0
      /\ \A i \in 0 .. G : b[i + 1] = b[i] + Taken(share, i) /\ r[i + 1] = r[i] + Taken(raw, i)
  BY <1>2, BeforeShape
<1>4. /\ \A i \in 0 .. G + 1 : b[i] \in Nat /\ r[i] \in Nat
      /\ \A i \in 0 .. G : Taken(share, i) \in Nat /\ Taken(raw, i) \in Nat
      /\ r[G] <= r[G + 1]
  <2>1. /\ \A i \in 0 .. G + 1 : b[i] \in Nat
        /\ \A i \in 0 .. G : Taken(share, i) \in Nat
    BY <1>1, <1>2, BeforeTyped
  <2>2. /\ \A i \in 0 .. G + 1 : r[i] \in Nat
        /\ \A i \in 0 .. G : Taken(raw, i) \in Nat
        /\ \A i, j \in 0 .. G + 1 : i <= j => r[i] <= r[j]
    BY <1>2, BeforeTyped
  <2> QED BY <2>1, <2>2
<1>5. \A i \in 0 .. G : Taken(share, i) * sum <= Taken(raw, i) * N
  <2> SUFFICES ASSUME NEW i \in 0 .. G PROVE Taken(share, i) * sum <= Taken(raw, i) * N
    OBVIOUS
  <2>1. CASE i \in Engines
    BY <1>1, <2>1 DEF Taken
  <2>2. CASE i \notin Engines
    <3>1. 0 * sum = 0 /\ 0 * N = 0
      OBVIOUS
    <3> QED BY <2>2, <3>1 DEF Taken
  <2> QED BY <2>1, <2>2
<1>6. PICK S : S = {i \in 0 .. G : b[i] * sum <= N * r[i]}
  OBVIOUS
<1>7. 0 \in S
  <2>1. 0 * sum = 0 /\ N * 0 = 0
    OBVIOUS
  <2> QED BY <1>3, <1>6, <2>1
<1>8. \A i \in 0 .. G - 1 : i \in S => i + 1 \in S
  <2> SUFFICES ASSUME NEW i \in 0 .. G - 1, i \in S PROVE i + 1 \in S
    OBVIOUS
  <2>1. i \in 0 .. G /\ i + 1 \in 0 .. G
    OBVIOUS
  <2>0. PICK x \in Nat, y \in Nat : x = b[i] /\ y = r[i]
    <3>1. b[i] \in Nat /\ r[i] \in Nat
      BY <1>4, <2>1
    <3> QED BY <3>1
  <2>2. PICK w \in Nat, u \in Nat : w = Taken(share, i) /\ u = Taken(raw, i)
    <3>1. Taken(share, i) \in Nat /\ Taken(raw, i) \in Nat
      BY <1>4, <2>1
    <3> QED BY <3>1
  <2>3. x * sum <= N * y
    BY <1>6, <2>0
  <2>4. w * sum <= u * N
    BY <1>5, <2>1, <2>2
  <2>5. (x + w) * sum <= N * (y + u)
    BY <2>3, <2>4, PrefixStep
  <2>6. b[i + 1] = x + w /\ r[i + 1] = y + u
    BY <1>3, <2>1, <2>0, <2>2
  <2> QED BY <1>6, <2>1, <2>5, <2>6
<1>9. b[G] * sum <= N * r[G]
  <2>1. 0 .. G \subseteq S
    BY <1>7, <1>8, UpTo
  <2> QED BY <1>6, <2>1
<1>10. PICK x \in Nat, y \in Nat : x = b[G] /\ y = r[G] /\ y <= sum
  <2>1. G \in 0 .. G + 1
    OBVIOUS
  <2>2. b[G] \in Nat /\ r[G] \in Nat
    BY <1>4, <2>1
  <2>3. r[G] <= sum
    BY <1>2, <1>4 DEF TotalOf
  <2> QED BY <2>2, <2>3
<1>11. x * sum <= N * sum
  <2>1. x * sum <= N * y /\ N * y <= N * sum
    BY <1>9, <1>10, Grow
  <2>2. x * sum \in Int /\ N * y \in Int /\ N * sum \in Int
    OBVIOUS
  <2> QED BY <2>1, <2>2
<1>12. x <= N
  BY <1>11, Cancel
<1> QED BY <1>1, <1>2, <1>10, <1>12

\* Shares that agree up to engine G have the same sum before it.
LEMMA SameBefore ==
  ASSUME NEW c, NEW d, \A i \in Engines : c[i] \in Nat /\ d[i] \in Nat,
         \A i \in Engines : i # G => c[i] = d[i]
  PROVE  Before(c)[G] = Before(d)[G]
<1>1. PICK S : S = {i \in 0 .. G : Before(c)[i] = Before(d)[i]}
  OBVIOUS
<1>2. 0 \in S
  BY <1>1, BeforeShape
<1>3. \A i \in 0 .. G - 1 : i \in S => i + 1 \in S
  <2> SUFFICES ASSUME NEW i \in 0 .. G - 1, i \in S PROVE i + 1 \in S
    OBVIOUS
  <2>1. Taken(c, i) = Taken(d, i)
    BY DEF Taken
  <2>2. i \in 0 .. G /\ i + 1 \in 0 .. G
    OBVIOUS
  <2>3. Before(c)[i + 1] = Before(c)[i] + Taken(c, i) /\ Before(d)[i + 1] = Before(d)[i] + Taken(d, i)
    BY <2>2, BeforeShape
  <2> QED BY <1>1, <2>1, <2>2, <2>3
<1>4. 0 .. G \subseteq S
  BY <1>2, <1>3, UpTo
<1> QED BY <1>1, <1>4

LEMMA ModelTiles ==
  ASSUME NEW raw, \A i \in Engines : raw[i] \in Nat
  PROVE  Tiles(ModelPartition(N, raw))
<1>1. CASE TotalOf(raw) = 0
  BY <1>1, EqualTiles DEF ModelPartition
<1>2. CASE TotalOf(raw) # 0
  <2>1. PICK sum \in Nat \ {0} : sum = TotalOf(raw)
    <3>1. G + 1 \in 0 .. G + 1
      OBVIOUS
    <3>2. Before(raw)[G + 1] \in Nat
      BY <3>1, BeforeTyped
    <3> QED BY <1>2, <3>2 DEF TotalOf
  <2>2. PICK share : share = [i \in Engines |-> (raw[i] * N) \div sum]
    OBVIOUS
  <2>3. (\A i \in Engines : share[i] \in Nat) /\ Before(share)[G] <= N
    BY <2>1, <2>2, PrefixFits
  <2>4. Before(share)[G] \in Nat
    <3>1. G \in 0 .. G + 1
      OBVIOUS
    <3> QED BY <2>3, <3>1, BeforeTyped
  <2>5. PICK c : c = [share EXCEPT ![G] = N - Before(share)[G]]
    OBVIOUS
  <2>6. G \in Engines /\ G \in 0 .. G
    BY Indexing DEF Gpus
  <2>7. c[G] = N - Before(share)[G] /\ \A i \in Engines : i # G => c[i] = share[i]
    BY <2>2, <2>5, <2>6
  <2>8. \A i \in Engines : c[i] \in Nat
    BY <2>3, <2>4, <2>7
  <2>9. Before(c)[G] = Before(share)[G]
    BY <2>3, <2>7, <2>8, SameBefore
  <2>10. TotalOf(c) = N
    <3>1. Before(c)[G + 1] = Before(c)[G] + Taken(c, G)
      BY <2>6, BeforeShape
    <3> QED BY <2>4, <2>6, <2>7, <2>9, <3>1 DEF TotalOf, Taken
  <2>11. ModelPartition(N, raw) = LaidOut(c)
    BY <1>2, <2>1, <2>2, <2>5 DEF ModelPartition
  <2> QED BY <2>8, <2>10, <2>11, LaidOutTiles
<1> QED BY <1>1, <1>2

\* A calibration sample lies inside the dataset, whatever its size and index.
LEMMA SampleInside ==
  ASSUME NEW n \in SampleSizes, NEW k \in Nat
  PROVE  /\ n \in 0 .. N /\ CalibrationOffset(N, n, k) \in 0 .. N
         /\ CalibrationOffset(N, n, k) + n <= N
<1>1. n \in 1 .. N
  BY StaticAssumption DEF SampleSizes, MinOf
<1>2. CASE n = N
  BY <1>2 DEF CalibrationOffset
<1>3. CASE n # N
  <2>1. n \in Nat \ {0} /\ ~(n = 0 \/ n >= N)
    BY <1>1, <1>3
  <2>2. PICK q \in Nat : q = N \div n /\ q * n <= N
    BY <2>1, DivBelow
  <2>3. PICK m \in Nat \ {0} : m = MaxOf(1, q) /\ (m = q \/ m = 1)
    BY <2>2 DEF MaxOf
  <2>4. PICK j \in Nat : j = k % m /\ j + 1 <= m
    <3>1. k % m \in 0 .. m - 1
      BY <2>3
    <3> QED BY <3>1
  <2>5. m * n <= N
    <3>1. 1 * n <= N
      BY <2>1
    <3> QED BY <2>2, <2>3, <3>1
  <2>6. n * (j + 1) <= n * m
    BY <2>1, <2>4, Grow
  <2>7. n * (j + 1) = j * n + n /\ n * m = m * n /\ j * n \in Nat /\ m * n \in Nat
    BY <2>1
  <2>8. CalibrationOffset(N, n, k) = j * n
    BY <2>1, <2>2, <2>3, <2>4 DEF CalibrationOffset
  <2> QED BY <1>1, <2>5, <2>6, <2>7, <2>8
<1> QED BY <1>2, <1>3

-----------------------------------------------------------------------------
(* The ranges of every reachable state *)

MainPc == {"prepare", "idle", "spawn", "cpu", "join", "merge", "over"}
GpuPc  == {"off", "reduce", "exited", "joined", "over"}

PcTyped == pc \in [Threads -> MainPc \cup GpuPc] /\ pc[0] \in MainPc

Fits == \A g \in Gpus : ranges[g].count <= capacity[g]

PlanInv ==
  /\ streamed \in BOOLEAN /\ hybrid \in BOOLEAN /\ profiled \in BOOLEAN
  /\ ranges \in [Engines -> DataRange]
  /\ capacity \in [Gpus -> 0 .. N]
  /\ sample \in DataRange /\ sample.offset + sample.count <= N
  /\ PcTyped
  /\ pc[0] \notin {"prepare", "over"} => Tiles(ranges) /\ Fits

LEMMA PlanInit == Init => PlanInv
<1> SUFFICES ASSUME Init PROVE PlanInv
  OBVIOUS
<1>1. NoRange \in DataRange /\ NoRange.offset + NoRange.count <= N
  BY DEF NoRange, DataRange
<1>2. PcTyped /\ pc[0] = "prepare"
  BY Indexing DEF Init, PcTyped, MainPc, GpuPc
<1> QED BY <1>1, <1>2 DEF Init, PlanInv

\* The constructor and prepare make the plan, and a call has one.
LEMMA PlanKept ==
  ASSUME PlanInv, UNCHANGED plan, PcTyped',
         pc'[0] \in {"prepare", "over"} \/ pc[0] \notin {"prepare", "over"}
  PROVE  PlanInv'
<1>1. UNCHANGED <<streamed, hybrid, profiled, ranges, capacity, sample>>
  BY DEF plan
<1>2. Engines' = Engines /\ Fits' = Fits
  BY <1>1 DEF Engines, Fits
<1>3. Tiles(ranges)' <=> Tiles(ranges)
  BY <1>1, <1>2 DEF Tiles
<1> QED BY <1>1, <1>2, <1>3 DEF PlanInv

LEMMA PlanProfile == ASSUME PlanInv, Profile PROVE PlanInv'
<1>1. UNCHANGED <<streamed, hybrid, profiled, ranges, capacity, pc>> /\ pc[0] = "prepare"
  BY DEF Profile
<1>2. sample' \in DataRange /\ sample'.offset + sample'.count <= N
  <2>1. PICK n \in SampleSizes, k \in 0 .. Samples :
             sample' = [offset |-> CalibrationOffset(N, n, k), count |-> n]
    BY DEF Profile
  <2>2. k \in Nat
    BY StaticAssumption
  <2>3. PICK o : o = CalibrationOffset(N, n, k)
    OBVIOUS
  <2>4. n \in 0 .. N /\ o \in 0 .. N /\ o + n <= N
    BY <2>2, <2>3, SampleInside
  <2> QED BY <2>1, <2>3, <2>4 DEF DataRange
<1>3. Engines' = Engines
  BY <1>1 DEF Engines
<1> QED BY <1>1, <1>2, <1>3 DEF PlanInv, PcTyped

LEMMA PlanPartition == ASSUME PlanInv, Partition PROVE PlanInv'
<1>1. UNCHANGED <<streamed, hybrid, profiled, sample>> /\ Engines' = Engines
  BY DEF Partition, Engines
<1>2. Tiles(ranges')
  <2>1. CASE \E raw \in [Engines -> Capacities] : ranges' = ModelPartition(N, raw)
    <3>1. PICK raw \in [Engines -> Capacities] : ranges' = ModelPartition(N, raw)
      BY <2>1
    <3>2. \A i \in Engines : raw[i] \in Nat
      BY StaticAssumption
    <3> QED BY <3>1, <3>2, ModelTiles
  <2>2. CASE \E cpu \in IF hybrid THEN 0 .. N ELSE {0} : ranges' = FilePartition(N, cpu)
    <3>1. PICK cpu \in IF hybrid THEN 0 .. N ELSE {0} : ranges' = FilePartition(N, cpu)
      BY <2>2
    <3>2. cpu \in 0 .. N /\ (hybrid \/ cpu = 0)
      OBVIOUS
    <3> QED BY <3>1, <3>2, FileTiles
  <2>3. CASE ranges' = EqualPartition(N)
    BY <2>3, EqualTiles
  <2> QED BY <2>1, <2>2, <2>3 DEF Partition
<1>3. Tiles(ranges)'
  BY <1>1, <1>2 DEF Tiles
<1>4. \A g \in Gpus : /\ ranges'[g].count \in 0 .. N
                      /\ capacity'[g] = IF streamed THEN N ELSE MaxOf(1, ranges'[g].count)
  BY <1>2, Indexing DEF Tiles, DataRange, Partition
<1>5. \A g \in Gpus : capacity'[g] \in 0 .. N /\ ranges'[g].count <= capacity'[g]
  BY <1>4 DEF MaxOf
<1>6. capacity' \in [Gpus -> 0 .. N]
  <2>1. capacity' = [g \in Gpus |-> IF streamed THEN N ELSE MaxOf(1, ranges'[g].count)]
    BY DEF Partition
  <2> QED BY <1>5, <2>1
<1>7. PcTyped'
  BY Indexing DEF Partition, PlanInv, PcTyped, MainPc
<1>8. ranges' \in [Engines' -> DataRange]
  BY <1>1, <1>2 DEF Tiles
<1>9. Fits'
  BY <1>5 DEF Fits
<1>10. sample' \in DataRange /\ sample'.offset + sample'.count <= N
  BY <1>1 DEF PlanInv
<1> QED BY <1>1, <1>3, <1>6, <1>7, <1>8, <1>9, <1>10 DEF PlanInv

LEMMA PlanStep == PlanInv /\ [Next]_vars => PlanInv'
<1> SUFFICES ASSUME PlanInv, [Next]_vars PROVE PlanInv'
  OBVIOUS
<1>t. pc \in [Threads -> MainPc \cup GpuPc] /\ pc[0] \in MainPc /\ 0 \in Threads
  BY Indexing DEF PlanInv, PcTyped
<1> DEFINE Keeps == /\ UNCHANGED plan
                    /\ pc' \in [Threads -> MainPc \cup GpuPc] /\ pc'[0] \in MainPc
                    /\ pc'[0] \in {"prepare", "over"} \/ pc[0] \notin {"prepare", "over"}
<1>k. Keeps => PlanInv'
  BY PlanKept DEF PcTyped
<1>1. CASE PrepareFails
  BY <1>1, <1>k, <1>t DEF PrepareFails, MainPc
<1>2. CASE Start
  BY <1>2, <1>k, <1>t DEF Start, MainPc, GpuPc
<1>3. CASE SpawnFails \/ CpuFails
  <2>1. UNCHANGED plan /\ pc'[0] = "over" /\ pc' \in [Threads -> MainPc \cup GpuPc]
    BY <1>3, <1>t DEF SpawnFails, CpuFails, Unwind, MainPc
  <2> QED BY <1>k, <2>1 DEF MainPc
<1>4. CASE ReduceCpu
  BY <1>4, <1>k, <1>t DEF ReduceCpu, MainPc
<1>5. ASSUME NEW g \in Gpus, Spawn(g) PROVE PlanInv'
  <2>1. g # 0 /\ g \in Threads
    BY Indexing
  <2>2. PICK p \in {"cpu", "join", "spawn"} : pc' = [pc EXCEPT ![g] = "reduce", ![0] = p]
    BY <1>5 DEF Spawn, AfterSpawn
  <2>3. pc' \in [Threads -> MainPc \cup GpuPc] /\ pc'[0] = p
    BY <1>t, <2>1, <2>2 DEF MainPc, GpuPc
  <2>4. UNCHANGED plan /\ pc[0] = "spawn"
    BY <1>5 DEF Spawn
  <2> QED BY <1>k, <2>3, <2>4 DEF MainPc
<1>6. ASSUME NEW g \in Gpus, ReduceGpu(g) \/ GpuFails(g) PROVE PlanInv'
  <2>1. g # 0 /\ g \in Threads
    BY Indexing
  <2>2. UNCHANGED plan /\ pc' = [pc EXCEPT ![g] = "exited"]
    BY <1>6 DEF ReduceGpu, GpuFails
  <2>3. pc' \in [Threads -> MainPc \cup GpuPc] /\ pc'[0] = pc[0]
    BY <1>t, <2>1, <2>2 DEF GpuPc
  <2> QED BY <1>k, <1>t, <2>2, <2>3
<1>7. CASE Join
  <2>1. /\ UNCHANGED plan /\ pc[0] = "join" /\ pc'[0] \in {"over", "merge"}
        /\ pc' \in [Threads -> MainPc \cup GpuPc]
    BY <1>7, <1>t DEF Join, MainPc, GpuPc
  <2> QED BY <1>k, <2>1 DEF MainPc
<1>8. CASE MergeGpu \/ Finished \/ UNCHANGED vars
  <2>1. UNCHANGED plan /\ pc' = pc
    BY <1>8 DEF MergeGpu, Finished, vars, plan
  <2> QED BY <1>k, <1>t, <2>1
<1>9. CASE Return
  BY <1>9, <1>k, <1>t DEF Return, MainPc
<1> HIDE DEF Keeps
<1> QED BY <1>1, <1>2, <1>3, <1>4, <1>5, <1>6, <1>7, <1>8, <1>9, PlanProfile, PlanPartition DEF Next

LEMMA PlanInvariant == Spec => []PlanInv
BY PlanInit, PlanStep, PTL DEF Spec

\* The part of it the rest of the proof relies on.
Tiled ==
  /\ ranges \in [Engines -> DataRange]
  /\ pc[0] \notin {"prepare", "over"} =>
       \A e \in Elements : \E i \in Engines :
         e \in Span(ranges[i]) /\ \A j \in Engines \ {i} : e \notin Span(ranges[j])

LEMMA PlanTiled == PlanInv => Tiled
BY DEF PlanInv, Tiled, Tiles

-----------------------------------------------------------------------------
(* Threads, results and merge *)

\* What thread t contributes to a call.
Own(t) == IF t \in Engines THEN Fold(ranges[t]) ELSE Identity

Types ==
  /\ hybrid \in BOOLEAN
  /\ pc \in [Threads -> MainPc \cup GpuPc] /\ pc[0] \in MainPc
  /\ results \in [Threads -> [Elements -> Nat]]
  /\ merged \in 0 .. G
  /\ value \in [Elements -> Nat]

\* Where the GPU threads are, for each place of the calling thread.
PhaseInv ==
  /\ pc[0] \in {"prepare", "idle"} => \A g \in Gpus : pc[g] \in {"off", "joined"}
  /\ pc[0] = "spawn" => \A g \in Gpus : pc[g] \in {"off", "reduce", "exited"}
  /\ pc[0] = "cpu" => hybrid
  /\ pc[0] \in {"cpu", "join"} => \A g \in Gpus : pc[g] \in {"reduce", "exited"}
  /\ pc[0] = "merge" => \A g \in Gpus : pc[g] = "joined"
  /\ pc[0] = "over" => \A g \in Gpus : pc[g] \in {"off", "joined", "over"}

\* What each thread has written.
ResultInv ==
  /\ \A t \in Threads : results[t] \in {Identity, Own(t)}
  /\ pc[0] = "prepare" => \A t \in Threads : results[t] = Identity
  /\ pc[0] \in {"spawn", "cpu"} => results[0] = Identity
  /\ pc[0] \in {"join", "merge"} => results[0] = Own(0)
  /\ \A g \in Gpus : pc[g] = "reduce" \/ (pc[0] = "spawn" /\ pc[g] = "off") => results[g] = Identity
  /\ \A g \in Gpus : pc[g] = "exited" => g \in errors \/ results[g] = Own(g)
  /\ pc[0] = "merge" => \A g \in Gpus : results[g] = Own(g)

MergeInv ==
  /\ pc[0] \in {"spawn", "cpu", "join"} => merged = 0
  /\ pc[0] = "merge" =>
       \A e \in Elements : value[e] = IF \E t \in 0 .. merged : results[t][e] > 0 THEN 1 ELSE 0

IInv == Types /\ PhaseInv /\ ResultInv /\ MergeInv

LEMMA InitInv == Init => IInv
<1> SUFFICES ASSUME Init PROVE IInv
  OBVIOUS
<1>1. Types
  BY Indexing DEF Init, Types, Identity, MainPc, GpuPc
<1>2. PhaseInv /\ MergeInv
  BY Indexing DEF Init, PhaseInv, MergeInv
<1>3. ResultInv
  BY Indexing DEF Init, ResultInv
<1> QED BY <1>1, <1>2, <1>3 DEF IInv

\* Threads whose results contain the same element are the same.
LEMMA Single ==
  ASSUME Tiled, Types, ResultInv, pc[0] \notin {"prepare", "over"}, NEW e \in Elements
  PROVE  /\ \A t \in Threads : results[t][e] \in {0, 1}
         /\ \A t \in Threads : results[t][e] > 0 => t \in Engines /\ e \in Span(ranges[t])
         /\ \A t, u \in Threads : results[t][e] > 0 /\ results[u][e] > 0 => t = u
<1>1. ASSUME NEW t \in Threads
      PROVE  /\ results[t][e] \in {0, 1}
             /\ results[t][e] > 0 => t \in Engines /\ e \in Span(ranges[t])
  <2>1. CASE results[t] = Identity
    BY <2>1 DEF Identity
  <2>2. CASE results[t] # Identity
    <3>1. results[t] = Fold(ranges[t]) /\ t \in Engines
      BY <2>2 DEF ResultInv, Own
    <3>2. results[t][e] = IF e \in Span(ranges[t]) THEN 1 ELSE 0
      BY <3>1 DEF Fold
    <3> QED BY <3>1, <3>2
  <2> QED BY <2>1, <2>2
<1>2. \A t, u \in Engines : e \in Span(ranges[t]) /\ e \in Span(ranges[u]) => t = u
  BY DEF Tiled
<1> QED BY <1>1, <1>2

\* A call without an own range of the calling thread owes nothing to it.
LEMMA NothingOwn ==
  ASSUME Tiled, ~ (hybrid /\ ranges[0].count > 0)
  PROVE  Own(0) = Identity
<1>1. CASE 0 \notin Engines
  BY <1>1 DEF Own
<1>2. CASE 0 \in Engines
  <2>1. hybrid
    BY <1>2, Indexing DEF Engines
  <2>2. ranges[0].offset \in Nat /\ ranges[0].count = 0
    BY <1>2, <2>1 DEF Tiled, DataRange
  <2>3. Span(ranges[0]) = {}
    BY <2>2 DEF Span
  <2> QED BY <1>2, <2>3 DEF Own, Fold, Identity
<1> QED BY <1>1, <1>2

LEMMA PrepareInv == ASSUME IInv, Profile \/ Partition \/ PrepareFails PROVE IInv'
<1>1. /\ pc[0] = "prepare" /\ UNCHANGED <<hybrid, results, errors, merged, value>>
      /\ \E p \in {"prepare", "idle", "over"} : pc' = [pc EXCEPT ![0] = p]
  BY DEF IInv, Types, Profile, Partition, PrepareFails, plan
<1>2. pc'[0] \in {"prepare", "idle", "over"} /\ \A g \in Gpus : pc'[g] = pc[g]
  BY <1>1, Indexing DEF IInv, Types
<1>3. Types'
  BY <1>1, <1>2, Indexing DEF IInv, Types, MainPc
<1>4. \A g \in Gpus : pc'[g] \in {"off", "joined"}
  BY <1>1, <1>2 DEF IInv, PhaseInv
<1>5. \A t \in Threads : results'[t] = Identity
  BY <1>1 DEF IInv, ResultInv
<1>6. PhaseInv' /\ MergeInv'
  BY <1>2, <1>4 DEF PhaseInv, MergeInv
<1>7. ResultInv'
  BY <1>2, <1>4, <1>5, Indexing DEF ResultInv
<1> QED BY <1>3, <1>6, <1>7 DEF IInv

LEMMA StartInv == ASSUME IInv, Start PROVE IInv'
<1>1. /\ pc'[0] = "spawn" /\ \A g \in Gpus : pc'[g] = "off"
      /\ \A t \in Threads : results'[t] = Identity
  BY Indexing DEF Start
<1>2. Types'
  BY <1>1 DEF Start, IInv, Types, Identity, MainPc, GpuPc, plan
<1>3. PhaseInv' /\ MergeInv'
  BY <1>1 DEF Start, PhaseInv, MergeInv
<1>4. ResultInv'
  BY <1>1, Indexing DEF ResultInv
<1> QED BY <1>2, <1>3, <1>4 DEF IInv

LEMMA SpawnInv == ASSUME IInv, Tiled, NEW g \in Gpus, Spawn(g) PROVE IInv'
<1>1. /\ pc[0] = "spawn" /\ pc[g] = "off" /\ g # 0
      /\ UNCHANGED <<hybrid, ranges, results, errors, merged, value>>
      /\ \A t : Own(t)' = Own(t)
  BY Indexing DEF Spawn, Unspawned, plan, Own, Fold, Engines
<1>2. /\ pc'[g] = "reduce" /\ \A h \in Gpus \ {g} : pc'[h] = pc[h]
      /\ pc'[0] = IF Unspawned = {g} THEN AfterSpawn ELSE "spawn"
      /\ pc' \in [Threads -> MainPc \cup GpuPc]
  BY <1>1, Indexing DEF Spawn, IInv, Types, AfterSpawn, MainPc, GpuPc
<1>3. Types'
  BY <1>1, <1>2 DEF IInv, Types, AfterSpawn, MainPc
<1>4. pc'[0] # "spawn" => \A h \in Gpus \ {g} : pc[h] # "off"
  BY <1>2 DEF Unspawned
<1>5. pc'[0] \in {"spawn", "cpu", "join"}
  BY <1>2 DEF AfterSpawn
<1>6. \A h \in Gpus : pc[h] \in {"off", "reduce", "exited"}
  BY <1>1 DEF IInv, PhaseInv
<1>7. PhaseInv'
  BY <1>1, <1>2, <1>4, <1>5, <1>6 DEF PhaseInv, AfterSpawn
<1>8. results[0] = Identity /\ (pc'[0] = "join" => Own(0) = Identity)
  BY <1>1, <1>2, NothingOwn DEF IInv, ResultInv, AfterSpawn
<1>9. \A h \in Gpus : pc[h] \in {"off", "reduce"} => results[h] = Identity
  BY <1>1 DEF IInv, ResultInv
<1>10. ResultInv'
  BY <1>1, <1>2, <1>5, <1>6, <1>8, <1>9 DEF IInv, ResultInv
<1>11. MergeInv'
  BY <1>1, <1>5 DEF IInv, MergeInv
<1> QED BY <1>3, <1>7, <1>10, <1>11 DEF IInv

LEMMA UnwindInv == ASSUME IInv, SpawnFails \/ CpuFails PROVE IInv'
<1>1. /\ UNCHANGED <<hybrid, ranges, results, errors, merged, value>>
      /\ pc'[0] = "over" /\ pc' \in [Threads -> MainPc \cup GpuPc]
      /\ \A g \in Gpus : pc'[g] \in {"off", "over"}
      /\ \A t : Own(t)' = Own(t)
  <2>1. Unwind
    BY DEF SpawnFails, CpuFails
  <2>2. CASE Unspawned = Gpus
    BY <2>1, <2>2, Indexing DEF Unwind, Unspawned, IInv, Types, MainPc, plan, Own, Fold, Engines
  <2>3. CASE Unspawned # Gpus
    BY <2>1, <2>3, Indexing DEF Unwind, MainPc, plan, Own, Fold, Engines
  <2> QED BY <2>2, <2>3
<1>2. Types'
  BY <1>1 DEF IInv, Types, MainPc
<1>3. PhaseInv' /\ MergeInv'
  BY <1>1 DEF PhaseInv, MergeInv
<1>4. ResultInv'
  BY <1>1 DEF IInv, ResultInv
<1> QED BY <1>2, <1>3, <1>4 DEF IInv

LEMMA FoldTyped == \A r : Fold(r) \in [Elements -> Nat]
BY DEF Fold

LEMMA ReduceCpuInv == ASSUME IInv, ReduceCpu PROVE IInv'
<1>1. /\ pc[0] = "cpu" /\ UNCHANGED <<hybrid, ranges, errors, merged, value>>
      /\ pc'[0] = "join" /\ pc' \in [Threads -> MainPc \cup GpuPc] /\ \A g \in Gpus : pc'[g] = pc[g]
      /\ \A t : Own(t)' = Own(t)
      /\ results'[0] = Own(0) /\ \A g \in Gpus : results'[g] = results[g]
      /\ results' \in [Threads -> [Elements -> Nat]]
  BY Indexing, FoldTyped DEF ReduceCpu, IInv, Types, PhaseInv, MainPc, GpuPc, plan, Own, Fold, Engines
<1>2. Types'
  BY <1>1 DEF IInv, Types, MainPc
<1>3. PhaseInv' /\ MergeInv'
  BY <1>1 DEF IInv, PhaseInv, MergeInv
<1>4. ResultInv'
  BY <1>1, Indexing DEF IInv, ResultInv
<1> QED BY <1>2, <1>3, <1>4 DEF IInv

LEMMA GpuInv == ASSUME IInv, NEW g \in Gpus, ReduceGpu(g) \/ GpuFails(g) PROVE IInv'
<1>1. /\ pc[g] = "reduce" /\ UNCHANGED <<hybrid, ranges, merged, value>>
      /\ pc'[g] = "exited" /\ \A t \in Threads \ {g} : pc'[t] = pc[t] /\ results'[t] = results[t]
      /\ pc' \in [Threads -> MainPc \cup GpuPc]
      /\ \A t : Own(t)' = Own(t)
      /\ errors \subseteq errors'
      /\ results'[g] = Own(g) \/ (g \in errors' /\ results'[g] = results[g])
      /\ results' \in [Threads -> [Elements -> Nat]]
  <2>1. pc' = [pc EXCEPT ![g] = "exited"] /\ pc \in [Threads -> MainPc \cup GpuPc]
    BY DEF ReduceGpu, GpuFails, IInv, Types
  <2>2. pc'[g] = "exited" /\ pc' \in [Threads -> MainPc \cup GpuPc]
        /\ \A t \in Threads \ {g} : pc'[t] = pc[t]
    BY <2>1, Indexing DEF GpuPc
  <2>3. CASE ReduceGpu(g)
    BY <2>2, <2>3, Indexing, FoldTyped DEF ReduceGpu, IInv, Types, plan, Own, Fold, Engines
  <2>4. CASE GpuFails(g)
    BY <2>2, <2>4, Indexing DEF GpuFails, IInv, Types, plan, Own, Fold, Engines
  <2> QED BY <2>3, <2>4
<1>2. pc'[0] = pc[0] /\ results'[0] = results[0] /\ pc[0] \in {"spawn", "cpu", "join"}
  BY <1>1, Indexing DEF IInv, Types, PhaseInv, MainPc
<1>3. Types'
  BY <1>1, <1>2 DEF IInv, Types
<1>4. PhaseInv' /\ MergeInv'
  BY <1>1, <1>2, Indexing DEF IInv, PhaseInv, MergeInv
<1>5. ResultInv'
  BY <1>1, <1>2, Indexing DEF IInv, ResultInv
<1> QED BY <1>3, <1>4, <1>5 DEF IInv

LEMMA JoinInv == ASSUME IInv, Tiled, Join PROVE IInv'
<1>1. /\ pc[0] = "join" /\ UNCHANGED <<hybrid, ranges, results, errors, merged>>
      /\ \A g \in Gpus : pc[g] = "exited" /\ pc'[g] = "joined"
      /\ pc' \in [Threads -> MainPc \cup GpuPc]
      /\ pc'[0] = IF errors # {} THEN "over" ELSE "merge"
      /\ \A t : Own(t)' = Own(t)
  BY Indexing DEF Join, AllExited, CallFailed, IInv, Types, MainPc, GpuPc, plan, Own, Fold, Engines
<1>2. Types'
  BY <1>1, Indexing DEF Join, IInv, Types, MainPc
<1>3. PhaseInv'
  BY <1>1 DEF PhaseInv
<1>4. ResultInv'
  BY <1>1, Indexing DEF IInv, ResultInv
<1>5. MergeInv'
  <2> SUFFICES ASSUME errors = {}
               PROVE  \A e \in Elements :
                        value'[e] = IF \E t \in 0 .. merged : results[t][e] > 0 THEN 1 ELSE 0
    BY <1>1 DEF MergeInv
  <2>1. value' = results[0] /\ merged = 0
    BY <1>1 DEF Join, CallFailed, IInv, MergeInv
  <2>2. \A e \in Elements : results[0][e] \in {0, 1}
    BY <1>1, Single, Indexing DEF IInv
  <2>3. \A t : t \in 0 .. merged <=> t = 0
    BY <2>1
  <2> QED BY <2>1, <2>2, <2>3
<1> QED BY <1>2, <1>3, <1>4, <1>5 DEF IInv

LEMMA MergeGpuInv == ASSUME IInv, Tiled, MergeGpu PROVE IInv'
<1>1. /\ pc[0] = "merge" /\ UNCHANGED <<hybrid, ranges, pc, results, errors>>
      /\ merged' = merged + 1 /\ merged + 1 \in 1 .. G /\ merged \in Nat
      /\ \A t : Own(t)' = Own(t)
  BY DEF MergeGpu, IInv, Types, plan, Own, Fold, Engines
<1>2. PICK u \in Threads : u = merged + 1
  BY <1>1 DEF Threads
<1>3. /\ results \in [Threads -> [Elements -> Nat]] /\ value \in [Elements -> Nat]
      /\ value' = [e \in Elements |-> value[e] + results[u][e]]
  BY <1>2 DEF MergeGpu, Merge, Combine, IInv, Types
<1>4. Types'
  BY <1>1, <1>2, <1>3 DEF IInv, Types
<1>5. MergeInv'
  <2> SUFFICES ASSUME NEW e \in Elements
               PROVE  value'[e] = IF \E t \in 0 .. merged + 1 : results[t][e] > 0 THEN 1 ELSE 0
    BY <1>1 DEF MergeInv
  <2>1. value[e] = IF \E t \in 0 .. merged : results[t][e] > 0 THEN 1 ELSE 0
    BY <1>1 DEF IInv, MergeInv
  <2>2. results[u][e] \in {0, 1}
    BY <1>1, Single DEF IInv
  <2>3. results[u][e] > 0 => \A t \in 0 .. merged : ~(results[t][e] > 0)
    <3>1. \A t \in 0 .. merged : t \in Threads /\ t # u
      BY <1>1, <1>2 DEF Threads
    <3> QED BY <1>1, <3>1, Single DEF IInv
  <2>4. \A t : t \in 0 .. merged + 1 <=> t = u \/ t \in 0 .. merged
    BY <1>1, <1>2
  <2>5. value'[e] = value[e] + results[u][e]
    BY <1>3
  <2>6. CASE results[u][e] = 1
    BY <2>1, <2>3, <2>4, <2>5, <2>6
  <2>7. CASE results[u][e] = 0
    BY <2>1, <2>4, <2>5, <2>7
  <2> QED BY <2>2, <2>6, <2>7
<1>6. PhaseInv' /\ ResultInv'
  BY <1>1 DEF IInv, PhaseInv, ResultInv
<1> QED BY <1>4, <1>5, <1>6 DEF IInv

LEMMA QuietInv == ASSUME IInv, Return \/ Finished \/ UNCHANGED vars PROVE IInv'
<1>1. /\ UNCHANGED <<hybrid, ranges, results, errors, merged, value>>
      /\ \A t : Own(t)' = Own(t)
  BY DEF Return, Finished, vars, plan, Own, Fold, Engines
<1>2. CASE Return
  <2>1. pc[0] = "merge" /\ pc'[0] = "idle" /\ pc' \in [Threads -> MainPc \cup GpuPc]
        /\ \A g \in Gpus : pc'[g] = "joined"
    BY <1>2, Indexing DEF Return, IInv, Types, PhaseInv, MainPc
  <2>2. Types'
    BY <1>1, <2>1 DEF IInv, Types, MainPc
  <2>3. PhaseInv' /\ ResultInv' /\ MergeInv'
    BY <1>1, <2>1 DEF IInv, PhaseInv, ResultInv, MergeInv
  <2> QED BY <2>2, <2>3 DEF IInv
<1>3. CASE Finished \/ UNCHANGED vars
  <2>1. pc' = pc
    BY <1>3 DEF Finished, vars
  <2> QED BY <1>1, <2>1 DEF IInv, Types, PhaseInv, ResultInv, MergeInv
<1> QED BY <1>2, <1>3

LEMMA NextInv == IInv /\ Tiled /\ [Next]_vars => IInv'
BY PrepareInv, StartInv, SpawnInv, UnwindInv, ReduceCpuInv, GpuInv, JoinInv, MergeGpuInv, QuietInv
   DEF Next

\* The invariants hold of every reachable state.
THEOREM Invariance == Spec => [](PlanInv /\ IInv)
BY InitInv, NextInv, PlanInvariant, PlanTiled, PTL DEF Spec

\* No GPU thread of run_once goes on reducing once the calling thread merges, has
\* returned or has thrown: its results are those the merge reads.
THEOREM ThreadsJoined ==
  Spec =>
    [](pc[0] \in {"idle", "merge", "over"} => \A g \in Gpus : pc[g] \notin {"reduce", "exited"})
<1>1. IInv => (pc[0] \in {"idle", "merge", "over"} => \A g \in Gpus : pc[g] \notin {"reduce", "exited"})
  BY DEF IInv, PhaseInv
<1> QED BY <1>1, Invariance, PTL

-----------------------------------------------------------------------------
(* Refinement *)

LEMMA QuietStep ==
  ASSUME UNCHANGED <<returned, results>>, Phase' = Phase \/ Phase' = "over"
  PROVE  [Abstract!Next]_(Abstract!absVars)
<1>1. Absorbed' = Absorbed /\ Phase \in {"idle", "over", "running"}
  BY DEF Absorbed, Phase
<1> QED BY <1>1 DEF Abstract!Next, Abstract!Fail, Abstract!absVars

\* A thread that had contributed nothing writes the value of its range.
LEMMA AbsorbStep ==
  ASSUME IInv, Tiled, NEW t \in Engines, results[t] = Identity,
         results' = [results EXCEPT ![t] = Fold(ranges[t])],
         pc[0] \notin {"prepare", "over"}, Phase = "running", Phase' = "running", returned' = returned
  PROVE  [Abstract!Next]_(Abstract!absVars)
<1> DEFINE S == {e \in Elements : e \in Span(ranges[t])}
<1>1. t \in Threads /\ results \in [Threads -> [Elements -> Nat]]
  BY Indexing DEF IInv, Types
<1>2. /\ \A e \in Elements : results'[t][e] = IF e \in S THEN 1 ELSE 0
      /\ \A u \in Threads \ {t} : results'[u] = results[u]
      /\ \A e \in Elements : results[t][e] = 0
  BY <1>1 DEF Fold, Identity
<1>3. Absorbed' = Absorbed \cup S
  BY <1>1, <1>2 DEF Absorbed
<1>4. S \subseteq Elements \ Absorbed
  <2> SUFFICES ASSUME NEW e \in S, NEW u \in Threads, results[u][e] > 0 PROVE FALSE
    BY DEF Absorbed
  <2>1. u # t /\ u \in Engines /\ e \in Span(ranges[u])
    BY <1>2, Single DEF IInv
  <2> QED BY <2>1 DEF Tiled
<1> QED BY <1>3, <1>4 DEF Abstract!Next, Abstract!Absorb, Abstract!Elements, Elements

LEMMA ReturnStep ==
  ASSUME IInv, Tiled, Return
  PROVE  [Abstract!Next]_(Abstract!absVars)
<1>1. /\ pc[0] = "merge" /\ merged = G /\ returned' = value /\ value \in [Elements -> Nat]
      /\ results' = results /\ pc'[0] = "idle"
  BY Indexing DEF Return, IInv, Types
<1>2. ASSUME NEW e \in Elements PROVE \E t \in Threads : results[t][e] > 0
  <2>1. PICK i \in Engines : e \in Span(ranges[i])
    BY <1>1 DEF Tiled
  <2>2. i \in Threads /\ results[i] = Own(i)
    BY <1>1, Indexing DEF IInv, ResultInv
  <2>3. results[i][e] = 1
    BY <2>1, <2>2 DEF Own, Fold
  <2> QED BY <2>2, <2>3
<1>3. Absorbed = Elements /\ Absorbed' = Elements
  BY <1>1, <1>2 DEF Absorbed
<1>4. \A e \in Elements : value[e] = 1
  BY <1>1, <1>2 DEF IInv, MergeInv, Threads
<1>5. returned' = [e \in Elements |-> 1]
  BY <1>1, <1>4
<1>6. Phase = "running" /\ Phase' = "idle"
  BY <1>1 DEF Phase
<1> QED BY <1>3, <1>5, <1>6
        DEF Abstract!Next, Abstract!Return, Abstract!Elements, Abstract!Total, Elements

LEMMA AbstractInit == Init => Abstract!Init
BY Indexing DEF Init, Abstract!Init, Phase, Absorbed, Identity, Abstract!Identity,
   Abstract!Elements, Elements

LEMMA AbstractStep == IInv /\ Tiled /\ [Next]_vars => [Abstract!Next]_(Abstract!absVars)
<1> SUFFICES ASSUME IInv, Tiled, [Next]_vars PROVE [Abstract!Next]_(Abstract!absVars)
  OBVIOUS
<1>t. pc \in [Threads -> MainPc \cup GpuPc] /\ pc[0] \in MainPc /\ 0 \in Threads
  BY Indexing DEF IInv, Types
<1>1. CASE Start
  <2>1. Phase = "idle" /\ Phase' = "running" /\ Absorbed' = {} /\ returned' = returned
    BY <1>1, Indexing DEF Start, Phase, Absorbed, Identity
  <2> QED BY <2>1 DEF Abstract!Next, Abstract!Start
<1>2. CASE Profile \/ Partition \/ PrepareFails
  <2>1. pc[0] = "prepare" /\ pc'[0] \in {"prepare", "idle", "over"} /\ UNCHANGED <<returned, results>>
    BY <1>2, <1>t DEF Profile, Partition, PrepareFails, plan
  <2> QED BY <2>1, QuietStep DEF Phase
<1>3. CASE SpawnFails \/ CpuFails
  <2>1. pc'[0] = "over" /\ UNCHANGED <<returned, results>>
    BY <1>3, <1>t DEF SpawnFails, CpuFails, Unwind
  <2> QED BY <2>1, QuietStep DEF Phase
<1>4. CASE ReduceCpu
  <2>1. pc[0] = "cpu" /\ pc'[0] = "join" /\ returned' = returned
    BY <1>4, <1>t DEF ReduceCpu
  <2>2. 0 \in Engines /\ results[0] = Identity
    BY <2>1, Indexing DEF IInv, PhaseInv, ResultInv, Engines
  <2>3. results' = [results EXCEPT ![0] = Fold(ranges[0])]
    BY <1>4 DEF ReduceCpu
  <2> QED BY <2>1, <2>2, <2>3, AbsorbStep DEF Phase
<1>5. ASSUME NEW g \in Gpus, ReduceGpu(g) PROVE [Abstract!Next]_(Abstract!absVars)
  <2>1. pc[g] = "reduce" /\ pc'[0] = pc[0] /\ returned' = returned
    BY <1>5, <1>t, Indexing DEF ReduceGpu
  <2>2. pc[0] \in {"spawn", "cpu", "join"} /\ results[g] = Identity /\ g \in Engines
    BY <1>t, <2>1, Indexing DEF IInv, PhaseInv, ResultInv, MainPc
  <2>3. results' = [results EXCEPT ![g] = Fold(ranges[g])]
    BY <1>5 DEF ReduceGpu
  <2> QED BY <2>1, <2>2, <2>3, AbsorbStep DEF Phase
<1>6. ASSUME NEW g \in Gpus, Spawn(g) \/ GpuFails(g) PROVE [Abstract!Next]_(Abstract!absVars)
  <2>1. UNCHANGED <<returned, results>>
        /\ (pc'[0] = pc[0] \/ (pc[0] = "spawn" /\ pc'[0] \in {"cpu", "join"}))
    BY <1>6, <1>t, Indexing DEF Spawn, GpuFails, AfterSpawn
  <2> QED BY <2>1, QuietStep DEF Phase
<1>7. CASE Join
  <2>1. pc[0] = "join" /\ pc'[0] \in {"over", "merge"} /\ UNCHANGED <<returned, results>>
    BY <1>7, <1>t DEF Join
  <2> QED BY <2>1, QuietStep DEF Phase
<1>8. CASE MergeGpu \/ Finished \/ UNCHANGED vars
  BY <1>8, QuietStep DEF MergeGpu, Finished, vars, Phase
<1> QED BY <1>1, <1>2, <1>3, <1>4, <1>5, <1>6, <1>7, <1>8, ReturnStep DEF Next

\* Static strategies keep the promise of ParallelReduction: whatever fails, a call of
\* run_once returns only a value that counts each element once.
THEOREM Refinement == Spec => ImplementsReduction
BY Invariance, PlanTiled, AbstractInit, AbstractStep, PTL DEF Spec, ImplementsReduction, Abstract!Spec

-----------------------------------------------------------------------------
(* Types and ranges *)

\* The rest of the type invariant: what a call counts, element by element.
Rest ==
  /\ replica \in 0 .. Replicas - 1
  /\ results \in [Threads -> [Elements -> 0 .. 1]]
  /\ errors \subseteq Gpus
  /\ value \in [Elements -> 0 .. 1]
  /\ returned \in [Elements -> 0 .. 1]
  /\ outcome \in {"none", "ok", "threw", "aborted"}
  /\ calls \in 0 .. MaxCalls

LEMMA NextReplica == \A r \in Nat : (r + 1) % Replicas \in 0 .. Replicas - 1
BY StaticAssumption

LEMMA BitsIdentity == Identity \in [Elements -> 0 .. 1] /\ \A r : Fold(r) \in [Elements -> 0 .. 1]
BY DEF Identity, Fold

LEMMA RestInit == Init => Rest
BY StaticAssumption, BitsIdentity DEF Init, Rest

LEMMA RestStep == ASSUME Rest, IInv, IInv', [Next]_vars PROVE Rest'
<1>r. replica \in Nat /\ (replica + 1) % Replicas \in 0 .. Replicas - 1
  BY NextReplica, StaticAssumption DEF Rest
<1>1. CASE Profile
  BY <1>1, <1>r DEF Profile, Rest
<1>2. CASE Partition \/ PrepareFails
  BY <1>2 DEF Partition, PrepareFails, plan, Rest
<1>3. CASE Start
  <2>1. calls' \in 0 .. MaxCalls
    BY <1>3, StaticAssumption DEF Start, Rest
  <2>2. results' \in [Threads -> [Elements -> 0 .. 1]] /\ value' \in [Elements -> 0 .. 1]
    BY <1>3, BitsIdentity DEF Start
  <2>3. replica' \in 0 .. Replicas - 1
    BY <1>3, <1>r DEF Start, Rest
  <2> QED BY <1>3, <2>1, <2>2, <2>3 DEF Start, Rest
<1>4. CASE SpawnFails \/ CpuFails
  BY <1>4 DEF SpawnFails, CpuFails, Unwind, plan, Rest
<1>5. CASE ReduceCpu
  BY <1>5, BitsIdentity DEF ReduceCpu, plan, Rest
<1>6. ASSUME NEW g \in Gpus, Spawn(g) \/ ReduceGpu(g) \/ GpuFails(g) PROVE Rest'
  <2>1. CASE Spawn(g)
    BY <2>1 DEF Spawn, plan, Rest
  <2>2. CASE ReduceGpu(g)
    BY <2>2, BitsIdentity DEF ReduceGpu, plan, Rest
  <2>3. CASE GpuFails(g)
    BY <2>3 DEF GpuFails, plan, Rest
  <2> QED BY <1>6, <2>1, <2>2, <2>3
<1>7. CASE Join
  <2>1. results[0] \in [Elements -> 0 .. 1]
    BY Indexing DEF Rest
  <2>2. value' \in [Elements -> 0 .. 1] /\ outcome' \in {"none", "ok", "threw", "aborted"}
    BY <1>7, <2>1 DEF Join, Rest
  <2> QED BY <1>7, <2>2 DEF Join, plan, Rest
<1>8. CASE MergeGpu
  <2>1. pc'[0] = "merge" /\ value' \in [Elements -> Nat]
    BY <1>8 DEF MergeGpu, IInv, Types
  <2>2. \A e \in Elements : value'[e] \in 0 .. 1
    BY <2>1 DEF IInv, MergeInv
  <2>3. value' \in [Elements -> 0 .. 1]
    BY <2>1, <2>2
  <2> QED BY <1>8, <2>3 DEF MergeGpu, plan, Rest
<1>9. CASE Return \/ Finished \/ UNCHANGED vars
  BY <1>9 DEF Return, Finished, vars, plan, Rest
<1> QED BY <1>1, <1>2, <1>3, <1>4, <1>5, <1>6, <1>7, <1>8, <1>9 DEF Next

LEMMA RestInvariant == Spec => []Rest
BY Invariance, RestInit, RestStep, PTL DEF Spec

LEMMA Bits == 0 .. 1 \subseteq 0 .. G + 1
OBVIOUS

LEMMA TypesFollow == PlanInv /\ IInv /\ Rest => TypeOK
<1> SUFFICES ASSUME PlanInv, IInv, Rest PROVE TypeOK
  OBVIOUS
<1>1. /\ {streamed, hybrid, profiled} \subseteq BOOLEAN
      /\ ranges \in [Engines -> DataRange] /\ capacity \in [Gpus -> 0 .. N] /\ sample \in DataRange
  BY DEF PlanInv
<1>2. pc \in [Threads -> {"prepare", "idle", "spawn", "cpu", "join", "merge", "over",
                          "off", "reduce", "exited", "joined"}]
  BY DEF PlanInv, PcTyped, MainPc, GpuPc
<1>3. value \in [Elements -> 0 .. G + 1] /\ returned \in [Elements -> 0 .. G + 1]
  BY Bits DEF Rest
<1> QED BY <1>1, <1>2, <1>3 DEF IInv, Types, Rest, TypeOK

\* Every variable of the strategy has its type in every reachable state.
THEOREM TypeCorrect == Spec => []TypeOK
BY Invariance, RestInvariant, TypesFollow, PTL

LEMMA RangesFollow == PlanInv /\ TypeOK => RangesTile
BY DEF PlanInv, Tiles, Fits, RangesTile

\* The ranges tile the dataset for every dataset, number of GPUs, kind of
\* partition and prediction of what an engine can do, each fits the reducer made
\* for it, and calibration samples lie inside the dataset.
THEOREM Tiling == Spec => []RangesTile
BY Invariance, TypeCorrect, RangesFollow, PTL
=============================================================================
