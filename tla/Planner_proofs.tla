--------------------------- MODULE Planner_proofs ---------------------------
(***************************************************************************)
(* Proofs about Planner, for every machine, request and number of GPUs.    *)
(* IInv says what the control threads assigned so far have in common and   *)
(* what they leave of the pool; a task emitted inherits it.                *)
(***************************************************************************)
EXTENDS Planner, SequenceTheorems, FiniteSetTheorems, WellFoundedInduction, TLAPS

Dedicated == request.mode = "dedicated"

\* What is left of pool p when bs are the control threads.
LeftOf(p, bs) == {c \in p : Dedicated => Core(c) \notin CoresOf(bs)}

\* Locality gives way only to the GPUs before.
Local(g, c, earlier) ==
  LET best == LocalCpus(g) \cap CpuPool(request.hw)
  IN c \notin best => \A d \in best : Core(d) \in CoresOf(earlier)

\* The control threads bs of the first GPUs of set s.
Sound(s, bs) ==
  /\ bs \in Seq(Binding) /\ Len(bs) <= Len(s)
  /\ \A i \in DOMAIN bs : bs[i].gpu = s[i] /\ Local(s[i], bs[i].cpu, Earlier(bs, i - 1))
  /\ Separate(bs)
  /\ (\E i \in DOMAIN bs : bs[i].cpu \notin CpuPool(request.hw)) /\ Dedicated
       => LeftOf(CpuPool(request.hw), bs) = {}

AssignInv ==
  /\ pc # "refused" => reason = "none"
  /\ pool \subseteq Usable
  /\ pc = "assign" =>
       /\ pool = CpuPool(request.hw) /\ remaining = LeftOf(pool, bindings)
       /\ Sound(gpus, bindings)

TaskSound(t) ==
  /\ t.gpus \in Seq(Gpus) /\ Sound(t.gpus, t.bindings) /\ Len(t.bindings) = Len(t.gpus)
  /\ t.affinity = IF Algo.cpu THEN LeftOf(CpuPool(request.hw), t.bindings) ELSE {}
  /\ Algo.cpu => t.affinity # {}
  /\ t.params \in ValidParams

IInv == TypeOK /\ AssignInv /\ (\A t \in tasks : TaskSound(t)) /\ RefusedOnlyIfShort

-----------------------------------------------------------------------------
(* Helpers *)

\* A nonempty set of naturals has a least element, and Least finds it.
LEMMA LeastShape ==
  ASSUME NEW S, S \subseteq Nat, S # {}
  PROVE  Least(S) \in S /\ \A d \in S : Least(S) <= d
<1> DEFINE R == OpToRel(<, Nat)
<1>1. IsWellFoundedOn(R, Nat)
  BY NatLessThanWellFounded
<1>2. \E x \in S : \A y \in S : ~(<<y, x>> \in R)
  <2> HIDE DEF R
  <2> QED BY <1>1, WFMin
<1>3. PICK x \in S : \A y \in S : ~(<<y, x>> \in R)
  BY <1>2
<1>4. R = {ss \in Nat \X Nat : ss[1] < ss[2]}
  BY DEF OpToRel
<1>5. ASSUME NEW y \in S, y < x PROVE FALSE
  <2>1. <<y, x>> \in Nat \X Nat /\ <<y, x>>[1] < <<y, x>>[2]
    BY <1>5
  <2>2. <<y, x>> \in {ss \in Nat \X Nat : ss[1] < ss[2]}
    BY <2>1
  <2> QED BY <1>3, <1>4, <2>2
<1>6. \A y \in S : x <= y
  BY <1>5
<1> QED BY <1>3, <1>6 DEF Least

\* The CPUs of a pool that can be resolved are usable.
LEMMA PoolUsable ==
  ASSUME NEW hw, ~PoolError(hw)
  PROVE  CpuPool(hw) \subseteq Usable
BY DEF PoolError, CpuPool, OnePerCore, Candidates, OnNode

\* Every GPU set that is not refused is a sequence of the machine's GPUs.
LEMMA GpuSetsShape ==
  ASSUME TypeOK, ~GpuSetsRefused
  PROVE  \A s \in GpuSets : s \in Seq(Gpus)
<1>1. CASE ~Algo.gpu \/ Gpus = {}
  <2>1. \A s \in GpuSets : s = <<>>
    BY <1>1 DEF GpuSets
  <2>2. <<>> \in Seq(Gpus)
    BY EmptySeq
  <2> QED BY <2>1, <2>2
<1>2. CASE Algo.gpu /\ Gpus # {}
  <2> TAKE s \in GpuSets
  <2>1. s \in Resolved /\ \A i \in DOMAIN s : s[i] \in Gpus
    BY <1>2 DEF GpuSets, GpuSetsRefused, SetsError
  <2>2. PICK raw \in request.gpuSets : s \in Expansion(raw)
    BY <2>1 DEF Resolved
  <2>3. raw.kind \in {"each", "pairs", "all"} \/ (raw.kind = "list" /\ raw.ids \in Seq(Int))
    BY RequestAssumption DEF TypeOK
  <2>4. s \in Each \/ s \in Pairs \/ s \in Whole \/ s \in Seq(Int)
    BY <2>2, <2>3 DEF Expansion
  <2>5. Cardinality(Gpus) \in Nat
    BY PlannerAssumption, FS_CardinalityType
  <2>6. CASE s \in Each
    <3>1. PICK g \in Gpus : s = <<g>>
      BY <2>6 DEF Each
    <3> QED BY <3>1
  <2>7. CASE s \in Pairs
    <3>1. PICK g \in Gpus, h \in Gpus : s = <<g, h>>
      BY <2>7 DEF Pairs
    <3> QED BY <3>1
  <2>8. CASE s \in Whole
    <3>1. s \in [1 .. Cardinality(Gpus) -> Gpus]
      BY <2>8 DEF Whole, Ids
    <3> QED BY <2>5, <3>1, SeqDef
  <2>9. CASE s \in Seq(Int)
    <3>1. Len(s) \in Nat /\ s \in [1 .. Len(s) -> Int]
      BY <2>9, LenProperties
    <3>2. s \in [1 .. Len(s) -> Gpus]
      BY <2>1, <3>1
    <3> QED BY <3>1, <3>2, SeqDef
  <2> QED BY <2>4, <2>6, <2>7, <2>8, <2>9
<1> QED BY <1>1, <1>2

\* There are never more cores than control threads.
LEMMA CoresCounted ==
  ASSUME NEW bs \in Seq(Binding)
  PROVE  IsFiniteSet(CoresOf(bs)) /\ Cardinality(CoresOf(bs)) <= Len(bs)
<1> DEFINE f == [i \in 1 .. Len(bs) |-> Core(bs[i].cpu)]
<1>1. Len(bs) \in Nat /\ DOMAIN bs = 1 .. Len(bs)
  BY LenProperties
<1>2. f \in Surjection(1 .. Len(bs), CoresOf(bs))
  BY <1>1 DEF Surjection, CoresOf
<1>3. IsFiniteSet(1 .. Len(bs)) /\ Cardinality(1 .. Len(bs)) = Len(bs)
  BY <1>1, FS_Interval
<1> HIDE DEF f
<1> QED BY <1>2, <1>3, FS_Surjection

\* Cores that are all taken are no more than the threads that took them.
LEMMA AllTaken ==
  ASSUME NEW bs \in Seq(Binding), NEW S, \A c \in S : Core(c) \in CoresOf(bs)
  PROVE  Cardinality({Core(c) : c \in S}) \in Nat /\ Cardinality({Core(c) : c \in S}) <= Len(bs)
<1> DEFINE cores == {Core(c) : c \in S}
<1>1. IsFiniteSet(CoresOf(bs)) /\ Cardinality(CoresOf(bs)) <= Len(bs)
  BY CoresCounted
<1>2. cores \in SUBSET CoresOf(bs)
  OBVIOUS
<1> HIDE DEF cores
<1>3. IsFiniteSet(cores) /\ Cardinality(cores) <= Cardinality(CoresOf(bs))
  BY <1>1, <1>2, FS_Subset
<1>4. Cardinality(cores) \in Nat /\ Cardinality(CoresOf(bs)) \in Nat /\ Len(bs) \in Nat
  BY <1>1, <1>3, FS_CardinalityType, LenProperties
<1>5. Cardinality(cores) <= Len(bs)
  BY <1>1, <1>3, <1>4
<1> QED BY <1>4, <1>5 DEF cores

\* The cores of the first k control threads.
LEMMA EarlierCores ==
  ASSUME NEW bs \in Seq(Binding), NEW k \in 0 .. Len(bs)
  PROVE  CoresOf(Earlier(bs, k)) = {Core(bs[i].cpu) : i \in 1 .. k}
<1>1. Len(bs) \in Nat /\ k \in Nat /\ \A i \in 1 .. k : bs[i] \in Binding
  BY LenProperties, ElementOfSeq
<1>2. /\ Earlier(bs, k) \in Seq(Binding) /\ Len(Earlier(bs, k)) = k
      /\ \A i \in 1 .. k : Earlier(bs, k)[i] = bs[i]
  <2>1. /\ SubSeq(bs, 1, k) \in Seq(Binding)
        /\ Len(SubSeq(bs, 1, k)) = IF 1 <= k THEN k - 1 + 1 ELSE 0
        /\ \A i \in 1 .. k - 1 + 1 : SubSeq(bs, 1, k)[i] = bs[1 + i - 1]
    BY <1>1, SubSeqProperties
  <2> QED BY <1>1, <2>1 DEF Earlier
<1>3. DOMAIN Earlier(bs, k) = 1 .. k
  BY <1>2, LenProperties
<1> QED BY <1>2, <1>3 DEF CoresOf

\* Nothing is discovered or requested anew while the planner runs.
LEMMA Frozen ==
  ASSUME machine' = machine, request' = request
  PROVE  /\ Usable' = Usable /\ Binding' = Binding /\ ValidParams' = ValidParams
         /\ CpuPool(request.hw)' = CpuPool(request.hw)
         /\ \A bs : CoresOf(bs)' = CoresOf(bs)
         /\ \A p, bs : LeftOf(p, bs)' = LeftOf(p, bs)
         /\ \A s, bs : Sound(s, bs)' <=> Sound(s, bs)
         /\ \A t : TaskSound(t)' <=> TaskSound(t)
<1>1. Usable' = Usable /\ Binding' = Binding /\ ValidParams' = ValidParams
  BY DEF Usable, Known, Binding, ValidParams, Combinations
<1>2. CpuPool(request.hw)' = CpuPool(request.hw)
  BY DEF CpuPool, OnePerCore, Candidates, OnNode, Usable, Known, Core, Node, CoreClass
<1>3. \A bs : CoresOf(bs)' = CoresOf(bs) /\ (Separate(bs)' <=> Separate(bs))
  BY DEF CoresOf, Separate, Core
<1>4. \A p, bs : LeftOf(p, bs)' = LeftOf(p, bs)
  BY <1>3 DEF LeftOf, Core, Dedicated
<1>5. \A g : LocalCpus(g)' = LocalCpus(g)
  BY DEF LocalCpus, Known, Node
<1>6. \A g, c, bs : Local(g, c, bs)' <=> Local(g, c, bs)
  BY <1>2, <1>3, <1>5 DEF Local, Core
<1>7. \A s, bs : Sound(s, bs)' <=> Sound(s, bs)
  BY <1>1, <1>2, <1>3, <1>4, <1>6 DEF Sound, Dedicated
<1>8. \A t : TaskSound(t)' <=> TaskSound(t)
  BY <1>1, <1>2, <1>4, <1>7 DEF TaskSound, Algo
<1> QED BY <1>1, <1>2, <1>3, <1>4, <1>7, <1>8

-----------------------------------------------------------------------------
LEMMA InitInv == Init => IInv
<1> SUFFICES ASSUME Init PROVE IInv
  OBVIOUS
<1>1. TypeOK
  BY DEF Init, TypeOK
<1>2. AssignInv /\ (\A t \in tasks : TaskSound(t)) /\ RefusedOnlyIfShort
  BY DEF Init, AssignInv, RefusedOnlyIfShort
<1> QED BY <1>1, <1>2 DEF IInv

\* A refusal changes nothing but the reason, which must be right.
LEMMA RefuseInv ==
  ASSUME IInv, NEW why, Refuse(why), pc # "refused",
         why \in {"gpu_sets", "params", "pool", "cores", "no_cpu"},
         why = "cores" => Cardinality({Core(c) : c \in Usable}) < Len(gpus),
         why = "no_cpu" => Cardinality({Core(c) : c \in pool}) <= Len(gpus)
  PROVE  IInv'
<1>1. /\ UNCHANGED <<machine, request, left, gpus, pool, remaining, bindings, tasks, instances>>
      /\ pc' = "refused" /\ reason' = why
  BY DEF Refuse
<1>2. TypeOK'
  BY <1>1, Frozen DEF IInv, TypeOK
<1>3. AssignInv' /\ (\A t \in tasks : TaskSound(t))'
  BY <1>1, Frozen DEF IInv, AssignInv
<1>4. RefusedOnlyIfShort'
  BY <1>1, Frozen DEF RefusedOnlyIfShort, Core
<1> QED BY <1>2, <1>3, <1>4 DEF IInv

LEMMA ResolveInv == IInv /\ Resolve => IInv'
<1> SUFFICES ASSUME IInv, Resolve PROVE IInv'
  OBVIOUS
<1>1. CASE GpuSetsRefused \/ ValidParams = {}
  BY <1>1, RefuseInv DEF Resolve
<1>2. CASE ~GpuSetsRefused /\ ValidParams # {}
  <2>1. /\ UNCHANGED <<machine, request, gpus, pool, remaining, bindings, tasks, instances, reason>>
        /\ left' = GpuSets /\ pc' = "next_set" /\ pc = "resolve"
    BY <1>2 DEF Resolve
  <2>2. \A s \in left' : s \in Seq(Gpus)
    BY <1>2, <2>1, GpuSetsShape DEF IInv
  <2>3. TypeOK'
    BY <2>1, <2>2, Frozen DEF IInv, TypeOK
  <2>4. AssignInv' /\ (\A t \in tasks : TaskSound(t))' /\ RefusedOnlyIfShort'
    BY <2>1, Frozen DEF IInv, AssignInv, RefusedOnlyIfShort
  <2> QED BY <2>3, <2>4 DEF IInv
<1> QED BY <1>1, <1>2

LEMMA TakeSetInv == IInv /\ TakeSet => IInv'
<1> SUFFICES ASSUME IInv, TakeSet PROVE IInv'
  OBVIOUS
<1>1. CASE PoolError(request.hw)
  BY <1>1, RefuseInv DEF TakeSet
<1>2. CASE ~PoolError(request.hw)
  <2>1. PICK s \in left :
          /\ left' = left \ {s} /\ gpus' = s
          /\ pool' = CpuPool(request.hw) /\ remaining' = CpuPool(request.hw)
          /\ bindings' = <<>> /\ pc' = "assign"
          /\ UNCHANGED <<machine, request, tasks, instances, reason>>
    BY <1>2 DEF TakeSet
  <2>2. s \in Seq(Gpus) /\ Len(s) \in Nat /\ CpuPool(request.hw) \subseteq Usable /\ reason = "none"
    BY <1>2, PoolUsable, LenProperties DEF IInv, TypeOK, AssignInv, TakeSet
  <2>3. <<>> \in Seq(Binding) /\ Len(<<>>) = 0 /\ DOMAIN <<>> = {}
    BY EmptySeq
  <2>4. TypeOK'
    BY <2>1, <2>2, <2>3, Frozen DEF IInv, TypeOK
  <2>5. Sound(s, <<>>) /\ LeftOf(CpuPool(request.hw), <<>>) = CpuPool(request.hw)
    BY <2>2, <2>3 DEF Sound, Separate, LeftOf, CoresOf
  <2>6. AssignInv'
    BY <2>1, <2>2, <2>5, Frozen DEF AssignInv
  <2>7. (\A t \in tasks : TaskSound(t))' /\ RefusedOnlyIfShort'
    BY <2>1, <2>2, Frozen DEF IInv, RefusedOnlyIfShort
  <2> QED BY <2>4, <2>6, <2>7 DEF IInv
<1> QED BY <1>1, <1>2

\* A tier that is not open has no free core.
LEMMA TierClosed ==
  ASSUME IInv, pc = "assign", NEW t \in DOMAIN Tiers, t \notin OpenTiers
  PROVE  \A c \in TierCpus(t, NextGpu) \cap Usable : Core(c) \in CoresOf(bindings)
<1>1. Free(TierCpus(t, NextGpu)) = {}
  BY DEF OpenTiers
<1> QED BY <1>1 DEF Free, Taken, CoresOf

\* The control thread chosen for the next GPU.
LEMMA Chosen ==
  ASSUME IInv, pc = "assign", OpenTiers # {}, NEW tier, tier = Least(OpenTiers),
         NEW c, c = Least(Free(TierCpus(tier, NextGpu)))
  PROVE  /\ tier \in 1 .. 6 /\ c \in Usable /\ Core(c) \notin CoresOf(bindings)
         /\ Local(NextGpu, c, bindings)
         /\ c \notin pool => \A d \in pool : Core(d) \in CoresOf(bindings)
<1>1. DOMAIN Tiers = 1 .. 6
  BY DEF Tiers
<1>2. tier \in OpenTiers /\ tier \in 1 .. 6 /\ \A t \in OpenTiers : tier <= t
  <2>1. OpenTiers \subseteq 1 .. 6 /\ OpenTiers \subseteq Nat
    BY <1>1 DEF OpenTiers
  <2>2. Least(OpenTiers) \in OpenTiers /\ \A t \in OpenTiers : Least(OpenTiers) <= t
    BY <2>1, LeastShape
  <2> QED BY <2>1, <2>2
<1>3. Free(TierCpus(tier, NextGpu)) # {} /\ Free(TierCpus(tier, NextGpu)) \subseteq Usable
  BY <1>2 DEF OpenTiers, Free
<1>4. Usable \subseteq Nat
  BY PlannerAssumption DEF Usable, Known
<1>5. c \in Free(TierCpus(tier, NextGpu))
  BY <1>3, <1>4, LeastShape
<1>6. c \in TierCpus(tier, NextGpu) /\ c \in Usable /\ Core(c) \notin CoresOf(bindings)
  BY <1>5 DEF Free, Taken, CoresOf
<1>7. pool = CpuPool(request.hw) /\ pool \subseteq Usable
  BY DEF IInv, AssignInv
<1>8. Local(NextGpu, c, bindings)
  <2> SUFFICES ASSUME c \notin LocalCpus(NextGpu) \cap pool,
                      NEW d \in LocalCpus(NextGpu) \cap pool
               PROVE  Core(d) \in CoresOf(bindings)
    BY <1>7 DEF Local
  <2>1. tier # 1
    BY <1>6 DEF TierCpus
  <2>2. 1 \in DOMAIN Tiers /\ 1 \notin OpenTiers
    BY <1>1, <1>2, <2>1
  <2>3. d \in TierCpus(1, NextGpu) \cap Usable
    BY <1>7 DEF TierCpus
  <2> QED BY <2>2, <2>3, TierClosed
<1>9. c \notin pool => \A d \in pool : Core(d) \in CoresOf(bindings)
  <2> SUFFICES ASSUME c \notin pool, NEW d \in pool PROVE Core(d) \in CoresOf(bindings)
    OBVIOUS
  <2>1. tier \notin {1, 2, 3}
    BY <1>6 DEF TierCpus
  <2>2. 3 \in DOMAIN Tiers /\ 3 \notin OpenTiers
    BY <1>1, <1>2, <2>1
  <2>3. d \in TierCpus(3, NextGpu) \cap Usable
    BY <1>7 DEF TierCpus
  <2> QED BY <2>2, <2>3, TierClosed
<1> QED BY <1>2, <1>6, <1>8, <1>9

\* One more control thread on a core of its own keeps the list sound.
LEMMA AppendSound ==
  ASSUME NEW s, NEW bs, Sound(s, bs), Len(s) \in Nat, Len(bs) < Len(s),
         NEW b \in Binding, b.gpu = s[Len(bs) + 1],
         Core(b.cpu) \notin CoresOf(bs), Local(b.gpu, b.cpu, bs),
         b.cpu \notin CpuPool(request.hw) => \A d \in CpuPool(request.hw) : Core(d) \in CoresOf(bs)
  PROVE  /\ Sound(s, Append(bs, b))
         /\ \A p : LeftOf(p, Append(bs, b)) =
                     {d \in LeftOf(p, bs) : Dedicated => Core(d) # Core(b.cpu)}
<1> DEFINE n == Len(bs)
           new == Append(bs, b)
<1>1. bs \in Seq(Binding) /\ n \in Nat /\ DOMAIN bs = 1 .. n
  BY LenProperties DEF Sound
<1>2. new \in Seq(Binding) /\ Len(new) = n + 1 /\ (\A i \in 1 .. n : new[i] = bs[i]) /\ new[n + 1] = b
  BY <1>1, AppendProperties
<1>3. DOMAIN new = 1 .. n + 1
  BY <1>2, LenProperties
<1> HIDE DEF n, new
<1>4. CoresOf(new) = CoresOf(bs) \cup {Core(b.cpu)}
  <2>1. \A i \in DOMAIN new : i \in DOMAIN bs \/ i = n + 1
    BY <1>1, <1>3
  <2>2. \A i \in DOMAIN bs : i \in DOMAIN new /\ new[i] = bs[i]
    BY <1>1, <1>2, <1>3
  <2>3. n + 1 \in DOMAIN new
    BY <1>1, <1>3
  <2> QED BY <1>2, <2>1, <2>2, <2>3 DEF CoresOf
<1>5. \A p : LeftOf(p, new) = {d \in LeftOf(p, bs) : Dedicated => Core(d) # Core(b.cpu)}
  BY <1>4 DEF LeftOf
<1>6. \A k \in 0 .. n : CoresOf(Earlier(new, k)) = CoresOf(Earlier(bs, k))
  <2> TAKE k \in 0 .. n
  <2>1. k \in 0 .. Len(new) /\ k \in 0 .. Len(bs)
    BY <1>1, <1>2 DEF n
  <2>2. \A i \in 1 .. k : new[i] = bs[i]
    BY <1>1, <1>2
  <2>3. CoresOf(Earlier(new, k)) = {Core(new[i].cpu) : i \in 1 .. k}
    BY <1>2, <2>1, EarlierCores
  <2>4. CoresOf(Earlier(bs, k)) = {Core(bs[i].cpu) : i \in 1 .. k}
    BY <1>1, <2>1, EarlierCores
  <2> QED BY <2>2, <2>3, <2>4
<1>7. CoresOf(Earlier(bs, n)) = CoresOf(bs)
  <2>1. n \in 0 .. Len(bs)
    BY <1>1 DEF n
  <2> QED BY <1>1, <2>1, EarlierCores DEF CoresOf
<1>8. \A g, c, e, f : CoresOf(e) = CoresOf(f) /\ Local(g, c, f) => Local(g, c, e)
  BY DEF Local
<1>9. ASSUME NEW i \in DOMAIN new
      PROVE  new[i].gpu = s[i] /\ Local(s[i], new[i].cpu, Earlier(new, i - 1))
  <2>1. CASE i \in 1 .. n
    <3>1. i - 1 \in 0 .. n
      BY <1>1, <2>1
    <3>2. bs[i].gpu = s[i] /\ Local(s[i], bs[i].cpu, Earlier(bs, i - 1))
      BY <1>1, <2>1 DEF Sound
    <3> QED BY <1>2, <1>6, <1>8, <2>1, <3>1, <3>2
  <2>2. CASE i = n + 1
    <3>1. i - 1 = n /\ n \in 0 .. n /\ new[i] = b /\ b.gpu = s[i]
      BY <1>1, <1>2, <2>2 DEF n
    <3> QED BY <1>6, <1>7, <1>8, <3>1
  <2> QED BY <1>1, <1>3, <2>1, <2>2
<1>10. Separate(new)
  <2>1. \A i, j \in 1 .. n : Core(bs[i].cpu) = Core(bs[j].cpu) => i = j
    BY <1>1 DEF Sound, Separate
  <2>2. \A i \in 1 .. n : Core(bs[i].cpu) # Core(b.cpu)
    BY <1>1 DEF CoresOf
  <2>3. \A i \in DOMAIN new : i \in 1 .. n \/ i = n + 1
    BY <1>1, <1>3
  <2> QED BY <1>2, <2>1, <2>2, <2>3 DEF Separate
<1>11. (\E i \in DOMAIN new : new[i].cpu \notin CpuPool(request.hw)) /\ Dedicated
          => LeftOf(CpuPool(request.hw), new) = {}
  <2> SUFFICES ASSUME NEW i \in DOMAIN new, new[i].cpu \notin CpuPool(request.hw), Dedicated
               PROVE  LeftOf(CpuPool(request.hw), new) = {}
    OBVIOUS
  <2>1. CASE i \in 1 .. n
    <3>1. bs[i].cpu \notin CpuPool(request.hw)
      BY <1>2, <2>1
    <3>2. LeftOf(CpuPool(request.hw), bs) = {}
      BY <1>1, <2>1, <3>1 DEF Sound
    <3> QED BY <1>5, <3>2
  <2>2. CASE i = n + 1
    <3>1. \A d \in CpuPool(request.hw) : Core(d) \in CoresOf(bs)
      BY <1>2, <2>2
    <3> QED BY <1>4, <3>1 DEF LeftOf
  <2> QED BY <1>1, <1>3, <2>1, <2>2
<1>12. Len(new) <= Len(s)
  BY <1>1, <1>2 DEF n
<1>13. Sound(s, new)
  BY <1>2, <1>9, <1>10, <1>11, <1>12 DEF Sound
<1> QED BY <1>5, <1>13 DEF new

LEMMA AssignStepInv == IInv /\ Assign => IInv'
<1> SUFFICES ASSUME IInv, Assign PROVE IInv'
  OBVIOUS
<1> DEFINE tier == Least(OpenTiers)
           c == Least(Free(TierCpus(tier, NextGpu)))
           b == [gpu |-> NextGpu, cpu |-> c, locality |-> Tiers[tier]]
<1>1. /\ pc = "assign" /\ Len(bindings) < Len(gpus) /\ OpenTiers # {}
      /\ bindings' = Append(bindings, b) /\ remaining' = Without(c)
      /\ UNCHANGED <<machine, request, pc, left, gpus, pool, tasks, instances, reason>>
  BY DEF Assign
<1>2. /\ pool = CpuPool(request.hw) /\ remaining = LeftOf(pool, bindings) /\ pool \subseteq Usable
      /\ Sound(gpus, bindings) /\ reason = "none"
  BY <1>1 DEF IInv, AssignInv
<1>3. /\ tier \in 1 .. 6 /\ c \in Usable /\ Core(c) \notin CoresOf(bindings)
      /\ Local(NextGpu, c, bindings)
      /\ c \notin pool => \A d \in pool : Core(d) \in CoresOf(bindings)
  BY <1>1, Chosen
<1>4. Len(gpus) \in Nat /\ Len(bindings) \in Nat /\ NextGpu \in Gpus /\ NextGpu = gpus[Len(bindings) + 1]
  <2>1. Len(gpus) \in Nat /\ Len(bindings) \in Nat
    BY LenProperties DEF IInv, TypeOK
  <2>2. Len(bindings) + 1 \in 1 .. Len(gpus)
    BY <1>1, <2>1
  <2> QED BY <2>1, <2>2, ElementOfSeq DEF IInv, TypeOK, NextGpu
<1> HIDE DEF tier, c
<1>5. b \in Binding
  BY <1>3, <1>4 DEF Binding, Tiers
<1>6. b.gpu = NextGpu /\ b.cpu = c
  OBVIOUS
<1> HIDE DEF b
<1>7. /\ Sound(gpus, bindings')
      /\ LeftOf(pool, bindings') = {d \in LeftOf(pool, bindings) : Dedicated => Core(d) # Core(c)}
  BY <1>1, <1>2, <1>3, <1>4, <1>5, <1>6, AppendSound
<1>8. remaining' = LeftOf(pool, bindings')
  BY <1>1, <1>2, <1>7 DEF Without, Dedicated
<1>9. AssignInv'
  BY <1>1, <1>2, <1>7, <1>8, Frozen DEF AssignInv
<1>10. TypeOK'
  <2>1. bindings' \in Seq(Binding) /\ Len(bindings') <= Len(gpus)
    BY <1>7 DEF Sound
  <2>2. remaining' \subseteq pool
    BY <1>8 DEF LeftOf
  <2> QED BY <1>1, <2>1, <2>2, Frozen DEF IInv, TypeOK
<1>11. (\A t \in tasks : TaskSound(t))' /\ RefusedOnlyIfShort'
  BY <1>1, <1>2, Frozen DEF IInv, RefusedOnlyIfShort
<1> QED BY <1>9, <1>10, <1>11 DEF IInv

\* No tier is open only if the usable cores have all been given away.
LEMMA AssignFailsInv == IInv /\ AssignFails => IInv'
<1> SUFFICES ASSUME IInv, AssignFails PROVE IInv'
  OBVIOUS
<1>1. pc = "assign" /\ Len(bindings) < Len(gpus) /\ OpenTiers = {} /\ Refuse("cores")
  BY DEF AssignFails
<1>2. 6 \in DOMAIN Tiers /\ 6 \notin OpenTiers
  BY <1>1 DEF Tiers
<1>3. \A c \in Usable : Core(c) \in CoresOf(bindings)
  <2>1. Usable \subseteq TierCpus(6, NextGpu) \cap Usable
    BY DEF TierCpus, Usable
  <2> QED BY <1>1, <1>2, <2>1, TierClosed
<1>4. bindings \in Seq(Binding) /\ Len(bindings) \in Nat /\ Len(gpus) \in Nat
  BY LenProperties DEF IInv, TypeOK
<1> DEFINE k == Cardinality({Core(c) : c \in Usable})
<1>5. k \in Nat /\ k <= Len(bindings)
  BY <1>3, <1>4, AllTaken
<1> HIDE DEF k
<1>6. k < Len(gpus)
  BY <1>1, <1>4, <1>5
<1> QED BY <1>1, <1>6, RefuseInv DEF k

LEMMA EmitInv == IInv /\ Emit => IInv'
<1> SUFFICES ASSUME IInv, Emit PROVE IInv'
  OBVIOUS
<1>1. pc = "assign" /\ Len(bindings) = Len(gpus)
  BY DEF Emit
<1>2. /\ pool = CpuPool(request.hw) /\ remaining = LeftOf(pool, bindings)
      /\ Sound(gpus, bindings) /\ reason = "none"
  BY <1>1 DEF IInv, AssignInv
<1>3. CASE Algo.cpu /\ remaining = {}
  <2>1. \A c \in pool : Core(c) \in CoresOf(bindings)
    BY <1>2, <1>3 DEF LeftOf
  <2>2. bindings \in Seq(Binding)
    BY DEF IInv, TypeOK
  <2>3. Cardinality({Core(c) : c \in pool}) <= Len(gpus)
    BY <1>1, <2>1, <2>2, AllTaken
  <2> QED BY <1>1, <1>3, <2>3, RefuseInv DEF Emit
<1>4. CASE ~(Algo.cpu /\ remaining = {})
  <2> DEFINE added == {[gpus |-> gpus, params |-> p, bindings |-> bindings,
                        affinity |-> IF Algo.cpu THEN remaining ELSE {}] : p \in ValidParams}
  <2>1. /\ tasks' = tasks \cup added /\ pc' = "next_set"
        /\ UNCHANGED <<machine, request, left, gpus, pool, remaining, bindings, instances, reason>>
    BY <1>4 DEF Emit
  <2>2. gpus \in Seq(Gpus) /\ bindings \in Seq(Binding) /\ remaining \subseteq CpuPool(request.hw)
    BY <1>2 DEF IInv, TypeOK, LeftOf
  <2>3. \A t \in added : TaskSound(t)
    <3> TAKE t \in added
    <3>1. /\ t.gpus = gpus /\ t.bindings = bindings /\ t.params \in ValidParams
          /\ t.affinity = IF Algo.cpu THEN remaining ELSE {}
      OBVIOUS
    <3> QED BY <1>1, <1>2, <1>4, <2>2, <3>1 DEF TaskSound
  <2>4. \A t \in added : /\ t.gpus \in Seq(Gpus) /\ t.bindings \in Seq(Binding)
                         /\ t.affinity \subseteq CpuPool(request.hw) /\ t.params \in ValidParams
    BY <2>2
  <2> HIDE DEF added
  <2>5. TypeOK'
    BY <2>1, <2>4, Frozen DEF IInv, TypeOK
  <2>6. AssignInv' /\ RefusedOnlyIfShort'
    BY <1>2, <2>1, Frozen DEF IInv, AssignInv, RefusedOnlyIfShort
  <2>7. (\A t \in tasks : TaskSound(t))'
    BY <2>1, <2>3, Frozen DEF IInv
  <2> QED BY <2>5, <2>6, <2>7 DEF IInv
<1> QED BY <1>3, <1>4

LEMMA CloneInv == IInv /\ Clone => IInv'
<1> SUFFICES ASSUME IInv, Clone PROVE IInv'
  OBVIOUS
<1>1. /\ UNCHANGED <<machine, request, left, gpus, pool, remaining, bindings, tasks, reason>>
      /\ pc = "next_set" /\ pc' = "planned" /\ instances' = [task : tasks, block : 0 .. Blocks - 1]
  BY DEF Clone
<1>2. \A i \in instances' : i.task \in tasks
  BY <1>1
<1>3. TypeOK'
  BY <1>1, <1>2, Frozen DEF IInv, TypeOK
<1>4. AssignInv' /\ (\A t \in tasks : TaskSound(t))' /\ RefusedOnlyIfShort'
  BY <1>1, Frozen DEF IInv, AssignInv, RefusedOnlyIfShort
<1> QED BY <1>3, <1>4 DEF IInv

LEMMA StepInv == IInv /\ [Next]_vars => IInv'
<1>1. ASSUME IInv, UNCHANGED vars PROVE IInv'
  <2>1. TypeOK' /\ AssignInv' /\ (\A t \in tasks : TaskSound(t))' /\ RefusedOnlyIfShort'
    BY <1>1, Frozen DEF vars, IInv, TypeOK, AssignInv, RefusedOnlyIfShort, Core
  <2> QED BY <2>1 DEF IInv
<1> QED BY <1>1, ResolveInv, TakeSetInv, AssignStepInv, AssignFailsInv, EmitInv, CloneInv
     DEF Next, Finished

\* The inductive invariant IInv - control threads on cores of their own, the pool
\* less the dedicated ones, locality given up only for earlier GPUs - holds of
\* every reachable state.
THEOREM Invariance == Spec => []IInv
BY InitInv, StepInv, PTL DEF Spec

-----------------------------------------------------------------------------
\* The variables keep their types on every machine; every CPU assigned is usable.
THEOREM TypeCorrect == Spec => []TypeOK
<1>1. IInv => TypeOK
  BY DEF IInv
<1> QED BY <1>1, Invariance, PTL

\* On every machine, whatever the number of GPUs, every task has a control thread
\* per GPU, each on a physical core of its own.
THEOREM CoresDistinct == Spec => []ControlCoresDistinct
<1>1. ASSUME IInv PROVE ControlCoresDistinct
  <2> SUFFICES ASSUME NEW t \in tasks
               PROVE  /\ Len(t.bindings) = Len(t.gpus)
                      /\ \A i \in DOMAIN t.gpus : t.bindings[i].gpu = t.gpus[i]
                      /\ Separate(t.bindings)
    BY <1>1 DEF IInv, ControlCoresDistinct
  <2>1. TaskSound(t)
    BY <1>1 DEF IInv
  <2>2. DOMAIN t.gpus = DOMAIN t.bindings
    BY <2>1, LenProperties DEF TaskSound, Sound
  <2> QED BY <2>1, <2>2 DEF TaskSound, Sound
<1> QED BY <1>1, Invariance, PTL

\* The CPUs a task computes on are its pool less the dedicated control cores with
\* all their SMT siblings, on every machine.
THEOREM PoolLessControl == Spec => []ComputeCoresFree
<1>1. IInv => ComputeCoresFree
  BY DEF IInv, TaskSound, LeftOf, Dedicated, ComputeCoresFree
<1> QED BY <1>1, Invariance, PTL

\* The greedy search refuses a set of GPUs only if the machine has fewer usable
\* cores than the set has GPUs, and a pool only if it has no more cores than that.
THEOREM RefusalJustified == Spec => []RefusedOnlyIfShort
<1>1. IInv => RefusedOnlyIfShort
  BY DEF IInv
<1> QED BY <1>1, Invariance, PTL

\* A GPU is controlled from afar only if the GPUs before it took every selected
\* core near it; a dedicated control thread of a task that computes on the CPU is
\* never outside its pool.
THEOREM LocalityKept == Spec => []LocalFirst
<1>1. ASSUME IInv PROVE LocalFirst
  <2> SUFFICES ASSUME NEW t \in tasks, NEW i \in DOMAIN t.bindings
               PROVE  LET g == t.gpus[i]
                          c == t.bindings[i].cpu
                          best == LocalCpus(g) \cap CpuPool(request.hw)
                      IN /\ c \notin best =>
                              \A d \in best : Core(d) \in CoresOf(Earlier(t.bindings, i - 1))
                         /\ Algo.cpu /\ request.mode = "dedicated" => c \in CpuPool(request.hw)
    BY DEF LocalFirst
  <2>1. TaskSound(t)
    BY <1>1 DEF IInv
  <2>2. Local(t.gpus[i], t.bindings[i].cpu, Earlier(t.bindings, i - 1))
    BY <2>1 DEF TaskSound, Sound
  <2>3. Algo.cpu => LeftOf(CpuPool(request.hw), t.bindings) # {}
    BY <2>1 DEF TaskSound
  <2>4. Algo.cpu /\ Dedicated => t.bindings[i].cpu \in CpuPool(request.hw)
    BY <2>1, <2>3 DEF TaskSound, Sound
  <2> QED BY <2>2, <2>4 DEF Local, Dedicated
<1> QED BY <1>1, Invariance, PTL
=============================================================================
