-------------------------- MODULE Pipelines_proofs --------------------------
(***************************************************************************)
(* Proofs about the two pipelines a GPU reduces its range with.            *)
(*                                                                         *)
(* GpuPipeline, for every capacity, chunk size and number of streams and   *)
(* calls: IInv says, for the last chunk given to each stream, which of its *)
(* three operations are left and what the buffers they read contain, and   *)
(* which result slots are filled.                                          *)
(*                                                                         *)
(* FilePipeline, for every length of the range, size of a buffer, number   *)
(* of slots, rounds and calls: it implements ParallelReduction.  FileInv   *)
(* says that each pending slot carries a set of elements, wherever in its  *)
(* stream they are, and that what was read so far is the disjoint union of *)
(* those sets and of what was merged.                                      *)
(***************************************************************************)
EXTENDS GpuPipeline, FilePipeline, FiniteSetTheorems, TLAPS

CC == ChunkCapacity

\* The elements of chunk k, and the last chunk given to stream s.
SizeOf(k) == MinOf(CC, count - k * CC)
TagsOf(k) == {t \in Tags : t[1] = call /\ t[2] < count /\ t[2] \div CC = k}
Latest(s, k) == k \in 0 .. c - 1 /\ k % Streams = s /\ k + Streams >= c

H2d(k)    == [op |-> "h2d", arg |-> SizeOf(k)]
Reduce(k) == [op |-> "reduce", arg |-> SizeOf(k)]
D2h(k)    == [op |-> "d2h", arg |-> k]

\* Buffer b holds chunk k.
Holds(b, k) == \A j \in 0 .. SizeOf(k) - 1 : b[j] = <<call, k * CC + j>>

\* A call that was not refused has been begun.
Started ==
  /\ call \in 1 .. MaxCalls /\ count \in 1 .. MaxElements
  /\ c <= ChunkCount(count) /\ ChunkCount(count) <= MaxChunks

\* Where stream s is with chunk k.
AtCopy(s, k)   == queue[s] = <<H2d(k), Reduce(k), D2h(k)>> /\ Holds(staging[s], k)
AtReduce(s, k) == queue[s] = <<Reduce(k), D2h(k)>> /\ Holds(dinput[s], k)
AtResult(s, k) == queue[s] = <<D2h(k)>> /\ doutput[s] = TagsOf(k)

StreamInv(s) ==
  \/ queue[s] = <<>>
  \/ Started /\ \E k \in 0 .. MaxChunks - 1 :
       Latest(s, k) /\ (AtCopy(s, k) \/ AtReduce(s, k) \/ AtResult(s, k))

ResultInv ==
  \A k \in 0 .. c - 1 :
    results[k] = TagsOf(k) \/ (Latest(k % Streams, k) /\ queue[k % Streams] # <<>>)

HostInv ==
  /\ host = "idle" => Drained
  /\ host \in {"issue", "drain"} =>
       Started /\ ResultInv
  /\ host = "issue" => c < ChunkCount(count)
  /\ host = "drain" => c = ChunkCount(count)

Types ==
  /\ host \in {"idle", "issue", "drain", "over"}
  /\ call \in 0 .. MaxCalls /\ count \in Nat /\ c \in 0 .. MaxChunks
  /\ staging \in [Slots -> [0 .. CC - 1 -> Tags \cup {Unset}]]
  /\ dinput \in [Slots -> [0 .. CC - 1 -> Tags \cup {Unset}]]
  /\ doutput \in [Slots -> SUBSET (Tags \cup {Unset})]
  /\ results \in [0 .. MaxChunks - 1 -> SUBSET (Tags \cup {Unset})]
  /\ DOMAIN queue = Slots
  /\ returned \in [Tags -> Nat]

IInv == Types /\ HostInv /\ \A s \in Slots : StreamInv(s)

-----------------------------------------------------------------------------
(* Arithmetic of chunks *)

USE PipelineAssumption

LEMMA Monotone ==
  ASSUME NEW a \in Int, NEW b \in Int, NEW n \in Nat, a <= b
  PROVE  a * n <= b * n
OBVIOUS

LEMMA Division ==
  ASSUME NEW a \in Nat, NEW b \in Nat \ {0}
  PROVE  /\ a \div b \in Nat
         /\ (a \div b) * b <= a
         /\ a < (a \div b) * b + b
OBVIOUS

LEMMA Quotient ==
  ASSUME NEW a \in Nat, NEW b \in Nat \ {0}, NEW q \in Nat, q * b <= a, a < q * b + b
  PROVE  a \div b = q
OBVIOUS

\* Chunk k begins within the n elements exactly if it is one of the chunks.
LEMMA Chunks ==
  ASSUME NEW n \in Nat, NEW b \in Nat \ {0}, NEW k \in Nat
  PROVE  /\ CeilDiv(n, b) \in Nat
         /\ k < CeilDiv(n, b) <=> k * b < n
<1> DEFINE q == CeilDiv(n, b)
<1>1. q \in Nat /\ q * b <= n + b - 1 /\ n + b - 1 < q * b + b
  <2>1. n + b - 1 \in Nat
    OBVIOUS
  <2> QED BY <2>1, Division DEF CeilDiv
<1> HIDE DEF q
<1>2. ASSUME k < q PROVE k * b < n
  <2>1. (k + 1) * b <= q * b
    BY <1>1, <1>2, Monotone
  <2>2. (k + 1) * b = k * b + b
    OBVIOUS
  <2> QED BY <1>1, <2>1, <2>2
<1>3. ASSUME ~(k < q) PROVE ~(k * b < n)
  <2>1. q * b <= k * b
    BY <1>1, <1>3, Monotone
  <2> QED BY <1>1, <2>1
<1> QED BY <1>1, <1>2, <1>3 DEF q

LEMMA Fewer ==
  ASSUME NEW n \in Nat, NEW m \in Nat, n <= m, NEW b \in Nat \ {0}
  PROVE  CeilDiv(n, b) <= CeilDiv(m, b)
<1>1. CeilDiv(m, b) \in Nat /\ CeilDiv(n, b) \in Nat
  BY Chunks
<1>2. ~(CeilDiv(m, b) < CeilDiv(n, b))
  <2>1. CeilDiv(m, b) * b < n <=> CeilDiv(m, b) < CeilDiv(n, b)
    BY <1>1, Chunks
  <2>2. ~(CeilDiv(m, b) * b < m)
    BY <1>1, Chunks
  <2> QED BY <1>1, <2>1, <2>2
<1> QED BY <1>1, <1>2

LEMMA Sizes == CC \in Nat \ {0} /\ MaxChunks \in Nat \ {0} /\ Streams \in Nat \ {0}
<1>1. CeilDiv(MaxElements, PipelineChunks) \in Nat
  BY Chunks
<1>2. CC \in Nat \ {0}
  BY <1>1 DEF CC, ChunkCapacity, MaxOf, MinOf
<1>3. CeilDiv(MaxElements, CC) \in Nat
  BY <1>2, Chunks
<1> QED BY <1>2, <1>3 DEF MaxChunks, MaxOf, CC

\* No input the reducer was made for has more chunks than there are result slots.
LEMMA SlotsSuffice ==
  ASSUME NEW n \in Nat, n <= MaxElements
  PROVE  ChunkCount(n) <= MaxChunks /\ ChunkCount(n) \in Nat
<1>1. CeilDiv(n, CC) <= CeilDiv(MaxElements, CC)
  BY Sizes, Fewer
<1>2. CeilDiv(n, CC) \in Nat /\ CeilDiv(MaxElements, CC) \in Nat
  BY Sizes, Chunks
<1> QED BY <1>1, <1>2 DEF ChunkCount, MaxChunks, MaxOf, CC

LEMMA Residue ==
  ASSUME NEW a \in Nat, NEW b \in Nat, NEW n \in Nat \ {0}
  PROVE  /\ a % n \in 0 .. n - 1
         /\ a % n = b % n /\ a < b => a + n <= b
<1>1. a % n \in 0 .. n - 1
  OBVIOUS
<1>2. ASSUME a % n = b % n, a < b PROVE a + n <= b
  <2> DEFINE p == a \div n
             q == b \div n
  <2>1. a % n = a - n * p
    OBVIOUS
  <2>2. b % n = b - n * q
    OBVIOUS
  <2>3. p \in Nat /\ q \in Nat
    OBVIOUS
  <2> HIDE DEF p, q
  <2>4. n * p = p * n /\ n * q = q * n /\ p * n \in Nat /\ q * n \in Nat
    BY <2>3
  <2>5. a % n \in Nat /\ b % n \in Nat
    BY <1>1
  <2>6. q * n - p * n = b - a
    BY <1>2, <2>1, <2>2, <2>4, <2>5
  <2>7. p < q
    <3>1. ASSUME q <= p PROVE FALSE
      <4>1. q * n <= p * n
        BY <2>3, <3>1, Monotone
      <4> QED BY <1>2, <2>4, <2>6, <4>1
    <3> QED BY <2>3, <3>1
  <2>8. (p + 1) * n <= q * n
    BY <2>3, <2>7, Monotone
  <2>9. (p + 1) * n = p * n + n
    BY <2>3
  <2> QED BY <2>4, <2>6, <2>8, <2>9
<1> QED BY <1>1, <1>2

LEMMA NextResidue ==
  ASSUME NEW k \in Nat, NEW n \in Nat \ {0}
  PROVE  (k + n) % n = k % n
<1> DEFINE p == k \div n
           q == (k + n) \div n
<1>1. k % n = k - n * p /\ p \in Nat /\ k % n \in 0 .. n - 1
  OBVIOUS
<1>2. k + n \in Nat
  OBVIOUS
<1>3. (k + n) % n = (k + n) - n * q
  BY <1>2
<1>4. q = p + 1
  <2>1. p * n <= k /\ k < p * n + n
    BY Division
  <2>2. (p + 1) * n = p * n + n
    BY <1>1
  <2>3. p + 1 \in Nat
    BY <1>1
  <2> HIDE DEF p
  <2>4. (p + 1) * n <= k + n /\ k + n < (p + 1) * n + n
    <3>1. p * n \in Nat
      BY <1>1
    <3> QED BY <2>1, <2>2, <3>1
  <2> HIDE DEF q
  <2>5. (k + n) \div n = p + 1
    BY <1>2, <2>3, <2>4, Quotient
  <2> QED BY <2>5 DEF q
<1> HIDE DEF p, q
<1>5. n * (p + 1) = n * p + n
  BY <1>1
<1> QED BY <1>1, <1>3, <1>4, <1>5

\* Two chunks that are each the last of the same stream are the same.
LEMMA OneLatest ==
  ASSUME Types, NEW s, NEW j, NEW k, Latest(s, j), Latest(s, k)
  PROVE  j = k
<1>1. j \in Nat /\ k \in Nat /\ c \in Nat /\ j < c /\ k < c /\ j % Streams = k % Streams
  BY DEF Types, Latest
<1>2. j < k => j + Streams <= k
  BY <1>1, Sizes, Residue
<1>3. k < j => k + Streams <= j
  BY <1>1, Sizes, Residue
<1> QED BY <1>1, <1>2, <1>3, Sizes DEF Latest

\* A chunk of the current call: its size, and that its elements are those whose
\* index it contains.
LEMMA ChunkShape ==
  ASSUME Types, Started, NEW k \in Nat, k < ChunkCount(count)
  PROVE  SizeOf(k) \in 1 .. CC /\ k * CC + SizeOf(k) <= count /\ k \in 0 .. MaxChunks - 1
<1>1. count \in Nat /\ MaxChunks \in Nat
  BY Sizes DEF Types
<1>2. k * CC < count /\ k * CC \in Nat
  BY <1>1, Sizes, Chunks DEF ChunkCount, CC
<1>3. k \in 0 .. MaxChunks - 1
  BY <1>1, SlotsSuffice DEF Started
<1> HIDE DEF CC
<1> QED BY <1>1, <1>2, <1>3, Sizes DEF SizeOf, MinOf

LEMMA ChunkTags ==
  ASSUME Types, Started, NEW k \in Nat, k < ChunkCount(count), NEW b, Holds(b, k)
  PROVE  {b[i] : i \in 0 .. SizeOf(k) - 1} = TagsOf(k)
<1> DEFINE n == SizeOf(k)
           o == k * CC
<1>1. /\ n \in 1 .. CC /\ o \in Nat /\ o + n <= count /\ count <= MaxElements
      /\ call \in 1 .. MaxCalls /\ count \in Nat /\ k \in Nat /\ CC \in Nat \ {0}
  BY ChunkShape, Sizes DEF Started, Types
<1>2. n = CC \/ o + n = count
  BY <1>1 DEF SizeOf, MinOf
<1>3. \A i \in 0 .. n - 1 : b[i] = <<call, o + i>>
  BY DEF Holds
<1>4. ASSUME NEW i \in 0 .. n - 1 PROVE <<call, o + i>> \in TagsOf(k)
  <2> HIDE DEF n
  <2>1. o + i \in Nat /\ o <= o + i /\ o + i < o + CC /\ o + i < count
    BY <1>1
  <2>2. (o + i) \div CC = k
    BY <1>1, <2>1, Quotient
  <2>3. <<call, o + i>> \in Tags
    BY <1>1, <2>1 DEF Tags
  <2> QED BY <2>1, <2>2, <2>3 DEF TagsOf
<1>5. ASSUME NEW t \in TagsOf(k) PROVE \E i \in 0 .. n - 1 : t = <<call, o + i>>
  <2>1. t = <<t[1], t[2]>> /\ t[1] = call /\ t[2] \in Nat /\ t[2] < count /\ t[2] \div CC = k
    BY DEF TagsOf, Tags
  <2>2. o <= t[2] /\ t[2] < o + CC
    BY <1>1, <2>1, Division
  <2>3. t[2] - o \in 0 .. n - 1
    <3> HIDE DEF n, o
    <3> QED BY <1>1, <1>2, <2>1, <2>2
  <2>4. t = <<call, o + (t[2] - o)>>
    <3> HIDE DEF n, o
    <3> QED BY <1>1, <2>1
  <2> QED BY <2>3, <2>4
<1> DEFINE S == {b[i] : i \in 0 .. n - 1}
<1>6. ASSUME NEW t \in S PROVE t \in TagsOf(k)
  <2>1. PICK i \in 0 .. n - 1 : t = b[i]
    OBVIOUS
  <2> QED BY <1>3, <1>4, <2>1
<1>7. ASSUME NEW t \in TagsOf(k) PROVE t \in S
  <2>1. PICK i \in 0 .. n - 1 : t = <<call, o + i>>
    BY <1>5
  <2>2. t = b[i]
    BY <1>3, <2>1
  <2> QED BY <2>2
<1> HIDE DEF S
<1>8. S = TagsOf(k)
  BY <1>6, <1>7, Zenon
<1> QED BY <1>8 DEF S

-----------------------------------------------------------------------------
(* The invariant *)

LEMMA InitInv == Init => IInv
<1> SUFFICES ASSUME Init PROVE IInv
  OBVIOUS
<1>1. Types
  BY Sizes DEF Init, Types, Nothing, CC, Slots
<1>2. Drained
  BY DEF Init, Drained, Slots
<1>3. HostInv
  BY <1>2 DEF Init, HostInv
<1>4. \A s \in Slots : StreamInv(s)
  BY <1>2 DEF Drained, StreamInv
<1> QED BY <1>1, <1>3, <1>4 DEF IInv

LEMMA BeginInv == ASSUME IInv, NEW n \in Counts, Begin(n) PROVE IInv'
<1>1. n \in Nat /\ call + 1 \in 1 .. MaxCalls
  BY DEF Begin, IInv, Types
<1>2. Drained /\ Drained'
  BY DEF Begin, IInv, HostInv, Drained
<1>3. Types'
  BY <1>1, Sizes DEF Begin, IInv, Types, Nothing, device
<1>4. HostInv'
  <2>1. ASSUME host' = "issue" PROVE Started' /\ ResultInv' /\ c' < ChunkCount(count')
    <3>1. n \in 1 .. MaxElements /\ count' = n /\ c' = 0 /\ ChunkCount(n) <= MaxChunks
      BY <1>1, <2>1, Sizes, SlotsSuffice DEF Begin
    <3>2. 0 < ChunkCount(n) /\ ChunkCount(n) \in Nat
      BY <3>1, Sizes, Chunks DEF ChunkCount, CC
    <3>3. Started'
      BY <1>1, <3>1, <3>2 DEF Begin, Started
    <3> QED BY <3>1, <3>2, <3>3 DEF ResultInv
  <2>2. host' # "drain"
    BY DEF Begin
  <2> QED BY <1>2, <2>1, <2>2 DEF HostInv
<1>5. \A s \in Slots : StreamInv(s)'
  BY <1>2 DEF Drained, StreamInv
<1> QED BY <1>3, <1>4, <1>5 DEF IInv

\* The last chunk of another stream is still its last after chunk c is issued.
LEMMA StillLatest ==
  ASSUME Types, NEW s, NEW k, Latest(s, k), s # c % Streams, c' = c + 1
  PROVE  Latest(s, k)'
<1>1. k \in Nat /\ c \in Nat /\ k < c /\ k % Streams = s /\ k + Streams >= c
  BY DEF Types, Latest
<1>2. k + Streams # c
  BY <1>1, Sizes, NextResidue
<1> QED BY <1>1, <1>2, Sizes DEF Latest

LEMMA IssueInv == ASSUME IInv, IssueChunk PROVE IInv'
<1> SUFFICES ASSUME NEW d, d = c, NEW s, s = c % Streams, NEW n, n = SizeOf(c) PROVE IInv'
  OBVIOUS
<1>1. /\ Started /\ ResultInv /\ Types /\ c \in Nat /\ c < ChunkCount(count)
      /\ ChunkCount(count) \in Nat /\ ChunkCount(count) <= MaxChunks /\ MaxChunks \in Nat
  BY Sizes, SlotsSuffice DEF IInv, IssueChunk, HostInv, Types, Started
<1>2. n \in 1 .. CC /\ c * CC + n <= count /\ CC \in Nat \ {0} /\ c * CC \in Nat
  BY <1>1, Sizes, ChunkShape
<1>3. s \in Slots
  BY <1>1, Sizes, Residue DEF Slots
<1>4. queue[s] = <<>>
  <2> SUFFICES ASSUME queue[s] # <<>> PROVE FALSE
    OBVIOUS
  <2>1. PICK k \in 0 .. MaxChunks - 1 : Latest(s, k)
    BY <1>3 DEF IInv, StreamInv
  <2>2. k \in Nat /\ k < c /\ k % Streams = c % Streams
    BY <1>1, <2>1 DEF Latest
  <2>3. k + Streams <= c
    BY <1>1, <2>2, Sizes, Residue
  <2>4. c >= Streams
    BY <1>1, <2>2, <2>3, Sizes
  <2> QED BY <2>4 DEF IssueChunk, MustWait
<1>5. /\ staging' = [staging EXCEPT ![s] = [i \in 0 .. CC - 1 |->
                        IF i < n THEN <<call, c * CC + i>> ELSE @[i]]]
      /\ queue' = [queue EXCEPT ![s] = @ \o <<H2d(c), Reduce(c), D2h(c)>>]
  BY DEF IssueChunk, SizeOf, H2d, Reduce, D2h, ResultSlot, CC
<1>6. /\ c' = c + 1 /\ call' = call /\ count' = count /\ UNCHANGED device /\ returned' = returned
      /\ host' = IF c + 1 < ChunkCount(count) THEN "issue" ELSE "drain"
  BY DEF IssueChunk, Advance
<1>7. queue'[s] = <<H2d(d), Reduce(d), D2h(d)>>
  BY <1>1, <1>3, <1>4, <1>5 DEF Types
<1>8. Types'
  <2>1. staging' \in [Slots -> [0 .. CC - 1 -> Tags \cup {Unset}]]
    <3>1. ASSUME NEW i \in 0 .. CC - 1, i < n PROVE <<call, c * CC + i>> \in Tags
      <4>1. c * CC + i \in 0 .. MaxElements - 1
        BY <1>1, <1>2, <3>1 DEF Started
      <4> QED BY <1>1, <4>1 DEF Tags, Started
    <3>2. staging[s] \in [0 .. CC - 1 -> Tags \cup {Unset}]
      BY <1>1, <1>3 DEF Types
    <3>3. ASSUME NEW i \in 0 .. CC - 1
          PROVE  (IF i < n THEN <<call, c * CC + i>> ELSE staging[s][i]) \in Tags \cup {Unset}
      <4>1. CASE i < n
        BY <3>1, <4>1
      <4>2. CASE ~(i < n)
        BY <3>2, <4>2
      <4> QED BY <4>1, <4>2
    <3>4. [i \in 0 .. CC - 1 |-> IF i < n THEN <<call, c * CC + i>> ELSE staging[s][i]]
             \in [0 .. CC - 1 -> Tags \cup {Unset}]
      BY <3>3
    <3> QED BY <1>1, <1>3, <1>5, <3>4 DEF Types
  <2>2. DOMAIN queue' = Slots
    BY <1>1, <1>5 DEF Types
  <2>3. c' \in 0 .. MaxChunks /\ host' \in {"issue", "drain"}
    BY <1>1, <1>6
  <2> QED BY <1>1, <1>6, <2>1, <2>2, <2>3 DEF Types, device
<1>9. Started' /\ \A k : SizeOf(k)' = SizeOf(k) /\ TagsOf(k)' = TagsOf(k)
  BY <1>1, <1>6 DEF Started, SizeOf, TagsOf
<1>10. Latest(s, d)'
  BY <1>1, <1>6, Sizes DEF Latest
<1>11. ResultInv'
  <2> SUFFICES ASSUME NEW k \in 0 .. c
               PROVE  results[k] = TagsOf(k) \/ (Latest(k % Streams, k)' /\ queue'[k % Streams] # <<>>)
    BY <1>1, <1>6, <1>9 DEF ResultInv, device
  <2>1. CASE k = c
    <3>1. k = d /\ k % Streams = s
      BY <2>1
    <3>2. queue'[s] # <<>>
      BY <1>7
    <3> QED BY <1>10, <3>1, <3>2
  <2>2. CASE k # c
    <3>0. k \in 0 .. c - 1 /\ k \in Nat
      BY <1>1, <2>2
    <3>1. k \in 0 .. c - 1 /\ k \in Nat /\ k % Streams \in Slots
      BY <3>0, Sizes, Residue DEF Slots
    <3>2. CASE results[k] = TagsOf(k)
      BY <3>2
    <3>3. CASE Latest(k % Streams, k) /\ queue[k % Streams] # <<>>
      <4>1. k % Streams # s
        BY <1>4, <3>3
      <4>2. Latest(k % Streams, k)'
        BY <1>1, <1>6, <3>3, <4>1, StillLatest
      <4>3. queue'[k % Streams] = queue[k % Streams]
        BY <1>1, <1>5, <3>1, <4>1 DEF Types
      <4> QED BY <3>3, <4>2, <4>3
    <3> QED BY <1>1, <3>1, <3>2, <3>3 DEF ResultInv
  <2> QED BY <2>1, <2>2
<1>12. HostInv'
  BY <1>1, <1>6, <1>9, <1>11 DEF HostInv
<1>13. ASSUME NEW r \in Slots PROVE StreamInv(r)'
  <2>1. CASE r = s
    <3>1. Holds(staging[s], d)'
      <4>1. staging'[s] = [i \in 0 .. CC - 1 |->
                             IF i < n THEN <<call, c * CC + i>> ELSE staging[s][i]]
        BY <1>1, <1>3, <1>5 DEF Types
      <4>2. SizeOf(d)' = n
        BY <1>9
      <4>3. ASSUME NEW j \in 0 .. n - 1 PROVE staging'[s][j] = <<call, c * CC + j>>
        <5>1. j \in 0 .. CC - 1 /\ j < n
          BY <1>2
        <5> QED BY <4>1, <5>1
      <4> QED BY <1>6, <4>2, <4>3 DEF Holds
    <3>2. AtCopy(s, d)'
      BY <1>6, <1>7, <1>9, <3>1 DEF AtCopy, H2d, Reduce, D2h
    <3>3. d \in 0 .. MaxChunks - 1
      BY <1>1
    <3> QED BY <1>9, <1>10, <2>1, <3>2, <3>3 DEF StreamInv
  <2>2. CASE r # s
    <3>1. queue'[r] = queue[r] /\ staging'[r] = staging[r]
      BY <1>1, <1>5, <2>2 DEF Types
    <3>2. CASE queue[r] = <<>>
      BY <3>1, <3>2 DEF StreamInv
    <3>3. CASE queue[r] # <<>>
      <4>1. PICK k \in 0 .. MaxChunks - 1 :
              Latest(r, k) /\ (AtCopy(r, k) \/ AtReduce(r, k) \/ AtResult(r, k))
        BY <3>3 DEF IInv, StreamInv
      <4>2. Latest(r, k)'
        BY <1>1, <1>6, <2>2, <4>1, StillLatest
      <4>3. (AtCopy(r, k) \/ AtReduce(r, k) \/ AtResult(r, k))'
        BY <1>6, <1>9, <3>1, <4>1
           DEF AtCopy, AtReduce, AtResult, H2d, Reduce, D2h, Holds, device
      <4> QED BY <1>9, <4>2, <4>3 DEF StreamInv
    <3> QED BY <3>2, <3>3
  <2> QED BY <2>1, <2>2
<1> QED BY <1>8, <1>12, <1>13 DEF IInv

\* Executing the operation at the head of a queue moves the stream on.
LEMMA ExecuteInv == ASSUME IInv, NEW s \in Slots, Execute(s) PROVE IInv'
<1>1. Types /\ queue[s] # <<>> /\ s \in Slots
  BY DEF IInv, Execute
<1>2. PICK k \in 0 .. MaxChunks - 1 :
        Started /\ Latest(s, k) /\ (AtCopy(s, k) \/ AtReduce(s, k) \/ AtResult(s, k))
  BY <1>1 DEF IInv, StreamInv
<1>3. /\ k \in Nat /\ c \in Nat /\ k < c /\ k < ChunkCount(count)
      /\ ChunkCount(count) \in Nat /\ k \in 0 .. c - 1
  BY <1>1, <1>2, SlotsSuffice DEF Types, Latest, Started
<1>4. SizeOf(k) \in 1 .. CC /\ CC \in Nat \ {0} /\ MaxChunks \in Nat
  BY <1>1, <1>2, <1>3, ChunkShape, Sizes
<1>5. /\ UNCHANGED <<host, call, count, c, staging, returned>>
      /\ queue' = [queue EXCEPT ![s] = Tail(@)]
  BY DEF Execute
<1>6. /\ Started' /\ \A j : SizeOf(j)' = SizeOf(j) /\ TagsOf(j)' = TagsOf(j)
      /\ \A r, j : Latest(r, j)' = Latest(r, j)
  BY <1>2, <1>5 DEF Started, SizeOf, TagsOf, Latest
<1>7. host # "idle"
  BY <1>1 DEF IInv, HostInv, Drained
<1>8. queue'[s] = Tail(queue[s]) /\ \A r \in Slots \ {s} : queue'[r] = queue[r]
  BY <1>1, <1>5 DEF Types
<1>9. DOMAIN queue' = Slots
  BY <1>1, <1>5 DEF Types
\* What is left to show: the buffers are typed, stream s has moved on, no other
\* stream was touched, and the result slots are as they were or filled.
<1>10. SUFFICES /\ dinput' \in [Slots -> [0 .. CC - 1 -> Tags \cup {Unset}]]
                /\ doutput' \in [Slots -> SUBSET (Tags \cup {Unset})]
                /\ results' \in [0 .. MaxChunks - 1 -> SUBSET (Tags \cup {Unset})]
                /\ StreamInv(s)'
                /\ \A r \in Slots \ {s} : dinput'[r] = dinput[r] /\ doutput'[r] = doutput[r]
                /\ \A j \in 0 .. c - 1 \ {k} : results'[j] = results[j]
                /\ results'[k] = TagsOf(k) \/ queue'[s] # <<>>
  <2> SUFFICES ASSUME dinput' \in [Slots -> [0 .. CC - 1 -> Tags \cup {Unset}]],
                      doutput' \in [Slots -> SUBSET (Tags \cup {Unset})],
                      results' \in [0 .. MaxChunks - 1 -> SUBSET (Tags \cup {Unset})],
                      StreamInv(s)',
                      \A r \in Slots \ {s} : dinput'[r] = dinput[r] /\ doutput'[r] = doutput[r],
                      \A j \in 0 .. c - 1 \ {k} : results'[j] = results[j],
                      results'[k] = TagsOf(k) \/ queue'[s] # <<>>
               PROVE  IInv'
    OBVIOUS
  <2>1. Types'
    BY <1>1, <1>5, <1>9 DEF Types
  <2>2. ASSUME NEW r \in Slots PROVE StreamInv(r)'
    <3>1. CASE r = s
      BY <3>1
    <3>2. CASE r # s
      <4>1. queue'[r] = queue[r] /\ dinput'[r] = dinput[r] /\ doutput'[r] = doutput[r]
        BY <1>8, <3>2
      <4>2. StreamInv(r)
        BY DEF IInv
      <4>3. CASE queue[r] = <<>>
        BY <4>1, <4>3 DEF StreamInv
      <4>4. CASE queue[r] # <<>>
        <5>1. PICK j \in 0 .. MaxChunks - 1 :
                Latest(r, j) /\ (AtCopy(r, j) \/ AtReduce(r, j) \/ AtResult(r, j))
          BY <4>2, <4>4 DEF StreamInv
        <5>2. (AtCopy(r, j) \/ AtReduce(r, j) \/ AtResult(r, j))'
          BY <1>5, <1>6, <4>1, <5>1
             DEF AtCopy, AtReduce, AtResult, H2d, Reduce, D2h, Holds
        <5>3. Latest(r, j)'
          BY <1>6, <5>1
        <5> QED BY <1>6, <5>2, <5>3 DEF StreamInv
      <4> QED BY <4>3, <4>4
    <3> QED BY <3>1, <3>2
  <2>3. ASSUME ResultInv PROVE ResultInv'
    <3> SUFFICES ASSUME NEW j \in 0 .. c - 1
                 PROVE  results'[j] = TagsOf(j)
                          \/ (Latest(j % Streams, j) /\ queue'[j % Streams] # <<>>)
      BY <1>5, <1>6 DEF ResultInv
    <3>1. results[j] = TagsOf(j) \/ (Latest(j % Streams, j) /\ queue[j % Streams] # <<>>)
      BY <2>3 DEF ResultInv
    <3>2. CASE j = k
      BY <1>2, <3>2 DEF Latest
    <3>3. CASE j # k
      <4>1. results'[j] = results[j]
        BY <3>3
      <4>2. CASE results[j] = TagsOf(j)
        BY <4>1, <4>2
      <4>3. CASE Latest(j % Streams, j) /\ queue[j % Streams] # <<>>
        <5>1. j % Streams # s
          BY <1>1, <1>2, <3>3, <4>3, OneLatest
        <5>2. j \in Nat /\ j % Streams \in Slots
          <6>1. j \in Nat
            BY <1>3
          <6> QED BY <6>1, Sizes, Residue DEF Slots
        <5>3. queue'[j % Streams] = queue[j % Streams]
          BY <1>8, <5>1, <5>2
        <5> QED BY <4>3, <5>3
      <4> QED BY <3>1, <4>2, <4>3
    <3> QED BY <3>2, <3>3
  <2>4. HostInv'
    BY <1>5, <1>6, <1>7, <2>3 DEF IInv, HostInv
  <2> QED BY <2>1, <2>2, <2>4 DEF IInv
<1>11. CASE AtCopy(s, k)
  <2>1. queue[s] = <<H2d(k), Reduce(k), D2h(k)>> /\ Holds(staging[s], k)
    BY <1>11 DEF AtCopy
  <2>2. Head(queue[s]) = H2d(k) /\ Tail(queue[s]) = <<Reduce(k), D2h(k)>>
    BY <2>1
  <2>3. /\ dinput' = [dinput EXCEPT ![s] = [i \in 0 .. CC - 1 |->
                        IF i < SizeOf(k) THEN staging[s][i] ELSE @[i]]]
        /\ doutput' = doutput /\ results' = results
    <3>1. Head(queue[s]).op = "h2d" /\ Head(queue[s]).arg = SizeOf(k)
      BY <2>2 DEF H2d
    <3> QED BY <3>1, Zenon DEF Execute, CC
  <2>4. dinput'[s] = [i \in 0 .. CC - 1 |->
                        IF i < SizeOf(k) THEN staging[s][i] ELSE dinput[s][i]]
    BY <1>1, <2>3 DEF Types
  <2>5. dinput'[s] \in [0 .. CC - 1 -> Tags \cup {Unset}]
    <3>1. staging[s] \in [0 .. CC - 1 -> Tags \cup {Unset}]
          /\ dinput[s] \in [0 .. CC - 1 -> Tags \cup {Unset}]
      BY <1>1 DEF Types
    <3> QED BY <2>4, <3>1
  <2>6. dinput' \in [Slots -> [0 .. CC - 1 -> Tags \cup {Unset}]]
    BY <1>1, <2>3, <2>4, <2>5 DEF Types
  <2>7. AtReduce(s, k)'
    <3>1. ASSUME NEW j \in 0 .. SizeOf(k) - 1 PROVE dinput'[s][j] = <<call, k * CC + j>>
      <4>1. j \in 0 .. CC - 1 /\ j < SizeOf(k)
        BY <1>4
      <4> QED BY <2>1, <2>4, <4>1 DEF Holds
    <3>2. Holds(dinput[s], k)'
      BY <1>5, <1>6, <3>1 DEF Holds
    <3> QED BY <1>6, <1>8, <2>2, <3>2 DEF AtReduce, Reduce, D2h
  <2>8. StreamInv(s)'
    BY <1>2, <1>6, <2>7 DEF StreamInv
  <2>9. queue'[s] # <<>>
    <3>1. <<Reduce(k), D2h(k)>> # <<>>
      OBVIOUS
    <3> QED BY <1>8, <2>2, <3>1
  <2>10. \A r \in Slots \ {s} : dinput'[r] = dinput[r]
    BY <1>1, <2>3 DEF Types
  <2> QED BY <1>1, <2>3, <2>6, <2>8, <2>9, <2>10 DEF Types
<1>12. CASE AtReduce(s, k)
  <2>1. queue[s] = <<Reduce(k), D2h(k)>> /\ Holds(dinput[s], k)
    BY <1>12 DEF AtReduce
  <2>2. Head(queue[s]) = Reduce(k) /\ Tail(queue[s]) = <<D2h(k)>>
    BY <2>1
  <2>3. /\ doutput' = [doutput EXCEPT ![s] = {dinput[s][i] : i \in 0 .. SizeOf(k) - 1}]
        /\ dinput' = dinput /\ results' = results
    <3>1. Head(queue[s]).op = "reduce" /\ Head(queue[s]).arg = SizeOf(k)
      BY <2>2 DEF Reduce
    <3> QED BY <3>1 DEF Execute
  <2>4. doutput'[s] = TagsOf(k)
    BY <1>1, <1>2, <1>3, <2>1, <2>3, ChunkTags DEF Types
  <2>5. doutput' \in [Slots -> SUBSET (Tags \cup {Unset})]
    BY <1>1, <2>3, <2>4 DEF Types, TagsOf
  <2>6. AtResult(s, k)'
    BY <1>6, <1>8, <2>2, <2>4 DEF AtResult, D2h
  <2>7. StreamInv(s)'
    BY <1>2, <1>6, <2>6 DEF StreamInv
  <2>8. queue'[s] # <<>>
    <3>1. <<D2h(k)>> # <<>>
      OBVIOUS
    <3> QED BY <1>8, <2>2, <3>1
  <2>9. \A r \in Slots \ {s} : doutput'[r] = doutput[r]
    BY <1>1, <2>3 DEF Types
  <2> QED BY <1>1, <2>3, <2>5, <2>7, <2>8, <2>9 DEF Types
<1>13. CASE AtResult(s, k)
  <2>1. queue[s] = <<D2h(k)>> /\ doutput[s] = TagsOf(k)
    BY <1>13 DEF AtResult
  <2>2. Head(queue[s]) = D2h(k) /\ Tail(queue[s]) = <<>>
    BY <2>1
  <2>3. /\ results' = [results EXCEPT ![k] = TagsOf(k)]
        /\ dinput' = dinput /\ doutput' = doutput
    BY <2>1, <2>2 DEF Execute, D2h
  <2>4. results'[k] = TagsOf(k) /\ \A j \in 0 .. c - 1 \ {k} : results'[j] = results[j]
    <3>1. \A j \in 0 .. c - 1 : j \in 0 .. MaxChunks - 1
      BY <1>1, <1>4 DEF Types
    <3> QED BY <1>1, <2>3, <3>1 DEF Types
  <2>5. results' \in [0 .. MaxChunks - 1 -> SUBSET (Tags \cup {Unset})]
    BY <1>1, <2>3 DEF Types, TagsOf
  <2>6. StreamInv(s)'
    BY <1>8, <2>2 DEF StreamInv
  <2> QED BY <1>1, <2>3, <2>4, <2>5, <2>6 DEF Types
<1> QED BY <1>2, <1>11, <1>12, <1>13

LEMMA ReturnInv == ASSUME IInv, Return PROVE IInv'
<1>1. /\ UNCHANGED <<call, count, c, staging, queue>> /\ UNCHANGED device
      /\ host' = "idle" /\ Drained
      /\ returned' = [t \in Tags |-> Cardinality({k \in 0 .. c - 1 : t \in results[k]})]
  BY DEF Return
<1>2. ASSUME NEW t \in Tags PROVE Cardinality({k \in 0 .. c - 1 : t \in results[k]}) \in Nat
  <2>1. IsFiniteSet(0 .. c - 1)
    BY FS_Interval DEF IInv, Types
  <2>2. {k \in 0 .. c - 1 : t \in results[k]} \subseteq 0 .. c - 1
    OBVIOUS
  <2> HIDE DEF Tags
  <2> QED BY <2>1, <2>2, FS_Subset, FS_CardinalityType
<1>3. Types'
  BY <1>1, <1>2 DEF IInv, Types, device
<1>4. HostInv'
  BY <1>1 DEF HostInv, Drained
<1>5. \A s \in Slots : StreamInv(s)'
  BY <1>1 DEF Drained, StreamInv
<1> QED BY <1>3, <1>4, <1>5 DEF IInv

\* A step that leaves the streams and their buffers alone keeps StreamInv.
LEMMA StreamsKept ==
  ASSUME NEW s, StreamInv(s),
         UNCHANGED <<call, count, c, staging, queue, dinput, doutput>>
  PROVE  StreamInv(s)'
<1>1. Started' = Started /\ \A k : Latest(s, k)' = Latest(s, k)
  BY DEF Started, Latest
<1>2. \A k : SizeOf(k)' = SizeOf(k) /\ TagsOf(k)' = TagsOf(k)
  BY DEF SizeOf, TagsOf
<1>3. \A k : AtCopy(s, k)' = AtCopy(s, k)
  BY <1>2 DEF AtCopy, H2d, Reduce, D2h, Holds
<1>4. \A k : AtReduce(s, k)' = AtReduce(s, k) /\ AtResult(s, k)' = AtResult(s, k)
  BY <1>2 DEF AtReduce, AtResult, Reduce, D2h, Holds
<1> QED BY <1>1, <1>3, <1>4 DEF StreamInv

LEMMA CudaFailsInv == ASSUME IInv, CudaFails PROVE IInv'
<1>1. /\ UNCHANGED <<call, count, c, staging, queue, device, returned>> /\ host' = "over"
  BY DEF CudaFails
<1>2. Types' /\ HostInv'
  BY <1>1 DEF IInv, Types, HostInv, device
<1>3. \A s \in Slots : StreamInv(s)'
  BY <1>1, StreamsKept DEF IInv, device
<1> QED BY <1>2, <1>3 DEF IInv

LEMMA StutterInv == ASSUME IInv, UNCHANGED vars PROVE IInv'
<1>1. Types'
  BY DEF vars, IInv, Types
<1>2. HostInv'
  BY DEF vars, IInv, HostInv, ResultInv, Drained, Started, Latest, SizeOf, TagsOf
<1>3. \A s \in Slots : StreamInv(s)'
  BY StreamsKept DEF vars, IInv
<1> QED BY <1>1, <1>2, <1>3 DEF IInv

LEMMA StepInv == ASSUME IInv, [Next]_vars PROVE IInv'
<1>1. CASE \E n \in Counts : Begin(n)
  BY <1>1, BeginInv
<1>2. CASE IssueChunk
  BY <1>2, IssueInv
<1>3. CASE \E s \in Slots : Execute(s)
  BY <1>3, ExecuteInv
<1>4. CASE Return
  BY <1>4, ReturnInv
<1>5. CASE CudaFails
  BY <1>5, CudaFailsInv
<1>6. CASE Finished \/ UNCHANGED vars
  BY <1>6, StutterInv DEF Finished
<1> QED BY <1>1, <1>2, <1>3, <1>4, <1>5, <1>6 DEF Next

-----------------------------------------------------------------------------
(* Theorems *)

\* Every reachable state of the reducer satisfies the inductive invariant.
THEOREM Invariance == Spec => []IInv
<1>1. IInv /\ [Next]_vars => IInv'
  BY StepInv
<1> QED BY InitInv, <1>1, PTL DEF Spec

\* What a stream with operations left is doing, spelled out.
LEMMA QueueShape ==
  ASSUME IInv, NEW s \in Slots
  PROVE  /\ Len(queue[s]) <= 3
         /\ \A i \in DOMAIN queue[s] : queue[s][i] \in Op
         /\ \A i \in DOMAIN queue[s] :
              /\ queue[s][i].op = "h2d" =>
                   \A j \in 0 .. queue[s][i].arg - 1 : staging[s][j][1] = call
              /\ queue[s][i].op = "d2h" /\ i = 1 => doutput[s] = TagsOf(queue[s][i].arg)
<1>1. CASE queue[s] = <<>>
  BY <1>1
<1>2. CASE queue[s] # <<>>
  <2>1. PICK k \in 0 .. MaxChunks - 1 :
          Started /\ Latest(s, k) /\ (AtCopy(s, k) \/ AtReduce(s, k) \/ AtResult(s, k))
    BY <1>2 DEF IInv, StreamInv
  <2>2. k \in Nat /\ k < ChunkCount(count) /\ Types
    BY <2>1, SlotsSuffice DEF IInv, Types, Latest, Started
  <2>3. SizeOf(k) \in 1 .. CC
    BY <2>1, <2>2, ChunkShape
  <2>4. H2d(k) \in Op /\ Reduce(k) \in Op /\ D2h(k) \in Op
    BY <2>3 DEF Op, H2d, Reduce, D2h, CC
  <2>5. /\ H2d(k).op = "h2d" /\ H2d(k).arg = SizeOf(k)
        /\ Reduce(k).op = "reduce" /\ D2h(k).op = "d2h" /\ D2h(k).arg = k
    BY DEF H2d, Reduce, D2h
  <2> HIDE DEF H2d, Reduce, D2h
  <2>6. CASE AtCopy(s, k)
    <3>1. queue[s] = <<H2d(k), Reduce(k), D2h(k)>>
      BY <2>6 DEF AtCopy
    <3>2. \A j \in 0 .. SizeOf(k) - 1 : staging[s][j][1] = call
      BY <2>6 DEF AtCopy, Holds
    <3>3. Len(queue[s]) = 3 /\ DOMAIN queue[s] = 1 .. 3
          /\ queue[s][1] = H2d(k) /\ queue[s][2] = Reduce(k) /\ queue[s][3] = D2h(k)
      BY <3>1
    <3> QED BY <2>4, <2>5, <3>2, <3>3
  <2>7. CASE AtReduce(s, k)
    <3>1. queue[s] = <<Reduce(k), D2h(k)>>
      BY <2>7 DEF AtReduce
    <3>2. Len(queue[s]) = 2 /\ DOMAIN queue[s] = 1 .. 2
          /\ queue[s][1] = Reduce(k) /\ queue[s][2] = D2h(k)
      BY <3>1
    <3> QED BY <2>4, <2>5, <3>2
  <2>8. CASE AtResult(s, k)
    <3>1. queue[s] = <<D2h(k)>> /\ doutput[s] = TagsOf(k)
      BY <2>8 DEF AtResult
    <3>2. Len(queue[s]) = 1 /\ DOMAIN queue[s] = 1 .. 1 /\ queue[s][1] = D2h(k)
      BY <3>1
    <3> QED BY <2>4, <2>5, <3>1, <3>2
  <2> QED BY <2>1, <2>6, <2>7, <2>8
<1> QED BY <1>1, <1>2

\* The state of the pipeline is well typed, and no stream is ever given more
\* than the operations of one chunk.
THEOREM TypeCorrect == Spec => []TypeOK
<1>1. ASSUME IInv PROVE TypeOK
  <2>1. \A s \in Slots : Len(queue[s]) <= 3 /\ \A i \in DOMAIN queue[s] : queue[s][i] \in Op
    BY <1>1, QueueShape
  <2> QED BY <1>1, <2>1 DEF TypeOK, IInv, Types, CC
<1> QED BY Invariance, <1>1, PTL

\* Staging buffers, device buffers and result slots are never reused before
\* their last use: a copy still queued reads data of the current call, and a
\* scalar is copied back to the slot of the chunk it was reduced from.
THEOREM DataKept == Spec => []ChunkIntegrity
<1>1. ASSUME IInv, TypeOK PROVE ChunkIntegrity
  BY <1>1, QueueShape DEF ChunkIntegrity, TagsOf, CC
<1> QED BY Invariance, TypeCorrect, <1>1, PTL

\* The chunks whose results contain an element: its own, if it is an element of
\* the current call, and none otherwise.
LEMMA CombinedOnce ==
  ASSUME IInv, host = "drain", Drained, NEW t \in Tags
  PROVE  Cardinality({k \in 0 .. c - 1 : t \in results[k]})
           = IF t[1] = call /\ t[2] < count THEN 1 ELSE 0
<1> DEFINE S == {k \in 0 .. c - 1 : t \in results[k]}
<1>1. Types /\ Started /\ ResultInv /\ c = ChunkCount(count) /\ c \in Nat /\ count \in Nat
  BY DEF IInv, HostInv, Types
<1>2. ASSUME NEW k \in 0 .. c - 1 PROVE results[k] = TagsOf(k)
  <2>1. k \in Nat /\ k % Streams \in Slots
    <3>1. k \in Nat
      BY <1>1
    <3> QED BY <3>1, Sizes, Residue DEF Slots
  <2> QED BY <1>1, <2>1 DEF ResultInv, Drained
<1>3. t[2] \in Nat
  BY DEF Tags
<1>4. CASE t[1] = call /\ t[2] < count
  <2>1. t[2] \div CC \in Nat /\ (t[2] \div CC) * CC <= t[2]
    BY <1>3, Sizes, Division
  <2>2. (t[2] \div CC) * CC < count
    <3>1. (t[2] \div CC) * CC \in Nat
      BY <2>1, Sizes
    <3> QED BY <1>1, <1>3, <1>4, <2>1, <3>1
  <2>3. t[2] \div CC < c
    BY <1>1, <2>1, <2>2, Sizes, Chunks DEF ChunkCount, CC
  <2>4. S = {t[2] \div CC}
    BY <1>1, <1>2, <1>4, <2>1, <2>3 DEF TagsOf
  <2> QED BY <1>4, <2>4, FS_Singleton
<1>5. CASE ~(t[1] = call /\ t[2] < count)
  <2>1. S = {}
    BY <1>2, <1>5 DEF TagsOf
  <2> QED BY <1>5, <2>1, FS_EmptySet
<1> QED BY <1>4, <1>5

\* reduce combines each element of its input once and nothing else, and refuses
\* only inputs longer than it was made for, whatever the chunk size, the number
\* of streams and the order in which they run.
THEOREM CallsExact == Spec => ReturnsWhole
<1> DEFINE Exact == /\ host' = "idle" => returned' = Whole(call', count')
                    /\ host = "idle" /\ host' = "over" => count' > MaxElements
<1>1. ASSUME IInv, Next PROVE Exact \/ UNCHANGED vars
  <2>1. ASSUME NEW n \in Counts, Begin(n) PROVE Exact
    <3>1. n \in Nat
      OBVIOUS
    <3>2. ASSUME host' = "idle" PROVE returned' = Whole(call', count')
      <4>1. count' = 0 /\ returned' = Nothing
        BY <2>1, <3>2 DEF Begin
      <4>2. \A t \in Tags : ~(t[2] < 0)
        BY DEF Tags
      <4> QED BY <4>1, <4>2 DEF Whole, Nothing
    <3>3. ASSUME host' = "over" PROVE count' > MaxElements
      <4>1. count' = n /\ (n > MaxElements \/ ChunkCount(n) > MaxChunks)
        BY <2>1, <3>3 DEF Begin
      <4> QED BY <3>1, <4>1, Sizes, SlotsSuffice
    <3> QED BY <3>2, <3>3
  <2>2. CASE IssueChunk
    BY <2>2 DEF IssueChunk
  <2>3. ASSUME NEW s \in Slots, Execute(s) PROVE Exact
    <3>1. host' = host /\ host # "idle"
      BY <1>1, <2>3 DEF Execute, IInv, HostInv, Drained
    <3> QED BY <3>1
  <2>4. CASE Return
    <3>1. /\ host = "drain" /\ host' = "idle" /\ call' = call /\ count' = count
          /\ returned' = [t \in Tags |-> Cardinality({k \in 0 .. c - 1 : t \in results[k]})]
      BY <2>4 DEF Return
    <3>2. returned' = Whole(call, count)
      <4>1. \A t \in Tags : Cardinality({k \in 0 .. c - 1 : t \in results[k]})
                              = IF t[1] = call /\ t[2] < count THEN 1 ELSE 0
        BY <1>1, <2>4, <3>1, CombinedOnce DEF Return
      <4> QED BY <3>1, <4>1 DEF Whole
    <3>3. Whole(call, count)' = Whole(call, count)
      BY <3>1 DEF Whole
    <3> QED BY <3>1, <3>2, <3>3 DEF Whole
  <2>5. CASE CudaFails
    BY <2>5 DEF CudaFails
  <2>6. CASE Finished
    BY <2>6 DEF Finished
  <2> QED BY <1>1, <2>1, <2>2, <2>3, <2>4, <2>5, <2>6 DEF Next
<1>2. IInv /\ [Next]_vars => [Exact]_vars
  BY <1>1
<1> QED BY Invariance, <1>2, PTL DEF Spec, ReturnsWhole
-----------------------------------------------------------------------------
(* FilePipeline *)

FileH2d(n)    == [op |-> "h2d", count |-> n]
FileReduce(n) == [op |-> "reduce", count |-> n]
FileD2h       == [op |-> "d2h", count |-> 1]

\* The elements S are on their way through stream s, or have arrived.
Carries(s, S) ==
  \/ slotQueue[s] = <<>> /\ houtput[s] = S
  \/ slotQueue[s] = <<FileD2h>> /\ slotOutput[s] = S
  \/ \E n \in 0 .. Capacity :
       slotQueue[s] = <<FileReduce(n), FileD2h>> /\ {slotInput[s][i] : i \in 0 .. n - 1} = S
  \/ \E n \in 0 .. Capacity :
       slotQueue[s] = <<FileH2d(n), FileReduce(n), FileD2h>> /\ {slotStaging[s][i] : i \in 0 .. n - 1} = S

Nobodys(h, e) == \A s \in Ring : pending[s] => e \notin h[s]

\* Slot s carries h[s]; the rest of what was read is merged.
Shared(h) ==
  /\ \A s \in Ring : pending[s] => h[s] \subseteq 0 .. next - 1 /\ Carries(s, h[s])
  /\ \A r, s \in Ring : pending[r] /\ pending[s] /\ r # s => h[r] \cap h[s] = {}
  /\ \A e \in Elements : merged[e] = IF e < next /\ Nobodys(h, e) THEN 1 ELSE 0

NonePending == \A s \in Ring : ~ pending[s]

FileHostInv ==
  /\ reader \in {"idle", "open"} => NonePending
  /\ reader = "open" => merged = Identity
  /\ reader \in {"chunks", "collect"} => \E h \in [Ring -> SUBSET Elements] : Shared(h)
  /\ reader = "chunks" => next < N
  /\ reader = "collect" => next = N

FileTypes ==
  /\ slots \in Nat \ {0}
  /\ reader \in {"idle", "open", "chunks", "collect", "over"}
  /\ round \in 0 .. ReuseCount - 1
  /\ next \in 0 .. N
  /\ pending \in [Ring -> BOOLEAN]
  /\ DOMAIN slotStaging = Ring /\ DOMAIN slotInput = Ring
  /\ DOMAIN slotOutput = Ring /\ DOMAIN houtput = Ring
  /\ DOMAIN slotQueue = Ring
  /\ merged \in [Elements -> Nat]

FileInv ==
  /\ FileTypes /\ FileHostInv
  /\ \A s \in Ring : ~ pending[s] => slotQueue[s] = <<>>
  /\ slots = 1 => NonePending

LEMMA FileConstants ==
  /\ N \in Nat /\ Capacity \in Nat \ {0} /\ ReuseCount \in Nat \ {0}
  /\ \A n \in SlotCounts : n \in Nat \ {0}
BY FileAssumption

USE FileConstants

-----------------------------------------------------------------------------
(* The invariant *)

LEMMA FileInitInv == FileInit => FileInv
<1> SUFFICES ASSUME FileInit PROVE FileInv
  OBVIOUS
<1>1. FileTypes
  BY DEF FileInit, FileTypes, Ring, Identity
<1> QED BY <1>1 DEF FileInit, FileInv, FileHostInv, NonePending

LEMMA FileBeginInv == ASSUME FileInv, BeginRange PROVE FileInv'
<1>1. FileTypes'
  BY DEF BeginRange, FileInv, FileTypes, Identity, Ring, slotDevice
<1> QED BY <1>1 DEF BeginRange, FileInv, FileHostInv, NonePending, Ring

LEMMA OpenInv == ASSUME FileInv, Open PROVE FileInv'
<1>1. FileTypes'
  BY DEF Open, FileInv, FileTypes, Ring, slotDevice
<1>2. NonePending /\ NonePending' /\ merged = Identity /\ merged' = Identity /\ next' = 0
  BY DEF Open, FileInv, FileHostInv, NonePending, Ring
<1>3. \E h \in [Ring' -> SUBSET Elements] : Shared(h)'
  <2>1. PICK h : h = [s \in Ring' |-> {}]
    OBVIOUS
  <2>2. ASSUME NEW e \in Elements PROVE merged'[e] = 0 /\ ~(e < next')
    BY <1>2, <2>2 DEF Identity, Elements
  <2>3. Shared(h)'
    BY <1>2, <2>2 DEF Shared, NonePending
  <2> QED BY <2>1, <2>3
<1> QED BY <1>1, <1>2, <1>3 DEF Open, FileInv, FileHostInv, NonePending, Ring

\* What is merged after a slot was collected, or after a chunk was reduced at once.
LEMMA Combined ==
  ASSUME FileTypes, NEW S
  PROVE  /\ Combine(merged, S) \in [Elements -> Nat]
         /\ \A e \in Elements : Combine(merged, S)[e] = merged[e] + (IF e \in S THEN 1 ELSE 0)
BY DEF Combine, FileTypes

LEMMA CollectInv ==
  ASSUME FileInv, NEW s \in Ring, pending[s], reader \in {"chunks", "collect"}, Collect(s),
         reader' = reader
  PROVE  FileInv'
<1>1. /\ slotQueue[s] = <<>> /\ merged' = Combine(merged, houtput[s])
      /\ pending' = [pending EXCEPT ![s] = FALSE]
      /\ UNCHANGED <<slots, round, next, slotStaging, slotInput, slotOutput, houtput, slotQueue>>
      /\ Ring' = Ring
  BY DEF Collect, slotDevice, Ring
<1>2. FileTypes /\ FileTypes'
  BY <1>1, Combined DEF FileInv, FileTypes
<1>3. \A r \in Ring : pending'[r] = (r # s /\ pending[r])
  BY <1>1, <1>2 DEF FileTypes
<1>4. PICK h \in [Ring -> SUBSET Elements] : Shared(h)
  BY DEF FileInv, FileHostInv
<1>5. h[s] = houtput[s] /\ h[s] \subseteq 0 .. next - 1
  <2>1. \A x, y, z : <<>> # <<x>> /\ <<>> # <<x, y>> /\ <<>> # <<x, y, z>>
    OBVIOUS
  <2>2. Carries(s, h[s]) /\ h[s] \subseteq 0 .. next - 1
    BY <1>4 DEF Shared
  <2> QED BY <1>1, <2>1, <2>2 DEF Carries
<1>6. Shared(h)'
  <2>1. ASSUME NEW r \in Ring, pending'[r]
        PROVE  h[r] \subseteq 0 .. next' - 1 /\ Carries(r, h[r])'
    BY <1>1, <1>3, <1>4, <2>1 DEF Shared, Carries
  <2>2. \A r, t \in Ring : pending'[r] /\ pending'[t] /\ r # t => h[r] \cap h[t] = {}
    BY <1>3, <1>4 DEF Shared
  <2>3. ASSUME NEW e \in Elements
        PROVE  merged'[e] = IF e < next /\ Nobodys(h, e)' THEN 1 ELSE 0
    <3>1. merged'[e] = merged[e] + (IF e \in h[s] THEN 1 ELSE 0)
      BY <1>1, <1>2, <1>5, Combined
    <3>2. merged[e] = IF e < next /\ Nobodys(h, e) THEN 1 ELSE 0
      BY <1>4 DEF Shared
    <3>3. CASE e \in h[s]
      <4>1. e < next /\ ~ Nobodys(h, e)
        BY <1>2, <1>5, <3>3 DEF Nobodys, FileTypes, Elements
      <4>2. Nobodys(h, e)'
        BY <1>1, <1>3, <1>4, <3>3 DEF Nobodys, Shared
      <4> QED BY <3>1, <3>2, <3>3, <4>1, <4>2
    <3>4. CASE e \notin h[s]
      <4>1. Nobodys(h, e)' <=> Nobodys(h, e)
        BY <1>1, <1>3, <3>4 DEF Nobodys
      <4>2. merged[e] \in Nat
        BY <1>2 DEF FileTypes
      <4> QED BY <3>1, <3>2, <3>4, <4>1, <4>2
    <3> QED BY <3>3, <3>4
  <2> QED BY <1>1, <2>1, <2>2, <2>3 DEF Shared
<1>7. FileHostInv'
  BY <1>1, <1>4, <1>6 DEF FileInv, FileHostInv
<1>8. slots' = 1 => NonePending'
  BY <1>1, <1>3 DEF FileInv, NonePending
<1>9. \A r \in Ring : ~ pending'[r] => slotQueue'[r] = <<>>
  BY <1>1, <1>3 DEF FileInv
<1> QED BY <1>1, <1>2, <1>7, <1>8, <1>9 DEF FileInv

\* The next chunk: its length, its slot, and that the filled buffer starts with it.
LEMMA NextChunk ==
  ASSUME FileTypes, next < N
  PROVE  /\ Slot \in Ring /\ Length \in 1 .. Capacity /\ next + Length <= N
         /\ {Filled[i] : i \in 0 .. Length - 1} = next .. next + Length - 1
<1>1. next \in Nat /\ N \in Nat /\ Capacity \in Nat \ {0} /\ slots \in Nat \ {0}
  BY DEF FileTypes
<1>2. Length \in 1 .. Capacity /\ next + Length <= N
  BY <1>1 DEF Length
<1>3. Slot \in Ring
  <2>1. next \div Capacity \in Nat
    BY <1>1
  <2> QED BY <1>1, <2>1 DEF Slot, Ring
<1>4. ASSUME NEW i \in 0 .. Length - 1 PROVE Filled[i] = next + i
  BY <1>1, <1>2 DEF Filled, Indices
<1>5. {Filled[i] : i \in 0 .. Length - 1} = {next + i : i \in 0 .. Length - 1}
  BY <1>4
<1>6. {next + i : i \in 0 .. Length - 1} = next .. next + Length - 1
  <2>1. ASSUME NEW e \in next .. next + Length - 1
        PROVE  \E i \in 0 .. Length - 1 : e = next + i
    <3>1. e - next \in 0 .. Length - 1 /\ e = next + (e - next)
      BY <1>1, <1>2
    <3> QED BY <3>1
  <2>2. \A i \in 0 .. Length - 1 : next + i \in next .. next + Length - 1
    BY <1>1, <1>2
  <2> QED BY <2>1, <2>2
<1> QED BY <1>2, <1>3, <1>5, <1>6

LEMMA FileIssueInv == ASSUME FileInv, QueueChunk PROVE FileInv'
<1> SUFFICES ASSUME NEW s, s = Slot, NEW n, n = Length PROVE FileInv'
  OBVIOUS
<1>1. /\ FileTypes /\ reader = "chunks" /\ next < N /\ ~ pending[s] /\ slots > 1
      /\ slotStaging' = [slotStaging EXCEPT ![s] = Filled]
      /\ slotQueue' = [slotQueue EXCEPT ![s] = @ \o <<FileH2d(n), FileReduce(n), FileD2h>>]
      /\ pending' = [pending EXCEPT ![s] = TRUE]
      /\ next' = next + n
      /\ reader' = IF next + n < N THEN "chunks" ELSE "collect"
      /\ UNCHANGED <<slots, round, slotInput, slotOutput, houtput, merged>> /\ Ring' = Ring
  BY DEF FileInv, FileHostInv, QueueChunk, InUse, Operations, FileH2d, FileReduce,
         FileD2h,
         slotDevice, Ring
<1>2. /\ s \in Ring /\ n \in 1 .. Capacity /\ next + n <= N
      /\ {Filled[i] : i \in 0 .. n - 1} = next .. next + n - 1
      /\ next \in Nat /\ N \in Nat
  BY <1>1, NextChunk DEF FileTypes
<1>3. FileTypes'
  BY <1>1, <1>2 DEF FileTypes
<1>4. \A r \in Ring : pending'[r] = (r = s \/ pending[r])
  BY <1>1, <1>2 DEF FileTypes
<1>5. PICK h \in [Ring -> SUBSET Elements] : Shared(h)
  BY <1>1 DEF FileInv, FileHostInv
<1>6. PICK g \in [Ring -> SUBSET Elements] : g = [h EXCEPT ![s] = next .. next + n - 1]
  <2>1. next .. next + n - 1 \in SUBSET Elements
    BY <1>2 DEF Elements
  <2> QED BY <2>1
<1>7. g[s] = next .. next + n - 1 /\ \A r \in Ring : r # s => g[r] = h[r]
  BY <1>2, <1>6
<1>8. \A r \in Ring : pending[r] => h[r] \subseteq 0 .. next - 1
  BY <1>5 DEF Shared
<1>9. Carries(s, g[s])'
  <2>1. slotQueue[s] = <<>>
    BY <1>1, <1>2 DEF FileInv
  <2>2. slotQueue'[s] = <<FileH2d(n), FileReduce(n), FileD2h>>
    BY <1>1, <1>2, <2>1 DEF FileTypes
  <2>3. slotStaging'[s] = Filled
    BY <1>1, <1>2 DEF FileTypes
  <2>4. {slotStaging'[s][i] : i \in 0 .. n - 1} = g[s]
    <3>1. {slotStaging'[s][i] : i \in 0 .. n - 1} = {Filled[i] : i \in 0 .. n - 1}
      BY <2>3
    <3> QED BY <1>2, <1>7, <3>1
  <2> QED BY <1>2, <2>2, <2>4 DEF Carries
<1>10. ASSUME NEW r \in Ring, r # s, pending[r] PROVE Carries(r, g[r])'
  <2>1. /\ slotQueue'[r] = slotQueue[r] /\ slotStaging'[r] = slotStaging[r] /\ slotInput' = slotInput
        /\ slotOutput' = slotOutput /\ houtput' = houtput /\ g[r] = h[r]
    BY <1>1, <1>2, <1>7, <1>10 DEF FileTypes
  <2>2. Carries(r, h[r])
    BY <1>5, <1>10 DEF Shared
  <2> QED BY <2>1, <2>2 DEF Carries
<1>11. Shared(g)'
  <2>1. ASSUME NEW r \in Ring, pending'[r]
        PROVE  g[r] \subseteq 0 .. next' - 1 /\ Carries(r, g[r])'
    <3>1. CASE r = s
      BY <1>1, <1>2, <1>7, <1>9, <3>1
    <3>2. CASE r # s
      BY <1>1, <1>2, <1>4, <1>7, <1>8, <1>10, <2>1, <3>2
    <3> QED BY <3>1, <3>2
  <2>2. ASSUME NEW r \in Ring, pending[r], r # s PROVE g[r] \cap g[s] = {}
    BY <1>2, <1>7, <1>8, <2>2
  <2>3. ASSUME NEW r \in Ring, NEW t \in Ring, pending'[r], pending'[t], r # t
        PROVE  g[r] \cap g[t] = {}
    BY <1>4, <1>5, <1>7, <2>2, <2>3 DEF Shared
  <2>4. ASSUME NEW e \in Elements
        PROVE  merged'[e] = IF e < next' /\ Nobodys(g, e)' THEN 1 ELSE 0
    <3>1. merged'[e] = IF e < next /\ Nobodys(h, e) THEN 1 ELSE 0
      BY <1>1, <1>5 DEF Shared
    <3>2. CASE e < next
      <4>1. e \notin g[s] /\ e < next'
        BY <1>1, <1>2, <1>7, <3>2 DEF Elements
      <4>2. Nobodys(g, e)' <=> Nobodys(h, e)
        BY <1>1, <1>4, <1>7, <4>1 DEF Nobodys
      <4> QED BY <3>1, <3>2, <4>1, <4>2
    <3>3. CASE ~(e < next)
      <4>1. e < next' => e \in g[s]
        BY <1>1, <1>2, <1>7, <3>3 DEF Elements
      <4>2. e \in g[s] => ~ Nobodys(g, e)'
        BY <1>1, <1>2, <1>4 DEF Nobodys
      <4> QED BY <3>1, <3>3, <4>1, <4>2
    <3> QED BY <3>2, <3>3
  <2> QED BY <1>1, <2>1, <2>3, <2>4 DEF Shared
<1>12. FileHostInv'
  <2>1. \E k \in [Ring' -> SUBSET Elements] : Shared(k)'
    BY <1>1, <1>11
  <2>2. /\ reader' \in {"chunks", "collect"}
        /\ reader' = "chunks" => next' < N
        /\ reader' = "collect" => next' = N
    BY <1>1, <1>2
  <2> QED BY <2>1, <2>2 DEF FileHostInv
<1>13. \A r \in Ring : ~ pending'[r] => slotQueue'[r] = <<>>
  BY <1>1, <1>2, <1>4 DEF FileInv, FileTypes
<1> QED BY <1>1, <1>3, <1>12, <1>13 DEF FileInv

LEMMA FileReduceInv == ASSUME FileInv, ReduceChunk PROVE FileInv'
<1> SUFFICES ASSUME NEW n, n = Length PROVE FileInv'
  OBVIOUS
<1>1. /\ FileTypes /\ reader = "chunks" /\ next < N /\ slots = 1 /\ NonePending
      /\ slotStaging' = [slotStaging EXCEPT ![0] = Filled]
      /\ slotInput' = [slotInput EXCEPT ![0] = [i \in Indices |-> IF i < n THEN Filled[i] ELSE @[i]]]
      /\ slotOutput' = [slotOutput EXCEPT ![0] = {slotInput'[0][i] : i \in 0 .. n - 1}]
      /\ houtput' = slotOutput' /\ merged' = Combine(merged, houtput'[0])
      /\ next' = next + n
      /\ reader' = IF next + n < N THEN "chunks" ELSE "collect"
      /\ UNCHANGED <<slots, round, pending, slotQueue>> /\ Ring' = Ring
  BY DEF FileInv, FileHostInv, ReduceChunk, Ring
<1>2. /\ 0 \in Ring /\ n \in 1 .. Capacity /\ next + n <= N
      /\ {Filled[i] : i \in 0 .. n - 1} = next .. next + n - 1
      /\ next \in Nat /\ N \in Nat
  BY <1>1, NextChunk DEF FileTypes, Ring
<1>3. houtput'[0] = next .. next + n - 1
  <2>1. \A i \in 0 .. n - 1 : slotInput'[0][i] = Filled[i]
    BY <1>1, <1>2 DEF FileTypes, Indices
  <2>2. {slotInput'[0][i] : i \in 0 .. n - 1} = {Filled[i] : i \in 0 .. n - 1}
    BY <2>1
  <2>3. houtput'[0] = {slotInput'[0][i] : i \in 0 .. n - 1}
    BY <1>1, <1>2 DEF FileTypes
  <2> QED BY <1>2, <2>2, <2>3
<1>4. FileTypes'
  BY <1>1, <1>2, Combined DEF FileTypes
<1>5. PICK h \in [Ring -> SUBSET Elements] : Shared(h)
  BY <1>1 DEF FileInv, FileHostInv
<1>6. Shared(h)'
  <2>1. ASSUME NEW e \in Elements PROVE merged'[e] = IF e < next' THEN 1 ELSE 0
    <3>1. PICK S : S = next .. next + n - 1
      OBVIOUS
    <3>2. merged'[e] = merged[e] + (IF e \in next .. next + n - 1 THEN 1 ELSE 0)
      <4>1. merged' = Combine(merged, S)
        BY <1>1, <1>3, <3>1
      <4>2. merged'[e] = merged[e] + (IF e \in S THEN 1 ELSE 0)
        BY <1>1, <4>1, Combined
      <4> QED BY <3>1, <4>2
    <3>3. merged[e] = IF e < next THEN 1 ELSE 0
      BY <1>1, <1>5 DEF Shared, Nobodys, NonePending
    <3> QED BY <1>1, <1>2, <3>2, <3>3 DEF Elements
  <2> QED BY <1>1, <2>1 DEF Shared, Nobodys, NonePending
<1>7. FileHostInv'
  <2>1. \E k \in [Ring' -> SUBSET Elements] : Shared(k)'
    BY <1>1, <1>6
  <2>2. /\ reader' \in {"chunks", "collect"}
        /\ reader' = "chunks" => next' < N
        /\ reader' = "collect" => next' = N
    BY <1>1, <1>2
  <2> QED BY <2>1, <2>2 DEF FileHostInv
<1>8. NonePending' /\ \A s \in Ring' : slotQueue'[s] = slotQueue[s] /\ pending'[s] = pending[s]
  BY <1>1 DEF NonePending
<1> QED BY <1>1, <1>4, <1>7, <1>8 DEF FileInv

\* A stream that executes an operation carries what it carried.
LEMMA ExecuteCarries ==
  ASSUME FileTypes, NEW s \in Ring, ExecuteNext(s), NEW S, Carries(s, S)
  PROVE  Carries(s, S)'
<1>1. slotQueue[s] # <<>> /\ slotQueue' = [slotQueue EXCEPT ![s] = Tail(@)] /\ slotQueue'[s] = Tail(slotQueue[s])
  BY DEF ExecuteNext, FileTypes
<1>2. CASE slotQueue[s] = <<FileD2h>> /\ slotOutput[s] = S
  <2>1. Head(slotQueue[s]).op = "d2h" /\ Tail(slotQueue[s]) = <<>>
    BY <1>2 DEF FileD2h
  <2>2. houtput'[s] = S
    BY <1>2, <2>1 DEF ExecuteNext, FileTypes
  <2> QED BY <1>1, <2>1, <2>2 DEF Carries
<1>3. ASSUME NEW n \in 0 .. Capacity, slotQueue[s] = <<FileReduce(n), FileD2h>>,
             {slotInput[s][i] : i \in 0 .. n - 1} = S
      PROVE  Carries(s, S)'
  <2>1. Head(slotQueue[s]) = FileReduce(n) /\ Tail(slotQueue[s]) = <<FileD2h>>
    BY <1>3
  <2>2. slotOutput' = [slotOutput EXCEPT ![s] = {slotInput[s][i] : i \in 0 .. n - 1}]
    BY <2>1 DEF ExecuteNext, FileReduce
  <2>3. slotOutput'[s] = S
    BY <1>3, <2>2 DEF FileTypes
  <2> QED BY <1>1, <2>1, <2>3 DEF Carries
<1>4. ASSUME NEW n \in 0 .. Capacity, slotQueue[s] = <<FileH2d(n), FileReduce(n), FileD2h>>,
             {slotStaging[s][i] : i \in 0 .. n - 1} = S
      PROVE  Carries(s, S)'
  <2>1. Head(slotQueue[s]) = FileH2d(n) /\ Tail(slotQueue[s]) = <<FileReduce(n), FileD2h>>
    BY <1>4
  <2>2. slotInput' = [slotInput EXCEPT ![s] = [i \in Indices |-> IF i < n THEN slotStaging[s][i] ELSE @[i]]]
    BY <2>1 DEF ExecuteNext, FileH2d
  <2>3. \A i \in 0 .. n - 1 : slotInput'[s][i] = slotStaging[s][i]
    BY <2>2 DEF FileTypes, Indices
  <2>4. {slotInput'[s][i] : i \in 0 .. n - 1} = S
    BY <1>4, <2>3
  <2> QED BY <1>1, <2>1, <2>4 DEF Carries
<1> QED BY <1>1, <1>2, <1>3, <1>4 DEF Carries

LEMMA FileExecuteInv == ASSUME FileInv, NEW s \in Ring, ExecuteNext(s) PROVE FileInv'
<1>1. /\ slotQueue[s] # <<>> /\ slotQueue' = [slotQueue EXCEPT ![s] = Tail(@)]
      /\ UNCHANGED <<slots, reader, round, next, pending, slotStaging, merged>> /\ Ring' = Ring
  BY DEF ExecuteNext, Ring
<1>2. FileTypes /\ FileTypes'
  BY <1>1 DEF ExecuteNext, FileInv, FileTypes
<1>3. \A r \in Ring : r # s => /\ slotQueue'[r] = slotQueue[r] /\ slotInput'[r] = slotInput[r]
                               /\ slotOutput'[r] = slotOutput[r] /\ houtput'[r] = houtput[r]
  BY <1>1, <1>2 DEF ExecuteNext, FileTypes
<1>4. pending[s]
  BY <1>1 DEF FileInv
<1>5. reader \notin {"idle", "open"} /\ slots # 1
  BY <1>4 DEF FileInv, FileHostInv, NonePending
<1>6. ASSUME NEW h \in [Ring -> SUBSET Elements], Shared(h) PROVE Shared(h)'
  <2>1. ASSUME NEW r \in Ring, pending[r] PROVE Carries(r, h[r])'
    <3>1. Carries(r, h[r])
      BY <1>6, <2>1 DEF Shared
    <3>2. CASE r = s
      BY <1>2, <3>1, <3>2, ExecuteCarries
    <3>3. CASE r # s
      <4>1. slotQueue'[r] = slotQueue[r] /\ slotInput'[r] = slotInput[r] /\ slotOutput'[r] = slotOutput[r]
            /\ houtput'[r] = houtput[r] /\ slotStaging' = slotStaging
        BY <1>1, <1>3, <3>3
      <4>2. \A n : /\ {slotInput'[r][i] : i \in 0 .. n - 1} = {slotInput[r][i] : i \in 0 .. n - 1}
                   /\ {slotStaging'[r][i] : i \in 0 .. n - 1} = {slotStaging[r][i] : i \in 0 .. n - 1}
        BY <4>1
      <4> QED BY <3>1, <4>1, <4>2 DEF Carries
    <3> QED BY <3>2, <3>3
  <2> QED BY <1>1, <1>6, <2>1 DEF Shared, Nobodys
<1>7. FileHostInv'
  BY <1>1, <1>5, <1>6 DEF FileInv, FileHostInv
<1>8. \A r \in Ring : ~ pending'[r] => slotQueue'[r] = <<>>
  BY <1>1, <1>3, <1>4 DEF FileInv
<1> QED BY <1>1, <1>2, <1>5, <1>7, <1>8 DEF FileInv

LEMMA EndRoundInv == ASSUME FileInv, EndRound PROVE FileInv'
<1>1. FileTypes' /\ NonePending'
  BY DEF EndRound, FileInv, FileTypes, Identity, NonePending, Ring, slotDevice
<1> QED BY <1>1 DEF EndRound, FileInv, FileHostInv, Ring

LEMMA QuietInv == ASSUME FileInv, Fail \/ RangeDone \/ UNCHANGED fileVars PROVE FileInv'
<1>1. /\ UNCHANGED <<slots, round, next, pending, slotStaging, slotInput, slotOutput, houtput, slotQueue, merged>>
      /\ reader' \in {"over", reader} /\ Ring' = Ring
  BY DEF Fail, RangeDone, fileVars, slotDevice, Ring
<1>2. FileTypes' /\ (NonePending' <=> NonePending)
  BY <1>1 DEF FileInv, FileTypes, NonePending
<1>3. FileHostInv'
  <2>1. CASE reader' = "over"
    BY <2>1 DEF FileHostInv
  <2>2. CASE reader' = reader
    BY <1>1, <1>2, <2>2 DEF FileInv, FileHostInv, Shared, Carries, Nobodys
  <2> QED BY <1>1, <2>1, <2>2
<1> QED BY <1>1, <1>2, <1>3 DEF FileInv

LEMMA FileNextInv == FileInv /\ [FileNext]_(fileVars) => FileInv'
<1> SUFFICES ASSUME FileInv, [FileNext]_(fileVars) PROVE FileInv'
  OBVIOUS
<1>1. CASE WaitForSlot
  <2>1. Slot \in Ring
    BY <1>1, NextChunk DEF WaitForSlot, FileInv, FileHostInv
  <2> QED BY <1>1, <2>1, CollectInv DEF WaitForSlot, InUse
<1>2. CASE CollectSlot
  BY <1>2, CollectInv DEF CollectSlot
<1> QED BY <1>1, <1>2, FileBeginInv, OpenInv, FileIssueInv, FileReduceInv, FileExecuteInv, EndRoundInv,
           QuietInv
        DEF FileNext

\* The invariant holds of every reachable state: what was read of the range in a
\* round of reduce_gpu_file_range is merged or in exactly one pending slot.
THEOREM FileInvariance == FileSpec => []FileInv
<1>1. FileInit => FileInv
  BY FileInitInv
<1> QED BY <1>1, FileNextInv, PTL DEF FileSpec

-----------------------------------------------------------------------------
(* Refinement *)

LEMMA QuietStep ==
  ASSUME UNCHANGED <<lastValue, Absorbed>>,
         Phase' = Phase \/ Phase' = "over"
  PROVE  [Abstract!Next]_(Abstract!absVars)
<1>1. Phase \in {"idle", "over", "running"}
  BY DEF Phase
<1> QED BY <1>1 DEF Abstract!Next, Abstract!Fail, Abstract!absVars

\* Combining elements that nobody had combined before.
LEMMA AbsorbStep ==
  ASSUME FileTypes, Phase = "running", Phase' = Phase, round' = round,
         lastValue' = lastValue,
         NEW S \in SUBSET Elements, \A e \in S : merged[e] = 0,
         merged' = Combine(merged, S)
  PROVE  [Abstract!Next]_(Abstract!absVars)
<1>1. \A e \in Elements : merged'[e] = merged[e] + (IF e \in S THEN 1 ELSE 0) /\ merged[e] \in Nat
  BY Combined DEF FileTypes
<1>2. CASE round = ReuseCount - 1
  <2>1. Absorbed' = Absorbed \cup S /\ S \in SUBSET (Elements \ Absorbed)
    BY <1>1, <1>2 DEF Absorbed
  <2> QED BY <2>1 DEF Abstract!Next, Abstract!Absorb, Abstract!Elements, Elements
<1>3. CASE round # ReuseCount - 1
  BY <1>3, QuietStep DEF Absorbed
<1> QED BY <1>2, <1>3

LEMMA CollectStep ==
  ASSUME FileInv, NEW s \in Ring, pending[s], reader \in {"chunks", "collect"}, Collect(s),
         reader' = reader
  PROVE  [Abstract!Next]_(Abstract!absVars)
<1>1. PICK h \in [Ring -> SUBSET Elements] : Shared(h)
  BY DEF FileInv, FileHostInv
<1>2. slotQueue[s] = <<>> /\ Carries(s, h[s])
  BY <1>1 DEF Shared, Collect
<1>3. \A x, y, z : <<>> # <<x>> /\ <<>> # <<x, y>> /\ <<>> # <<x, y, z>>
  OBVIOUS
<1>4. houtput[s] = h[s]
  BY <1>2, <1>3 DEF Carries
<1>5. \A e \in h[s] : merged[e] = 0
  BY <1>1 DEF Shared, Nobodys
<1>6. merged' = Combine(merged, h[s]) /\ round' = round /\ lastValue' = lastValue
  BY <1>4 DEF Collect
<1> QED BY <1>5, <1>6, AbsorbStep DEF FileInv, Phase

LEMMA ReduceStep ==
  ASSUME FileInv, ReduceChunk
  PROVE  [Abstract!Next]_(Abstract!absVars)
<1> SUFFICES ASSUME NEW n, n = Length PROVE [Abstract!Next]_(Abstract!absVars)
  OBVIOUS
<1>1. /\ FileTypes /\ reader = "chunks" /\ next < N /\ NonePending
      /\ slotInput' = [slotInput EXCEPT ![0] = [i \in Indices |-> IF i < n THEN Filled[i] ELSE @[i]]]
      /\ slotOutput' = [slotOutput EXCEPT ![0] = {slotInput'[0][i] : i \in 0 .. n - 1}]
      /\ houtput' = slotOutput' /\ merged' = Combine(merged, houtput'[0])
      /\ reader' \in {"chunks", "collect"} /\ round' = round /\ lastValue' = lastValue /\ 0 \in Ring
  BY DEF FileInv, FileHostInv, ReduceChunk, Ring
<1>2. /\ n \in 1 .. Capacity /\ next + n <= N /\ next \in Nat /\ N \in Nat
      /\ {Filled[i] : i \in 0 .. n - 1} = next .. next + n - 1
  BY <1>1, NextChunk DEF FileTypes
<1>3. merged' = Combine(merged, next .. next + n - 1)
  <2>1. \A i \in 0 .. n - 1 : slotInput'[0][i] = Filled[i]
    BY <1>1, <1>2 DEF FileTypes, Indices
  <2>2. {slotInput'[0][i] : i \in 0 .. n - 1} = {Filled[i] : i \in 0 .. n - 1}
    BY <2>1
  <2>3. houtput'[0] = {slotInput'[0][i] : i \in 0 .. n - 1}
    BY <1>1 DEF FileTypes
  <2> QED BY <1>1, <1>2, <2>2, <2>3
<1>4. PICK S \in SUBSET Elements : S = next .. next + n - 1
  <2>1. next .. next + n - 1 \in SUBSET Elements
    BY <1>2 DEF Elements
  <2> QED BY <2>1
<1>5. \A e \in S : merged[e] = 0
  <2>1. PICK h : Shared(h)
    BY <1>1 DEF FileInv, FileHostInv
  <2> QED BY <1>2, <1>4, <2>1 DEF Shared
<1>6. Phase = "running" /\ Phase' = Phase
  BY <1>1 DEF Phase
<1> QED BY <1>1, <1>3, <1>4, <1>5, <1>6, AbsorbStep

LEMMA EndStep ==
  ASSUME FileInv, EndRound
  PROVE  [Abstract!Next]_(Abstract!absVars)
<1>1. \A e \in Elements : merged[e] = 1
  <2>1. PICK h : Shared(h)
    BY DEF FileInv, FileHostInv, EndRound
  <2>2. next = N /\ NonePending /\ N \in Nat
    BY DEF FileInv, FileHostInv, EndRound, NonePending
  <2> QED BY <2>1, <2>2 DEF Shared, Nobodys, NonePending, Elements
<1>2. round \in 0 .. ReuseCount - 1 /\ reader = "collect" /\ merged \in [Elements -> Nat]
  BY DEF FileInv, FileTypes, EndRound
<1>3. CASE round + 1 < ReuseCount
  <2>1. Absorbed = {} /\ Absorbed' = {}
    BY <1>2, <1>3 DEF EndRound, Absorbed, Identity
  <2>2. Phase' = Phase /\ lastValue' = lastValue
    BY <1>2, <1>3 DEF EndRound, Phase
  <2> QED BY <2>1, <2>2, QuietStep
<1>4. CASE ~(round + 1 < ReuseCount)
  <2>1. round = ReuseCount - 1 /\ round' = round /\ merged' = merged /\ lastValue' = merged
    BY <1>2, <1>4 DEF EndRound
  <2>2. Absorbed = Elements /\ Absorbed' = Absorbed
    BY <1>1, <2>1 DEF Absorbed
  <2>3. lastValue' = [e \in Elements |-> 1]
    BY <1>1, <1>2, <2>1
  <2>4. Phase = "running" /\ Phase' = "idle"
    BY <1>2, <1>4 DEF EndRound, Phase
  <2> QED BY <2>2, <2>3, <2>4
          DEF Abstract!Next, Abstract!Return, Abstract!Elements, Abstract!Total,
              Elements
<1> QED BY <1>3, <1>4

LEMMA FileAbstractInit == FileInit => Abstract!Init
BY DEF FileInit, Abstract!Init, Phase, Absorbed, Identity,
       Abstract!Identity,
       Abstract!Elements, Elements

LEMMA FileAbstractStep ==
  FileInv /\ [FileNext]_(fileVars) => [Abstract!Next]_(Abstract!absVars)
<1> SUFFICES ASSUME FileInv, [FileNext]_(fileVars) PROVE [Abstract!Next]_(Abstract!absVars)
  OBVIOUS
<1>1. CASE BeginRange
  <2>1. Phase = "idle" /\ Phase' = "running" /\ Absorbed' = {} /\ lastValue' = lastValue
    BY <1>1 DEF BeginRange, Phase, Absorbed, Identity
  <2> QED BY <2>1 DEF Abstract!Next, Abstract!Start
<1>2. CASE WaitForSlot
  <2>1. Slot \in Ring
    BY <1>2, NextChunk DEF WaitForSlot, FileInv, FileHostInv
  <2> QED BY <1>2, <2>1, CollectStep DEF WaitForSlot, InUse
<1>3. CASE CollectSlot
  BY <1>3, CollectStep DEF CollectSlot
<1>4. CASE Open \/ QueueChunk
  BY <1>4, QuietStep DEF Open, QueueChunk, Phase, Absorbed
<1>5. CASE Fail
  BY <1>5, QuietStep DEF Fail, Phase, Absorbed
<1>6. ASSUME NEW s \in Ring, ExecuteNext(s) PROVE [Abstract!Next]_(Abstract!absVars)
  BY <1>6, QuietStep DEF ExecuteNext, Phase, Absorbed
<1>7. CASE RangeDone \/ UNCHANGED fileVars
  BY <1>7, QuietStep DEF RangeDone, fileVars, Phase, Absorbed
<1> QED BY <1>1, <1>2, <1>3, <1>4, <1>5, <1>6, <1>7, ReduceStep, EndStep DEF FileNext

\* reduce_gpu_file_range keeps the promise of ParallelReduction for the range of its
\* GPU: what a call returns counts each element of the range once.
THEOREM FileRefinement == FileSpec => ImplementsReduction
<1>1. FileSpec => []FileInv
  BY FileInvariance
<1> QED BY <1>1, FileAbstractInit, FileAbstractStep, PTL
        DEF FileSpec, ImplementsReduction, Abstract!Spec
=============================================================================
