------------------------- MODULE DatasetCache_proofs -------------------------
(***************************************************************************)
(* Proofs about DatasetCache, for any number of campaigns and chunks, and  *)
(* for every kill and interleaving.  IInv relates what an inode holds to   *)
(* its length and to the position of its writer, and says how far a        *)
(* campaign that is alone has come at each step.                           *)
(***************************************************************************)
EXTENDS DatasetCache, FiniteSetTheorems, TLAPS

\* A campaign has a descriptor exactly while it writes, and looks at a data file
\* only once there is one.
PlaceInv ==
  \A p \in Procs :
    /\ fd[p] # Absent <=> pc[p] = "write"
    /\ pc[p] = "write" => written[p] < Chunks
    /\ pc[p] \in {"compare", "stat"} => data # Absent

\* What an inode holds lies within its length; without a shared temporary file
\* an inode has one writer, and holds every chunk up to its length, which is
\* where the writer is.
InodeInv ==
  /\ \A i \in Inodes : content[i] \subseteq 1 .. length[i]
  /\ ~clobbered =>
       /\ \A i \in Inodes : content[i] = 1 .. length[i]
       /\ \A p, q \in Procs : fd[p] = fd[q] /\ fd[p] # Absent => p = q
       /\ \A p \in Procs : fd[p] # Absent => length[fd[p]] = written[p]

\* A campaign that has the cache for itself.
AloneInv ==
  ~overlapped =>
    /\ ~clobbered
    /\ \A p, q \in Procs : pc[p] # "idle" /\ pc[q] # "idle" => p = q
    /\ metadata \in {Absent, Torn, Chunks}
    /\ \A p \in Procs :
         /\ pc[p] = "write" => tmp = fd[p]
         /\ pc[p] = "rename" => tmp # Absent /\ length[tmp] = Chunks
         /\ pc[p] \in {"stat", "describe", "metadata", "have"} => data # Absent /\ length[data] = Chunks
         /\ pc[p] \in {"describe", "metadata"} => size[p] = Chunks
         /\ pc[p] = "compare" => metadata \notin {Absent, Torn}
         /\ pc[p] = "metadata" => metadata = Torn
         /\ pc[p] = "have" => metadata = Chunks

IInv == TypeOK /\ PlaceInv /\ InodeInv /\ AloneInv /\ RepairUnderWay

-----------------------------------------------------------------------------
(* Helpers *)

LEMMA ChunksPositive == Chunks \in Nat /\ Chunks > 0
BY CacheAssumption

\* Absent is no inode, no size, and not the torn file.
LEMMA AbsentDistinct == Absent \notin Inodes /\ Absent # Torn /\ Chunks # Absent /\ Chunks # Torn
<1>1. \A i \in Inodes : i \in Nat
  BY CacheAssumption, FS_CardinalityType DEF Inodes
<1> QED BY <1>1, CacheAssumption

USE ChunksPositive, AbsentDistinct

\* There is an inode for every temporary file: the campaigns other than the one
\* that opens it, and the data file, leave one.
LEMMA FreeInode ==
  ASSUME TypeOK, tmp = Absent
  PROVE  Free # {}
<1> SUFFICES ASSUME Free = {} PROVE FALSE
  OBVIOUS
<1> DEFINE open == {fd[q] : q \in Procs}
           n == Cardinality(Procs)
<1>1. IsFiniteSet(Procs) /\ n \in Nat
  BY CacheAssumption, FS_CardinalityType
<1>2. fd \in Surjection(Procs, open)
  BY DEF Surjection, TypeOK
<1>3. IsFiniteSet(open) /\ Cardinality(open) <= n
  BY <1>1, <1>2, FS_Surjection
<1>4. Cardinality(open) \in Nat
  BY <1>3, FS_CardinalityType
<1>5. IsFiniteSet(open \cup {data}) /\ Cardinality(open \cup {data}) <= n + 1
  <2> HIDE DEF open, n
  <2>1. IsFiniteSet(open \cup {data})
        /\ Cardinality(open \cup {data}) = IF data \in open THEN Cardinality(open) ELSE Cardinality(open) + 1
    BY <1>3, FS_AddElement
  <2> QED BY <1>1, <1>3, <1>4, <2>1
<1>6. Inodes \in SUBSET (open \cup {data})
  BY DEF Free
<1>7. Cardinality(Inodes) <= Cardinality(open \cup {data})
  BY <1>5, <1>6, FS_Subset
<1>8. Cardinality(Inodes) = n + 2
  <2>1. 1 \in Int /\ n + 2 \in Int /\ ~(1 > n + 2) /\ n + 2 - 1 + 1 = n + 2
    BY <1>1
  <2>2. Cardinality(1 .. n + 2) = n + 2
    BY <2>1, FS_Interval
  <2> QED BY <2>2 DEF Inodes
<1>9. Cardinality(open \cup {data}) \in Nat
  BY <1>5, FS_CardinalityType
<1> QED BY <1>1, <1>5, <1>7, <1>8, <1>9

\* open returns an inode that no one has open, unless it is the one named tmp.
LEMMA TmpInodeShape ==
  ASSUME TypeOK
  PROVE  /\ TmpInode \in Inodes
         /\ TmpInode # tmp => TmpInode # data /\ \A q \in Procs : fd[q] # TmpInode
<1>1. CASE tmp = Absent
  <2>1. TmpInode \in Free
    BY <1>1, FreeInode DEF TmpInode
  <2> QED BY <2>1 DEF Free
<1>2. CASE tmp # Absent
  BY <1>2 DEF TmpInode, TypeOK
<1> QED BY <1>1, <1>2

\* The steps that move only the campaign, or read.
Quiet(p) ==
  \/ Begin(p) \/ MetadataRead(p) \/ MetadataUnusable(p) \/ CompareSize(p)
  \/ FindTmp(p) \/ StatData(p) \/ Load(p)

-----------------------------------------------------------------------------
LEMMA InitInv == Init => IInv
<1> SUFFICES ASSUME Init PROVE IInv
  OBVIOUS
<1>1. TypeOK
  <2>1. /\ pc \in [Procs -> Places] /\ fd \in [Procs -> Inodes \cup {Absent}]
        /\ written \in [Procs -> 0 .. Chunks] /\ size \in [Procs -> 0 .. Chunks]
    BY DEF Init, Places
  <2>2. content \in [Inodes -> SUBSET (1 .. Chunks)] /\ length \in [Inodes -> 0 .. Chunks]
    BY DEF Init
  <2> QED BY <2>1, <2>2 DEF Init, TypeOK
<1>2. PlaceInv /\ InodeInv /\ AloneInv /\ RepairUnderWay
  BY DEF Init, PlaceInv, InodeInv, AloneInv, RepairUnderWay
<1> QED BY <1>1, <1>2 DEF IInv

LEMMA QuietInv ==
  ASSUME IInv, NEW p \in Procs, Quiet(p)
  PROVE  IInv'
<1> USE DEF IInv
<1>1. /\ UNCHANGED <<fd, written, tmp, data, metadata, content, length, clobbered, killed>>
      /\ \E to \in Places \ {"write", "rename", "metadata"} : pc' = [pc EXCEPT ![p] = to]
      /\ size' = size \/ (size' = [size EXCEPT ![p] = length[data]] /\ data # Absent)
      /\ pc[p] # "write"
  <2> USE DEF Go, files, callers, Places, PlaceInv
  <2>1. CASE Begin(p)
    BY <2>1 DEF Begin
  <2>2. CASE MetadataRead(p) \/ MetadataUnusable(p)
    BY <2>2 DEF MetadataRead, MetadataUnusable
  <2>3. CASE CompareSize(p)
    BY <2>3 DEF CompareSize
  <2>4. CASE FindTmp(p)
    BY <2>4 DEF FindTmp
  <2>5. CASE StatData(p)
    BY <2>5 DEF StatData
  <2>6. CASE Load(p)
    BY <2>6 DEF Load
  <2> QED BY <2>1, <2>2, <2>3, <2>4, <2>5, <2>6 DEF Quiet
<1>2. overlapped' \in BOOLEAN /\ (overlapped => overlapped')
  <2>1. overlapped' = overlapped \/ overlapped' = (overlapped \/ \E q \in Procs : pc[q] # "idle")
    BY DEF Quiet, Begin, MetadataRead, MetadataUnusable, CompareSize, FindTmp, StatData, Load, callers
  <2>2. overlapped \in BOOLEAN
    BY DEF TypeOK
  <2>3. CASE overlapped' = overlapped
    BY <2>2, <2>3
  <2>4. CASE overlapped' = (overlapped \/ \E q \in Procs : pc[q] # "idle")
    BY <2>4, Zenon
  <2> QED BY <2>1, <2>3, <2>4
<1>3. TypeOK'
  BY <1>1, <1>2 DEF TypeOK
<1>4. PlaceInv'
  BY DEF Quiet, Begin, MetadataRead, MetadataUnusable, CompareSize, FindTmp, StatData, Load,
     Go, files, callers, PlaceInv, TypeOK
<1>5. InodeInv'
  BY <1>1 DEF InodeInv
<1>6. AloneInv'
  <2> SUFFICES ASSUME ~overlapped' PROVE AloneInv'
    BY DEF AloneInv
  <2>1. ~overlapped /\ AloneInv
    BY <1>2 DEF TypeOK
  <2>2. \A q \in Procs \ {p} : pc[q] = "idle"
    BY <2>1 DEF Quiet, Begin, MetadataRead, MetadataUnusable, CompareSize, FindTmp, StatData, Load,
       Go, callers, AloneInv
  <2>3. pc' \in [Procs -> Places] /\ \A q \in Procs \ {p} : pc'[q] = "idle"
    BY <1>1, <1>3, <2>2 DEF TypeOK
  <2>4. pc'[p] = "compare" => metadata \notin {Absent, Torn}
    BY <2>1 DEF Quiet, Begin, MetadataRead, MetadataUnusable, CompareSize, FindTmp, StatData, Load,
       Go, TypeOK
  <2>5. pc'[p] = "have" => pc[p] = "compare" /\ length[data] = Chunks
    BY DEF Quiet, Begin, MetadataRead, MetadataUnusable, CompareSize, FindTmp, StatData, Load,
       Go, TypeOK, SizeAccepted
  <2>6. pc'[p] \notin {"write", "rename", "stat", "metadata"}
    BY DEF Quiet, Begin, MetadataRead, MetadataUnusable, CompareSize, FindTmp, StatData, Load,
       Go, TypeOK
  <2>7. pc'[p] = "describe" => pc[p] = "stat" /\ size'[p] = length[data]
    BY DEF Quiet, Begin, MetadataRead, MetadataUnusable, CompareSize, FindTmp, StatData, Load,
       Go, TypeOK
  <2> QED BY <1>1, <2>1, <2>3, <2>4, <2>5, <2>6, <2>7 DEF AloneInv, PlaceInv
<1>7. RepairUnderWay'
  <2>1. \A q \in Procs : pc[q] = "write" => pc'[q] = "write"
    BY <1>1 DEF TypeOK
  <2> QED BY <1>1, <2>1 DEF RepairUnderWay, Good
<1> QED BY <1>3, <1>4, <1>5, <1>6, <1>7

LEMMA UnlinkInv ==
  ASSUME IInv, NEW p \in Procs, Unlink(p)
  PROVE  IInv'
<1> USE DEF IInv
<1>1. /\ UNCHANGED <<fd, written, size, data, metadata, content, length, clobbered, overlapped, killed>>
      /\ tmp' = Absent /\ pc[p] = "unlink"
      /\ \E to \in {"open", "idle"} : pc' = [pc EXCEPT ![p] = to]
  BY DEF Unlink, Go, callers
<1>2. TypeOK'
  BY <1>1 DEF TypeOK, Places
<1>3. PlaceInv' /\ InodeInv'
  BY <1>1 DEF PlaceInv, InodeInv, TypeOK
<1>4. AloneInv'
  BY <1>1 DEF AloneInv, TypeOK
<1>5. RepairUnderWay'
  <2>1. \A q \in Procs : pc[q] = "write" => pc'[q] = "write"
    BY <1>1 DEF TypeOK
  <2>2. {tmp', data'} \ {Absent} \subseteq {tmp, data} \ {Absent}
    BY <1>1
  <2> QED BY <1>1, <2>1, <2>2 DEF RepairUnderWay, Good
<1> QED BY <1>2, <1>3, <1>4, <1>5

LEMMA OpenTmpInv ==
  ASSUME IInv, NEW p \in Procs, OpenTmp(p)
  PROVE  IInv'
<1> USE DEF IInv
<1> DEFINE i == TmpInode
<1>1. /\ pc[p] = "open" /\ pc' = [pc EXCEPT ![p] = "write"]
      /\ tmp' = i /\ fd' = [fd EXCEPT ![p] = i] /\ written' = [written EXCEPT ![p] = 0]
      /\ content' = [content EXCEPT ![i] = {}] /\ length' = [length EXCEPT ![i] = 0]
      /\ UNCHANGED <<size, data, metadata, overlapped, killed>>
  BY DEF OpenTmp, Go, callers
<1>2. i \in Inodes /\ i # Absent /\ (i # tmp => i # data /\ \A q \in Procs : fd[q] # i)
  BY TmpInodeShape
<1>3. clobbered' = (clobbered \/ \E q \in Procs : fd[q] = i)
  BY DEF OpenTmp
<1>4. clobbered' \in BOOLEAN /\ (~clobbered' => ~clobbered /\ \A q \in Procs : fd[q] # i)
  BY <1>3, Zenon
<1> HIDE DEF i
<1>5. TypeOK'
  BY <1>1, <1>2, <1>4 DEF TypeOK, Places
<1>6. PlaceInv'
  BY <1>1, <1>2 DEF PlaceInv, TypeOK
<1>7. InodeInv'
  <2>1. \A j \in Inodes : content'[j] \subseteq 1 .. length'[j]
    BY <1>1, <1>2 DEF InodeInv, TypeOK
  <2>2. ASSUME ~clobbered'
        PROVE  /\ \A j \in Inodes : content'[j] = 1 .. length'[j]
               /\ \A q, u \in Procs : fd'[q] = fd'[u] /\ fd'[q] # Absent => q = u
               /\ \A q \in Procs : fd'[q] # Absent => length'[fd'[q]] = written'[q]
    <3>1. ~clobbered /\ \A q \in Procs : fd[q] # i
      BY <1>4, <2>2
    <3>2. \A j \in Inodes : content'[j] = 1 .. length'[j]
      BY <1>1, <1>2, <3>1 DEF InodeInv, TypeOK
    <3>3. \A q, u \in Procs : fd'[q] = fd'[u] /\ fd'[q] # Absent => q = u
      BY <1>1, <3>1 DEF InodeInv, TypeOK
    <3>4. \A q \in Procs : fd'[q] # Absent => length'[fd'[q]] = written'[q]
      BY <1>1, <1>2, <3>1 DEF InodeInv, TypeOK
    <3> QED BY <3>2, <3>3, <3>4
  <2> QED BY <2>1, <2>2 DEF InodeInv
<1>8. AloneInv'
  <2> SUFFICES ASSUME ~overlapped PROVE AloneInv'
    BY <1>1 DEF AloneInv
  <2>1. \A q \in Procs \ {p} : pc[q] = "idle"
    BY <1>1 DEF AloneInv
  <2>2. \A q \in Procs : fd[q] = Absent
    BY <1>1, <2>1 DEF PlaceInv
  <2>3. ~clobbered'
    BY <1>2, <1>3, <2>2 DEF AloneInv
  <2>4. \A q \in Procs \ {p} : pc'[q] = "idle"
    BY <1>1, <2>1 DEF TypeOK
  <2>5. pc'[p] = "write" /\ fd'[p] = tmp'
    BY <1>1 DEF TypeOK
  <2> QED BY <1>1, <2>3, <2>4, <2>5 DEF AloneInv
<1>9. RepairUnderWay'
  <2> SUFFICES ASSUME ~killed, NEW j \in {tmp', data'} \ {Absent}
               PROVE  \/ Good(j)'
                      \/ \E q \in Procs :
                           /\ fd'[q] = j /\ pc'[q] = "write"
                           /\ (1 .. Chunks) \ content'[j] \subseteq written'[q] + 1 .. Chunks
    BY <1>1 DEF RepairUnderWay
  <2>1. CASE j = i
    BY <1>1, <1>2, <2>1 DEF TypeOK
  <2>2. CASE j # i
    <3>1. j = data /\ content'[j] = content[j]
      BY <1>1, <2>2 DEF TypeOK
    <3>2. CASE Good(data)
      BY <3>1, <3>2 DEF Good
    <3>3. CASE ~Good(data)
      <4>1. PICK q \in Procs : /\ fd[q] = data /\ pc[q] = "write"
                               /\ (1 .. Chunks) \ content[data] \subseteq written[q] + 1 .. Chunks
        BY <3>1, <3>3 DEF RepairUnderWay
      <4>2. q # p
        BY <1>1, <4>1
      <4> QED BY <1>1, <3>1, <4>1, <4>2 DEF TypeOK
    <3> QED BY <3>2, <3>3
  <2> QED BY <2>1, <2>2
<1> QED BY <1>5, <1>6, <1>7, <1>8, <1>9

LEMMA WriteChunkInv ==
  ASSUME IInv, NEW p \in Procs, WriteChunk(p)
  PROVE  IInv'
<1> USE DEF IInv
<1> DEFINE i == fd[p]
           k == written[p] + 1
<1>1. /\ pc[p] = "write"
      /\ pc' = [pc EXCEPT ![p] = IF k = Chunks THEN "rename" ELSE "write"]
      /\ written' = [written EXCEPT ![p] = k]
      /\ fd' = [fd EXCEPT ![p] = IF k = Chunks THEN Absent ELSE i]
      /\ content' = [content EXCEPT ![i] = content[i] \cup {k}]
      /\ length' = [length EXCEPT ![i] = IF k > length[i] THEN k ELSE length[i]]
      /\ UNCHANGED <<size, tmp, data, metadata, clobbered, overlapped, killed>>
  BY DEF WriteChunk, Go, callers, TypeOK
<1>2. i \in Inodes /\ i # Absent /\ k \in 1 .. Chunks /\ written[p] \in Nat
  BY <1>1 DEF PlaceInv, TypeOK
<1> HIDE DEF i
<1>3. TypeOK'
  <2>1. pc' \in [Procs -> Places] /\ written' \in [Procs -> 0 .. Chunks]
    BY <1>1, <1>2 DEF TypeOK, Places
  <2>2. fd' \in [Procs -> Inodes \cup {Absent}]
    BY <1>1, <1>2 DEF TypeOK
  <2>3. content' \in [Inodes -> SUBSET (1 .. Chunks)] /\ length' \in [Inodes -> 0 .. Chunks]
    BY <1>1, <1>2 DEF TypeOK
  <2> QED BY <1>1, <2>1, <2>2, <2>3 DEF TypeOK
<1>4. PlaceInv'
  BY <1>1, <1>2 DEF PlaceInv, TypeOK
<1>5. InodeInv'
  <2>1. \A j \in Inodes : content'[j] \subseteq 1 .. length'[j]
    BY <1>1, <1>2 DEF InodeInv, TypeOK
  <2>2. ASSUME ~clobbered
        PROVE  /\ \A j \in Inodes : content'[j] = 1 .. length'[j]
               /\ \A q, u \in Procs : fd'[q] = fd'[u] /\ fd'[q] # Absent => q = u
               /\ \A q \in Procs : fd'[q] # Absent => length'[fd'[q]] = written'[q]
    <3>1. length[i] = written[p] /\ content[i] = 1 .. length[i]
      BY <1>2, <2>2 DEF InodeInv, i
    <3>2. length'[i] = k /\ content'[i] = 1 .. k
      BY <1>1, <1>2, <3>1 DEF TypeOK
    <3>3. \A j \in Inodes : content'[j] = 1 .. length'[j]
      BY <1>1, <1>2, <2>2, <3>2 DEF InodeInv, TypeOK
    <3>4. \A q, u \in Procs : fd'[q] = fd'[u] /\ fd'[q] # Absent => q = u
      BY <1>1, <2>2 DEF InodeInv, TypeOK, i
    <3>5. ASSUME NEW q \in Procs, fd'[q] # Absent PROVE length'[fd'[q]] = written'[q]
      <4>1. CASE q = p
        BY <1>1, <3>2, <3>5, <4>1 DEF TypeOK
      <4>2. CASE q # p
        <5>1. fd'[q] = fd[q] /\ fd[q] # i /\ fd[q] \in Inodes
          BY <1>1, <2>2, <3>5, <4>2 DEF InodeInv, TypeOK, i
        <5> QED BY <1>1, <2>2, <4>2, <5>1 DEF InodeInv, TypeOK
      <4> QED BY <4>1, <4>2
    <3> QED BY <3>3, <3>4, <3>5
  <2> QED BY <1>1, <2>1, <2>2 DEF InodeInv
<1>6. AloneInv'
  <2> SUFFICES ASSUME ~overlapped PROVE AloneInv'
    BY <1>1 DEF AloneInv
  <2>1. ~clobbered /\ tmp = i /\ \A q \in Procs \ {p} : pc[q] = "idle"
    BY <1>1 DEF AloneInv, i
  <2>2. \A q \in Procs \ {p} : pc'[q] = "idle"
    BY <1>1, <2>1 DEF TypeOK
  <2>3. length[i] = written[p]
    BY <1>2, <2>1 DEF InodeInv, i
  <2>4. (pc'[p] = "write" /\ fd'[p] = tmp') \/ (pc'[p] = "rename" /\ length'[tmp'] = Chunks)
    <3>1. CASE k = Chunks
      BY <1>1, <1>2, <2>1, <2>3, <3>1 DEF TypeOK
    <3>2. CASE k # Chunks
      <4>1. pc'[p] = "write" /\ fd'[p] = i
        BY <1>1, <3>2 DEF TypeOK
      <4> QED BY <1>1, <2>1, <4>1
    <3> QED BY <3>1, <3>2
  <2> QED BY <1>1, <1>2, <2>1, <2>2, <2>4 DEF AloneInv
<1>7. RepairUnderWay'
  <2> SUFFICES ASSUME ~killed, NEW j \in {tmp, data} \ {Absent}
               PROVE  \/ Good(j)'
                      \/ \E q \in Procs :
                           /\ fd'[q] = j /\ pc'[q] = "write"
                           /\ (1 .. Chunks) \ content'[j] \subseteq written'[q] + 1 .. Chunks
    BY <1>1 DEF RepairUnderWay
  <2>1. j \in Inodes
    BY DEF TypeOK
  <2>2. content[j] \subseteq content'[j] /\ content'[j] \subseteq 1 .. Chunks
    BY <1>1, <1>2, <1>3, <2>1 DEF TypeOK
  <2>3. CASE Good(j)
    BY <2>2, <2>3 DEF Good
  <2>4. CASE ~Good(j)
    <3>1. PICK q \in Procs : /\ fd[q] = j /\ pc[q] = "write"
                             /\ (1 .. Chunks) \ content[j] \subseteq written[q] + 1 .. Chunks
      BY <2>4 DEF RepairUnderWay
    <3>2. CASE q # p
      BY <1>1, <2>2, <3>1, <3>2 DEF TypeOK
    <3>3. CASE q = p
      <4>1. j = i /\ content'[j] = content[j] \cup {k}
        BY <1>1, <2>1, <3>1, <3>3 DEF TypeOK, i
      <4>2. (1 .. Chunks) \ content'[j] \subseteq k + 1 .. Chunks
        BY <1>2, <3>1, <3>3, <4>1
      <4>3. CASE k = Chunks
        <5>1. (1 .. Chunks) \ content'[j] = {}
          BY <4>2, <4>3
        <5> QED BY <2>2, <5>1 DEF Good
      <4>4. CASE k # Chunks
        BY <1>1, <4>1, <4>2, <4>4 DEF TypeOK
      <4> QED BY <4>3, <4>4
    <3> QED BY <3>2, <3>3
  <2> QED BY <2>3, <2>4
<1> QED BY <1>3, <1>4, <1>5, <1>6, <1>7

LEMMA ReplaceInv ==
  ASSUME IInv, NEW p \in Procs, Replace(p)
  PROVE  IInv'
<1> USE DEF IInv
<1>1. /\ pc[p] = "rename" /\ tmp' = Absent
      /\ UNCHANGED <<fd, written, size, metadata, content, length, clobbered, overlapped, killed>>
      /\ \/ tmp # Absent /\ data' = tmp /\ pc' = [pc EXCEPT ![p] = "stat"]
         \/ tmp = Absent /\ data' = data /\ pc' = [pc EXCEPT ![p] = "idle"]
  BY DEF Replace, Go, callers
<1>2. TypeOK'
  BY <1>1 DEF TypeOK, Places
<1>3. PlaceInv' /\ InodeInv'
  BY <1>1 DEF PlaceInv, InodeInv, TypeOK
<1>4. AloneInv'
  <2> SUFFICES ASSUME ~overlapped PROVE AloneInv'
    BY <1>1 DEF AloneInv
  <2>1. \A q \in Procs \ {p} : pc'[q] = "idle"
    BY <1>1 DEF AloneInv, TypeOK
  <2>2. pc'[p] = "stat" /\ data' # Absent /\ length'[data'] = Chunks
    BY <1>1 DEF AloneInv, TypeOK
  <2> QED BY <1>1, <2>1, <2>2 DEF AloneInv
<1>5. RepairUnderWay'
  <2>1. \A q \in Procs : pc[q] = "write" => pc'[q] = "write"
    BY <1>1 DEF TypeOK
  <2>2. {tmp', data'} \ {Absent} \subseteq {tmp, data} \ {Absent}
    BY <1>1
  <2> QED BY <1>1, <2>1, <2>2 DEF RepairUnderWay, Good
<1> QED BY <1>2, <1>3, <1>4, <1>5

LEMMA MetadataInv ==
  ASSUME IInv, NEW p \in Procs, OpenMetadata(p) \/ WriteMetadata(p)
  PROVE  IInv'
<1> USE DEF IInv
<1>1. /\ UNCHANGED <<fd, written, size, tmp, data, content, length, clobbered, overlapped, killed>>
      /\ metadata' \in {Torn, size[p]}
      /\ \/ pc[p] = "describe" /\ pc' = [pc EXCEPT ![p] = "metadata"] /\ metadata' = Torn
         \/ /\ pc[p] = "metadata" /\ pc' = [pc EXCEPT ![p] = "have"]
            /\ metadata = Torn => metadata' = size[p]
  BY DEF OpenMetadata, WriteMetadata, Go, callers
<1>2. TypeOK'
  BY <1>1 DEF TypeOK, Places
<1>3. PlaceInv' /\ InodeInv'
  BY <1>1 DEF PlaceInv, InodeInv, TypeOK
<1>4. AloneInv'
  <2> SUFFICES ASSUME ~overlapped PROVE AloneInv'
    BY <1>1 DEF AloneInv
  <2>1. \A q \in Procs \ {p} : pc'[q] = "idle"
    BY <1>1 DEF AloneInv, TypeOK
  <2>2. size[p] = Chunks /\ data # Absent /\ length[data] = Chunks
    BY <1>1 DEF AloneInv
  <2>3. (pc'[p] = "metadata" /\ metadata' = Torn) \/ (pc'[p] = "have" /\ metadata' = Chunks)
    <3>1. CASE pc[p] = "describe"
      BY <1>1, <3>1 DEF TypeOK
    <3>2. CASE pc[p] = "metadata"
      <4>1. metadata = Torn
        BY <3>2 DEF AloneInv
      <4>2. metadata' = size[p] /\ pc'[p] = "have"
        BY <1>1, <3>2, <4>1 DEF TypeOK
      <4> QED BY <2>2, <4>2
    <3> QED BY <1>1, <3>1, <3>2
  <2> QED BY <1>1, <2>1, <2>2, <2>3 DEF AloneInv
<1>5. RepairUnderWay'
  <2>1. \A q \in Procs : pc[q] = "write" => pc'[q] = "write"
    BY <1>1 DEF TypeOK
  <2>2. {tmp', data'} \ {Absent} \subseteq {tmp, data} \ {Absent}
    BY <1>1
  <2> QED BY <1>1, <2>1, <2>2 DEF RepairUnderWay, Good
<1> QED BY <1>2, <1>3, <1>4, <1>5

LEMMA AbandonInv ==
  ASSUME IInv, NEW p \in Procs, Abandon(p)
  PROVE  IInv'
<1> USE DEF IInv
<1>1. /\ pc' = [pc EXCEPT ![p] = "idle"] /\ fd' = [fd EXCEPT ![p] = Absent]
      /\ written' = [written EXCEPT ![p] = 0] /\ size' = [size EXCEPT ![p] = 0]
      /\ killed' = TRUE
      /\ UNCHANGED <<tmp, data, metadata, content, length, clobbered, overlapped>>
  BY DEF Abandon, files
<1>2. TypeOK'
  BY <1>1 DEF TypeOK, Places
<1>3. PlaceInv' /\ InodeInv'
  BY <1>1 DEF PlaceInv, InodeInv, TypeOK
<1>4. AloneInv'
  BY <1>1 DEF AloneInv, TypeOK
<1>5. RepairUnderWay'
  BY <1>1 DEF RepairUnderWay
<1> QED BY <1>2, <1>3, <1>4, <1>5

LEMMA StepInv == IInv /\ [Next]_vars => IInv'
<1> SUFFICES ASSUME IInv, [Next]_vars PROVE IInv'
  OBVIOUS
<1>1. CASE UNCHANGED vars
  BY <1>1 DEF vars, files, callers, IInv, TypeOK, PlaceInv, InodeInv, AloneInv, RepairUnderWay, Good
<1>2. ASSUME NEW p \in Procs, Begin(p) \/ Step(p) \/ Load(p) \/ Abandon(p)
      PROVE  IInv'
  <2>1. CASE Quiet(p)
    BY <2>1, QuietInv
  <2>2. CASE Unlink(p) \/ OpenTmp(p)
    BY <2>2, UnlinkInv, OpenTmpInv
  <2>3. CASE WriteChunk(p) \/ Replace(p)
    BY <2>3, WriteChunkInv, ReplaceInv
  <2>4. CASE OpenMetadata(p) \/ WriteMetadata(p) \/ Abandon(p)
    BY <2>4, MetadataInv, AbandonInv
  <2> QED BY <1>2, <2>1, <2>2, <2>3, <2>4 DEF Step, Quiet
<1> QED BY <1>1, <1>2 DEF Next

\* The inductive invariant IInv - descriptors, writers' positions, and the steps
\* of a campaign that is alone - holds of every reachable state.
THEOREM Invariance == Spec => []IInv
BY InitInv, StepInv, PTL DEF Spec

-----------------------------------------------------------------------------
\* The variables keep their types for any number of campaigns: in particular an
\* inode is always free when a temporary file is to be created.
THEOREM TypeCorrect == Spec => []TypeOK
<1>1. IInv => TypeOK
  BY DEF IInv
<1> QED BY <1>1, Invariance, PTL

\* However campaigns interleave and wherever they are killed: as long as no two
\* had one temporary file open, a data file of the right size is whole, so that
\* the size is all cached_artifact needs to check.
THEOREM SizeSuffices == Spec => []SizeTellsAll
<1>1. IInv => SizeTellsAll
  BY DEF IInv, InodeInv, SizeTellsAll, Good, TypeOK
<1> QED BY <1>1, Invariance, PTL

\* Any number of campaigns that take turns, killed and restarted at will, are
\* handed only artifacts whose data and metadata are complete.
THEOREM ArtifactsSound == Spec => []ArtifactSound
<1>1. IInv => ArtifactSound
  BY DEF IInv, InodeInv, AloneInv, ArtifactSound, Good, TypeOK
<1> QED BY <1>1, Invariance, PTL

\* While none is killed, any number of campaigns at once leave no incomplete file
\* with a name that is not being completed.
THEOREM RepairsUnderWay == Spec => []RepairUnderWay
<1>1. IInv => RepairUnderWay
  BY DEF IInv
<1> QED BY <1>1, Invariance, PTL

\* A complete entry is not rewritten by a campaign that found it complete.
THEOREM EntryStays == Spec => EntryKept
<1>1. IInv /\ [Next]_vars => [Entry /\ (\A p \in Procs : ~Generating(p))
                                 => Entry' /\ \A p \in Procs : ~Generating(p)']_vars
  <2> SUFFICES ASSUME IInv, Next, Entry, \A p \in Procs : ~Generating(p)
               PROVE  Entry' /\ \A p \in Procs : ~Generating(p)'
    OBVIOUS
  <2>1. PICK p \in Procs : Begin(p) \/ Step(p) \/ Load(p) \/ Abandon(p)
    BY DEF Next
  <2>2. pc \in [Procs -> Places] /\ \A q \in Procs : pc[q] \in {"idle", "lookup", "compare", "have"}
    BY DEF IInv, TypeOK, Generating
  <2>3. length[data] = Chunks
    <3>1. data \in Inodes /\ length[data] \in 0 .. Chunks /\ 1 .. Chunks \subseteq 1 .. length[data]
      BY DEF Entry, Good, IInv, TypeOK, InodeInv
    <3>2. Chunks \in 1 .. length[data]
      BY <3>1
    <3> QED BY <3>1, <3>2
  <2>4. metadata \notin {Absent, Torn} /\ data # Absent
    BY DEF Entry
  <2>5. Begin(p) \/ MetadataRead(p) \/ CompareSize(p) \/ Load(p) \/ Abandon(p)
    BY <2>1, <2>2, <2>4 DEF Step, MetadataUnusable, FindTmp, Unlink, OpenTmp, WriteChunk, Replace,
       StatData, OpenMetadata, WriteMetadata, Go
  <2>6. UNCHANGED <<data, content, metadata>>
    BY <2>5 DEF Begin, MetadataRead, CompareSize, Load, Abandon, files
  <2>7. \E to \in {"idle", "lookup", "compare", "have"} : pc' = [pc EXCEPT ![p] = to]
    BY <2>3, <2>5 DEF Begin, MetadataRead, CompareSize, SizeAccepted, Load, Abandon, Go
  <2> QED BY <2>2, <2>6, <2>7 DEF Entry, Good, Generating
<1> QED BY <1>1, Invariance, PTL DEF Spec, EntryKept
=============================================================================
