---------------------------- MODULE DatasetCache ----------------------------
(***************************************************************************)
(* The dataset cache (prbench/datasets.py).  Campaigns that share a cache  *)
(* directory look a dataset up, or generate it under a temporary name,     *)
(* rename it into place and write its metadata afterwards.  A campaign can *)
(* be killed, or fail with an OSError, between any two of these steps, and *)
(* nothing keeps two campaigns from generating the same dataset at once.   *)
(*                                                                         *)
(* One dataset is modelled: cache_paths gives every specification names of *)
(* its own.  A file is an inode, which the names data_path and tmp may     *)
(* link to and which stays writable through an open descriptor whatever    *)
(* becomes of its name.  Generation is a function of the specification, so *)
(* a chunk is either missing from a file or the right one, and metadata    *)
(* are either torn or right but for the recorded size.                     *)
(***************************************************************************)
EXTENDS Integers, FiniteSets

CONSTANTS
  Procs,      \* the campaigns that share the cache directory
  Chunks,     \* chunks of chunk_elements in the dataset
  Absent,     \* no such file, no descriptor
  Torn        \* a metadata file that is not whole, and so not JSON

ASSUME CacheAssumption ==
  /\ IsFiniteSet(Procs)
  /\ Chunks \in Nat \ {0}
  /\ Absent \notin Nat \cup {Torn}
  /\ Torn \notin Nat

VARIABLES
  pc,         \* where each campaign is in get_or_create
  fd,         \* the inode each campaign has open for writing
  written,    \* chunks each campaign has written to it
  size,       \* data_path.stat().st_size, as read for the metadata
  tmp,        \* the inode named tmp
  data,       \* the inode named data_path
  metadata,   \* the file metadata_path: its size_bytes, in chunks
  content,    \* the chunks each inode holds; the others read as zeros
  length,     \* the length of each inode, in chunks
  clobbered,  \* two campaigns have had one temporary file open
  overlapped, \* two campaigns have been in get_or_create at once
  killed      \* a campaign has been killed or met an OSError

callers == <<overlapped, killed>>
files == <<tmp, data, metadata, content, length, clobbered>>
vars == <<pc, fd, written, size, files, callers>>

\* Linked or open inodes never outnumber these.
Inodes == 1 .. Cardinality(Procs) + 2

Free == {i \in Inodes : i # tmp /\ i # data /\ \A p \in Procs : fd[p] # i}

Good(i) == content[i] = 1 .. Chunks

Init ==
  /\ pc = [p \in Procs |-> "idle"]
  /\ fd = [p \in Procs |-> Absent]
  /\ written = [p \in Procs |-> 0]
  /\ size = [p \in Procs |-> 0]
  /\ tmp = Absent
  /\ data = Absent
  /\ metadata = Absent
  /\ content = [i \in Inodes |-> {}]
  /\ length = [i \in Inodes |-> 0]
  /\ clobbered = FALSE
  /\ overlapped = FALSE
  /\ killed = FALSE

Go(p, from, to) == pc[p] = from /\ pc' = [pc EXCEPT ![p] = to]

\* get_or_create is called: before the tasks, and again by every run_task.
Begin(p) ==
  /\ Go(p, "idle", "lookup")
  /\ overlapped' = (overlapped \/ \E q \in Procs : pc[q] # "idle")
  /\ UNCHANGED <<fd, written, size, files, killed>>

\* Both files exist and the metadata parse.
MetadataRead(p) ==
  /\ data # Absent
  /\ metadata \notin {Absent, Torn}
  /\ Go(p, "lookup", "compare")
  /\ UNCHANGED <<fd, written, size, files, callers>>

\* A file is missing, or JSONDecodeError.
MetadataUnusable(p) ==
  /\ data = Absent \/ metadata \in {Absent, Torn}
  /\ Go(p, "lookup", "clean")
  /\ UNCHANGED <<fd, written, size, files, callers>>

\* (Mutant: the size check wants more than there is.)
SizeStrict == length[data] > Chunks

\* The data file is compared with the size the specification asks for.
SizeAccepted == length[data] = Chunks

CompareSize(p) ==
  /\ Go(p, "compare", IF SizeAccepted THEN "have" ELSE "clean")
  /\ UNCHANGED <<fd, written, size, files, callers>>

\* tmp.exists()
FindTmp(p) ==
  /\ Go(p, "clean", IF tmp # Absent THEN "unlink" ELSE "open")
  /\ UNCHANGED <<fd, written, size, files, callers>>

\* tmp.unlink(): FileNotFoundError when another campaign was faster.
Unlink(p) ==
  /\ Go(p, "unlink", IF tmp # Absent THEN "open" ELSE "idle")
  /\ tmp' = Absent
  /\ UNCHANGED <<fd, written, size, data, metadata, content, length, clobbered, callers>>


\* tmp.open("wb"): a new inode, or the one there is, emptied.
TmpInode == IF tmp = Absent THEN CHOOSE i \in Free : TRUE ELSE tmp

\* (Mutant: a campaign goes on where its last attempt stopped.)
OpenResumed(p) ==
  /\ Go(p, "open", "write")
  /\ tmp' = TmpInode
  /\ fd' = [fd EXCEPT ![p] = TmpInode]
  /\ content' = [content EXCEPT ![TmpInode] = {}]
  /\ length' = [length EXCEPT ![TmpInode] = 0]
  /\ clobbered' = (clobbered \/ \E q \in Procs : fd[q] = TmpInode)
  /\ UNCHANGED <<written, size, data, metadata, callers>>

\* (Mutant: space for the whole file is reserved when it is opened.)
OpenReserved(p) ==
  /\ Go(p, "open", "write")
  /\ tmp' = TmpInode
  /\ fd' = [fd EXCEPT ![p] = TmpInode]
  /\ written' = [written EXCEPT ![p] = 0]
  /\ content' = [content EXCEPT ![TmpInode] = {}]
  /\ length' = [length EXCEPT ![TmpInode] = Chunks]
  /\ clobbered' = (clobbered \/ \E q \in Procs : fd[q] = TmpInode)
  /\ UNCHANGED <<size, data, metadata, callers>>

OpenTmp(p) ==
  /\ Go(p, "open", "write")
  /\ tmp' = TmpInode
  /\ fd' = [fd EXCEPT ![p] = TmpInode]
  /\ written' = [written EXCEPT ![p] = 0]
  /\ content' = [content EXCEPT ![TmpInode] = {}]
  /\ length' = [length EXCEPT ![TmpInode] = 0]
  /\ clobbered' = (clobbered \/ \E q \in Procs : fd[q] = TmpInode)
  /\ UNCHANGED <<size, data, metadata, callers>>

\* (Mutant: the loop ends one chunk early.)
WriteShort(p) ==
  LET k == written[p] + 1 IN
  /\ Go(p, "write", IF k + 1 >= Chunks THEN "rename" ELSE "write")
  /\ written' = [written EXCEPT ![p] = k]
  /\ fd' = [fd EXCEPT ![p] = IF k + 1 >= Chunks THEN Absent ELSE @]
  /\ content' = [content EXCEPT ![fd[p]] = @ \cup {k}]
  /\ length' = [length EXCEPT ![fd[p]] = IF k > @ THEN k ELSE @]
  /\ UNCHANGED <<size, tmp, data, metadata, clobbered, callers>>

\* (Mutant: a campaign whose temporary file was taken away gives up at once.)
WriteOrYield(p) ==
  LET k    == written[p] + 1
      last == k = Chunks \/ tmp # fd[p]
  IN
  /\ Go(p, "write", IF last THEN "rename" ELSE "write")
  /\ written' = [written EXCEPT ![p] = k]
  /\ fd' = [fd EXCEPT ![p] = IF last THEN Absent ELSE @]
  /\ content' = [content EXCEPT ![fd[p]] = @ \cup {k}]
  /\ length' = [length EXCEPT ![fd[p]] = IF k > @ THEN k ELSE @]
  /\ UNCHANGED <<size, tmp, data, metadata, clobbered, callers>>

\* fh.write at the position of this descriptor; with the last chunk the file
\* is closed.
WriteChunk(p) ==
  LET k == written[p] + 1 IN
  /\ Go(p, "write", IF k = Chunks THEN "rename" ELSE "write")
  /\ written' = [written EXCEPT ![p] = k]
  /\ fd' = [fd EXCEPT ![p] = IF k = Chunks THEN Absent ELSE @]
  /\ content' = [content EXCEPT ![fd[p]] = @ \cup {k}]
  /\ length' = [length EXCEPT ![fd[p]] = IF k > @ THEN k ELSE @]
  /\ UNCHANGED <<size, tmp, data, metadata, clobbered, callers>>

\* tmp.replace(data_path): whatever tmp names now; FileNotFoundError if nothing.
Replace(p) ==
  /\ Go(p, "rename", IF tmp # Absent THEN "stat" ELSE "idle")
  /\ data' = IF tmp # Absent THEN tmp ELSE data
  /\ tmp' = Absent
  /\ UNCHANGED <<fd, written, size, metadata, content, length, clobbered, callers>>

StatData(p) ==
  /\ Go(p, "stat", "describe")
  /\ size' = [size EXCEPT ![p] = length[data]]
  /\ UNCHANGED <<fd, written, files, callers>>

\* metadata_path.write_text empties the file, then writes it.
OpenMetadata(p) ==
  /\ Go(p, "describe", "metadata")
  /\ metadata' = Torn
  /\ UNCHANGED <<fd, written, size, tmp, data, content, length, clobbered, callers>>

\* Written over another text with another size, the result may be either text's
\* end after the other's beginning.
WriteMetadata(p) ==
  /\ Go(p, "metadata", "have")
  /\ \/ metadata' = size[p]
     \/ metadata \notin {Torn, size[p]} /\ metadata' = Torn
  /\ UNCHANGED <<fd, written, size, tmp, data, content, length, clobbered, callers>>

\* The worker has loaded the artifact.
Load(p) ==
  /\ Go(p, "have", "idle")
  /\ UNCHANGED <<fd, written, size, files, callers>>

\* Killed, interrupted, or an OSError: descriptors are closed, files stay.
Abandon(p) ==
  /\ pc[p] # "idle"
  /\ pc' = [pc EXCEPT ![p] = "idle"]
  /\ fd' = [fd EXCEPT ![p] = Absent]
  /\ written' = [written EXCEPT ![p] = 0]
  /\ size' = [size EXCEPT ![p] = 0]
  /\ killed' = TRUE
  /\ UNCHANGED <<files, overlapped>>

Step(p) ==
  \/ MetadataRead(p) \/ MetadataUnusable(p) \/ CompareSize(p)
  \/ FindTmp(p) \/ Unlink(p) \/ OpenTmp(p) \/ WriteChunk(p) \/ Replace(p)
  \/ StatData(p) \/ OpenMetadata(p) \/ WriteMetadata(p)

Next == \E p \in Procs : Begin(p) \/ Step(p) \/ Load(p) \/ Abandon(p)

Spec == Init /\ [][Next]_vars

-----------------------------------------------------------------------------
Places == {"idle", "lookup", "compare", "clean", "unlink", "open", "write",
           "rename", "stat", "describe", "metadata", "have"}

\* Every variable keeps its type; the cache never runs out of inodes.
TypeOK ==
  /\ pc \in [Procs -> Places]
  /\ fd \in [Procs -> Inodes \cup {Absent}]
  /\ written \in [Procs -> 0 .. Chunks]
  /\ size \in [Procs -> 0 .. Chunks]
  /\ tmp \in Inodes \cup {Absent}
  /\ data \in Inodes \cup {Absent}
  /\ metadata \in 0 .. Chunks \cup {Absent, Torn}
  /\ content \in [Inodes -> SUBSET (1 .. Chunks)]
  /\ length \in [Inodes -> 0 .. Chunks]
  /\ {clobbered, overlapped, killed} \subseteq BOOLEAN

\* cached_artifact trusts the size of the data file and never its sha256.  That
\* is enough, whoever was killed wherever, as long as no two campaigns have had
\* the same temporary file open: then a data file of the right size is whole.
SizeTellsAll ==
  /\ TypeOK
  /\ ~clobbered /\ data # Absent /\ length[data] = Chunks => Good(data)

\* Campaigns that use the cache one after the other, killed and restarted at
\* will, are only ever handed artifacts whose data and metadata are complete.
ArtifactSound ==
  ~overlapped =>
    \A p \in Procs : pc[p] = "have" => Good(data) /\ metadata = Chunks

\* While nothing is killed, campaigns that race for one dataset repair each other: a
\* file with a name that lacks chunks is being written by a campaign that will
\* write all of those.
RepairUnderWay ==
  ~killed =>
    \A i \in {tmp, data} \ {Absent} :
      \/ Good(i)
      \/ \E p \in Procs :
           /\ fd[p] = i /\ pc[p] = "write"
           /\ (1 .. Chunks) \ content[i] \subseteq written[p] + 1 .. Chunks

Entry == data # Absent /\ Good(data) /\ metadata = Chunks

Generating(p) == pc[p] \notin {"idle", "lookup", "compare", "have"}

\* A complete entry is never taken for an incomplete one: unless generation had
\* begun before it was complete, nothing rewrites it.
EntryKept ==
  [][Entry /\ (\A p \in Procs : ~Generating(p))
       => Entry' /\ \A p \in Procs : ~Generating(p)']_vars

=============================================================================
