---------------------------- MODULE GpuPipeline ----------------------------
(***************************************************************************)
(* CudaGpuReducer::reduce with the async_pipeline transfer policy          *)
(* (native/src/gpu_backend.cu).  The host cuts the input into chunks and   *)
(* deals them to the streams in turn.  For each chunk it fills the pinned  *)
(* staging buffer of the stream and enqueues a copy to the device, a       *)
(* reduction, and a copy of the scalar back into the result slot of the    *)
(* chunk; it does not wait for them, except before it refills a staging    *)
(* buffer and before it reads the results.  A stream executes what it was  *)
(* given in order; streams run independently of each other and of the host.*)
(*                                                                         *)
(* An element of the input is tagged with the call it belongs to, so that  *)
(* data left in a buffer by an earlier call can be told from fresh data.   *)
(***************************************************************************)
EXTENDS Integers, Sequences, FiniteSets

CONSTANTS
  MaxElements,    \* cfg.max_elements, what the reducer was sized for
  Streams,        \* cfg.pipeline_streams
  ChunkElements,  \* cfg.pipeline_chunk_elements, 0 when not given
  PipelineChunks, \* cfg.pipeline_chunks
  Counts,         \* the counts callers pass
  CudaMayFail,    \* whether CUDA calls report errors
  MaxCalls        \* BOUND: calls of reduce

ASSUME PipelineAssumption ==
  /\ MaxElements \in Nat \ {0}
  /\ Streams \in Nat \ {0}
  /\ ChunkElements \in Nat
  /\ PipelineChunks \in Nat \ {0}
  /\ Counts \subseteq Nat
  /\ CudaMayFail \in BOOLEAN
  /\ MaxCalls \in Nat

VARIABLES
  host,       \* where the host is: "idle", "issue", "drain" or "over"
  call,       \* calls of reduce made
  count,      \* elements of the current call
  c,          \* next chunk to issue
  staging,    \* h_pipeline_inputs_, per stream
  dinput,     \* d_inputs_, per stream
  doutput,    \* d_outputs_, per stream: the set of tags reduced into it
  results,    \* h_pipeline_results_, per chunk
  queue,      \* operations each stream has still to execute
  returned    \* how often each tag was combined into the last value returned

vars == <<host, call, count, c, staging, dinput, doutput, results, queue, returned>>
device == <<dinput, doutput, results>>

MinOf(a, b)   == IF a <= b THEN a ELSE b
MaxOf(a, b)   == IF a >= b THEN a ELSE b
CeilDiv(a, b) == (a + b - 1) \div b

Slots == 0 .. Streams - 1

\* setup_pipeline: elements per chunk, and result slots.
ChunkCapacity ==
  IF ChunkElements > 0
  THEN MaxOf(1, MinOf(MaxElements, ChunkElements))
  ELSE MaxOf(1, CeilDiv(MaxElements, PipelineChunks))

MaxChunks == MaxOf(1, CeilDiv(MaxElements, ChunkCapacity))

ChunkCount(n) == CeilDiv(n, ChunkCapacity)

Tags    == (1 .. MaxCalls) \X (0 .. MaxElements - 1)
Unset   == <<0, 0>>
Nothing == [t \in Tags |-> 0]
Whole(k, n) == [t \in Tags |-> IF t[1] = k /\ t[2] < n THEN 1 ELSE 0]

Init ==
  /\ host = "idle"
  /\ call = 0
  /\ count = 0
  /\ c = 0
  /\ staging = [s \in Slots |-> [i \in 0 .. ChunkCapacity - 1 |-> Unset]]
  /\ dinput = staging
  /\ doutput = [s \in Slots |-> {}]
  /\ results = [k \in 0 .. MaxChunks - 1 |-> {}]
  /\ queue = [s \in Slots |-> <<>>]
  /\ returned = Nothing

\* reduce(data, n): too many elements throw, none gives the identity, and more
\* chunks than result slots throw.
Begin(n) ==
  /\ host = "idle"
  /\ call < MaxCalls
  /\ call' = call + 1
  /\ count' = n
  /\ c' = 0
  /\ host' = IF n > MaxElements THEN "over"
             ELSE IF n = 0 THEN "idle"
             ELSE IF ChunkCount(n) > MaxChunks THEN "over"
             ELSE "issue"
  /\ returned' = Nothing
  /\ UNCHANGED <<staging, queue, device>>

\* (Mutant: results kept per stream.)
ResultPerSlot(k) == k % Streams

\* A staging buffer that was used before may still be read by its stream.
MustWait(k) == k >= Streams
ResultSlot(k) == k

\* (Mutant: the chunk not counted in the branch that waits.)
AdvanceIfFresh == c' = IF MustWait(c) THEN c ELSE c + 1
Advance == c' = c + 1

\* One round of the loop: wait for the stream if its buffers are in use, copy
\* the chunk into the staging buffer, enqueue copy, reduction and copy back.
IssueChunk ==
  /\ host = "issue"
  /\ LET offset == c * ChunkCapacity
         n      == MinOf(ChunkCapacity, count - offset)
         s      == c % Streams
     IN /\ MustWait(c) => queue[s] = <<>>
        /\ staging' = [staging EXCEPT ![s] = [i \in 0 .. ChunkCapacity - 1 |->
                         IF i < n THEN <<call, offset + i>> ELSE @[i]]]
        /\ queue' = [queue EXCEPT ![s] = @ \o
                       << [op |-> "h2d", arg |-> n], [op |-> "reduce", arg |-> n],
                          [op |-> "d2h", arg |-> ResultSlot(c)] >>]
  /\ Advance
  /\ host' = IF c' < ChunkCount(count) THEN "issue" ELSE "drain"
  /\ UNCHANGED <<call, count, device, returned>>

\* A stream executes its next operation.
Execute(s) ==
  /\ queue[s] # <<>>
  /\ LET o == Head(queue[s])
     IN CASE o.op = "h2d" ->
               /\ dinput' = [dinput EXCEPT ![s] = [i \in 0 .. ChunkCapacity - 1 |->
                               IF i < o.arg THEN staging[s][i] ELSE @[i]]]
               /\ UNCHANGED <<doutput, results>>
          [] o.op = "reduce" ->
               /\ doutput' = [doutput EXCEPT ![s] = {dinput[s][i] : i \in 0 .. o.arg - 1}]
               /\ UNCHANGED <<dinput, results>>
          [] o.op = "d2h" ->
               /\ results' = [results EXCEPT ![o.arg] = doutput[s]]
               /\ UNCHANGED <<dinput, doutput>>
  /\ queue' = [queue EXCEPT ![s] = Tail(@)]
  /\ UNCHANGED <<host, call, count, c, staging, returned>>

\* (Mutant: only the stream of the last chunk is waited for.)
LastDrained == queue[(c - 1) % Streams] = <<>>

Drained == \A s \in Slots : queue[s] = <<>>

\* Every stream is synchronised, then the results of the chunks are combined.
Return ==
  /\ host = "drain"
  /\ Drained
  /\ returned' = [t \in Tags |-> Cardinality({k \in 0 .. c - 1 : t \in results[k]})]
  /\ host' = "idle"
  /\ UNCHANGED <<call, count, c, staging, queue, device>>

\* A CUDA call of the host reports an error: reduce throws, and the run is over.
CudaFails ==
  /\ CudaMayFail
  /\ host \in {"issue", "drain"}
  /\ host' = "over"
  /\ UNCHANGED <<call, count, c, staging, queue, device, returned>>

Finished ==
  /\ host = "over" \/ (host = "idle" /\ call = MaxCalls)
  /\ Drained
  /\ UNCHANGED vars

Next ==
  \/ \E n \in Counts : Begin(n)
  \/ IssueChunk
  \/ \E s \in Slots : Execute(s)
  \/ Return
  \/ CudaFails
  \/ Finished

Spec == Init /\ [][Next]_vars

\* The device executes what it is given, and the host goes on.
Fairness ==
  /\ WF_vars(IssueChunk) /\ WF_vars(Return)
  /\ \A s \in Slots : WF_vars(Execute(s))

FairSpec == Spec /\ Fairness

-----------------------------------------------------------------------------
(* Properties *)

Op == [op : {"h2d", "reduce"}, arg : 1 .. ChunkCapacity]
        \cup [op : {"d2h"}, arg : 0 .. MaxChunks - 1]

\* Types; at most the three operations of one chunk wait in a stream.
TypeOK ==
  /\ host \in {"idle", "issue", "drain", "over"}
  /\ call \in 0 .. MaxCalls
  /\ count \in Nat
  /\ c \in 0 .. MaxChunks
  /\ staging \in [Slots -> [0 .. ChunkCapacity - 1 -> Tags \cup {Unset}]]
  /\ dinput \in [Slots -> [0 .. ChunkCapacity - 1 -> Tags \cup {Unset}]]
  /\ doutput \in [Slots -> SUBSET (Tags \cup {Unset})]
  /\ results \in [0 .. MaxChunks - 1 -> SUBSET (Tags \cup {Unset})]
  /\ DOMAIN queue = Slots
  /\ \A s \in Slots : Len(queue[s]) <= 3 /\ \A i \in DOMAIN queue[s] : queue[s][i] \in Op
  /\ returned \in [Tags -> Nat]

\* Data never overtakes: while a stream still has its copy to the device to
\* do, its staging buffer holds elements of the current call only, and when a
\* scalar is about to be copied back it is the reduction of the very chunk
\* whose result slot it goes to.
ChunkIntegrity ==
  /\ TypeOK
  /\ host \in {"issue", "drain"} =>
       \A s \in Slots : \A i \in DOMAIN queue[s] :
         LET o == queue[s][i]
         IN /\ o.op = "h2d" => \A j \in 0 .. o.arg - 1 : staging[s][j][1] = call
            /\ o.op = "d2h" /\ i = 1 =>
                 doutput[s] = {t \in Tags : /\ t[1] = call /\ t[2] < count
                                            /\ t[2] \div ChunkCapacity = o.arg}

\* reduce returns the combination of each element of its input, once, and of
\* nothing an earlier call left in a buffer; and it refuses an input only if it
\* is longer than the reducer was made for: the chunks of any other have a
\* result slot each, and the error "async pipeline chunk count exceeds prepared
\* capacity" cannot happen.
ReturnsWhole ==
  [][/\ host' = "idle" => returned' = Whole(call', count')
     /\ host = "idle" /\ host' = "over" => count' > MaxElements]_vars

\* Every call ends, however the streams interleave.
CallEnds == host \in {"issue", "drain"} ~> host \in {"idle", "over"}
=============================================================================
