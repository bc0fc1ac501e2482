---------------------------- MODULE FilePipeline ----------------------------
(***************************************************************************)
(* How one GPU of a file stream reduces its range: reduce_gpu_file_range   *)
(* and GpuFilePipeline (native/src/integrated_strategy.cu).  The host      *)
(* reads the range chunk by chunk from a file and deals the chunks to the  *)
(* slots in turn.  A slot has one staging buffer, one stream and one       *)
(* scalar; the host gives its stream a copy to the device, a reduction and *)
(* a copy of the scalar back, and does not wait.  Only the flag pending    *)
(* says that a slot's scalar is still to be collected, and its buffer not  *)
(* to be touched.  With a single slot everything is done at once.          *)
(*                                                                         *)
(* A call repeats the reduction reuse_count times and returns the last     *)
(* value.  Values are multiplicities of elements, as in DynamicHybrid;     *)
(* buffers hold elements of the range.                                     *)
(***************************************************************************)
EXTENDS Integers, Sequences, FiniteSets

CONSTANTS
  N,          \* range.count
  Capacity,   \* elements of a buffer
  SlotCounts, \* pipeline_streams, or one if the transfer is not asynchronous
  ReuseCount, \* cfg.reuse_count
  Faults,     \* "file": opening, seeking or reading; "cuda": a CUDA call
  None,       \* what is in a buffer that was never filled
  MaxRanges   \* BOUND: calls

ASSUME FileAssumption ==
  /\ N \in Nat /\ MaxRanges \in Nat
  /\ {Capacity, ReuseCount} \cup SlotCounts \subseteq Nat \ {0}
  /\ Faults \subseteq {"file", "cuda"}
  /\ None \notin Nat

VARIABLES
  slots,       \* slots.size()
  reader,      \* where the host is: "idle", "open", "chunks", "collect" or "over"
  round,       \* reuse
  next,        \* done: elements of the range read so far
  pending,     \* of each slot
  slotStaging, \* pinned buffer of each slot
  slotInput,   \* d_input
  slotOutput,  \* d_output: the elements reduced into it
  houtput,     \* h_output
  slotQueue,   \* operations each stream has still to execute
  merged,      \* merged, and in the end final
  lastValue,   \* the last value returned
  calls        \* calls made

slotDevice == <<slotInput, slotOutput, houtput>>
fileVars   == <<slots, reader, round, next, pending, slotStaging, slotDevice, slotQueue, merged,
                lastValue, calls>>

Elements == 0 .. N - 1
Identity == [e \in Elements |-> 0]
Ring     == 0 .. slots - 1
Indices  == 0 .. Capacity - 1

Combine(v, S) == [e \in Elements |-> v[e] + (IF e \in S THEN 1 ELSE 0)]

FileInit ==
  /\ slots \in SlotCounts
  /\ reader = "idle"
  /\ round = 0
  /\ next = 0
  /\ pending = [s \in Ring |-> FALSE]
  /\ slotStaging = [s \in Ring |-> [i \in Indices |-> None]]
  /\ slotInput = slotStaging
  /\ slotOutput = [s \in Ring |-> {}]
  /\ houtput = slotOutput
  /\ slotQueue = [s \in Ring |-> <<>>]
  /\ merged = Identity
  /\ lastValue = Identity
  /\ calls = 0

BeginRange ==
  /\ reader = "idle"
  /\ calls < MaxRanges
  /\ calls' = calls + 1
  /\ reader' = "open"
  /\ round' = 0
  /\ merged' = Identity
  /\ UNCHANGED <<slots, next, pending, slotStaging, slotDevice, slotQueue, lastValue>>

\* The file is opened anew in every round, at the start of the range.
Open ==
  /\ reader = "open"
  /\ reader' = IF N = 0 THEN "collect" ELSE "chunks"
  /\ next' = 0
  /\ UNCHANGED <<slots, round, pending, slotStaging, slotDevice, slotQueue, merged, lastValue,
                 calls>>

Slot == (next \div Capacity) % slots

\* cudaStreamSynchronize, then the scalar is combined.
Collect(s) ==
  /\ slotQueue[s] = <<>>
  /\ merged' = Combine(merged, houtput[s])
  /\ pending' = [pending EXCEPT ![s] = FALSE]
  /\ UNCHANGED <<slots, round, next, slotStaging, slotDevice, slotQueue, lastValue, calls>>

\* (Mutant: a slot is never waited for before it is filled again.)
NeverInUse(s) == FALSE

InUse(s) == pending[s]

\* The slot's last chunk is still under way.
WaitForSlot ==
  /\ reader = "chunks"
  /\ InUse(Slot)
  /\ Collect(Slot)
  /\ UNCHANGED reader

\* The next chunk is read into the staging buffer; the short last one leaves the
\* rest of the buffer as it was.
Length == IF Capacity <= N - next THEN Capacity ELSE N - next
Filled == [i \in Indices |-> IF i < Length THEN next + i ELSE slotStaging[Slot][i]]

\* The three operations for n elements.
Operations(n) == <<[op |-> "h2d", count |-> n], [op |-> "reduce", count |-> n],
                   [op |-> "d2h", count |-> 1]>>

\* One chunk, given to the stream of its slot.
QueueChunk ==
  /\ reader = "chunks"
  /\ slots > 1
  /\ ~ InUse(Slot)
  /\ slotStaging' = [slotStaging EXCEPT ![Slot] = Filled]
  /\ slotQueue' = [slotQueue EXCEPT ![Slot] = @ \o Operations(Length)]
  /\ pending' = [pending EXCEPT ![Slot] = TRUE]
  /\ next' = next + Length
  /\ reader' = IF next' < N THEN "chunks" ELSE "collect"
  /\ UNCHANGED <<slots, round, slotDevice, merged, lastValue, calls>>

\* With a single slot every operation is waited for.
ReduceChunk ==
  /\ reader = "chunks"
  /\ slots = 1
  /\ slotStaging' = [slotStaging EXCEPT ![0] = Filled]
  /\ slotInput' = [slotInput EXCEPT ![0] =
                     [i \in Indices |-> IF i < Length THEN Filled[i] ELSE @[i]]]
  /\ slotOutput' = [slotOutput EXCEPT ![0] = {slotInput'[0][i] : i \in 0 .. Length - 1}]
  /\ houtput' = slotOutput'
  /\ merged' = Combine(merged, houtput'[0])
  /\ next' = next + Length
  /\ reader' = IF next' < N THEN "chunks" ELSE "collect"
  /\ UNCHANGED <<slots, round, pending, slotQueue, lastValue, calls>>

\* A stream executes its next operation.
ExecuteNext(s) ==
  /\ slotQueue[s] # <<>>
  /\ LET o == Head(slotQueue[s])
     IN \/ /\ o.op = "h2d"
           /\ slotInput' = [slotInput EXCEPT ![s] =
                           [i \in Indices |-> IF i < o.count THEN slotStaging[s][i] ELSE @[i]]]
           /\ UNCHANGED <<slotOutput, houtput>>
        \/ /\ o.op = "reduce"
           /\ slotOutput' = [slotOutput EXCEPT ![s] = {slotInput[s][i] : i \in 0 .. o.count - 1}]
           /\ UNCHANGED <<slotInput, houtput>>
        \/ /\ o.op = "d2h"
           /\ houtput' = [houtput EXCEPT ![s] = slotOutput[s]]
           /\ UNCHANGED <<slotInput, slotOutput>>
  /\ slotQueue' = [slotQueue EXCEPT ![s] = Tail(@)]
  /\ UNCHANGED <<slots, reader, round, next, pending, slotStaging, merged, lastValue, calls>>

\* After the last chunk the slots are collected in order.
CollectSlot ==
  /\ reader = "collect"
  /\ \E s \in Ring :
       /\ pending[s]
       /\ \A r \in Ring : r < s => ~ pending[r]
       /\ Collect(s)
  /\ UNCHANGED reader

\* The end of a round: another one, or the call returns.
EndRound ==
  /\ reader = "collect"
  /\ \A s \in Ring : ~ pending[s]
  /\ IF round + 1 < ReuseCount
     THEN /\ reader' = "open" /\ round' = round + 1 /\ merged' = Identity
          /\ UNCHANGED lastValue
     ELSE /\ reader' = "idle" /\ lastValue' = merged
          /\ UNCHANGED <<round, merged>>
  /\ UNCHANGED <<slots, next, pending, slotStaging, slotDevice, slotQueue, calls>>

\* The thread records the exception, run_once rethrows it, and the strategy is
\* not run again, whatever is pending.
Fail ==
  /\ \/ "file" \in Faults /\ reader \in {"open", "chunks"}
     \/ "cuda" \in Faults /\ reader \in {"open", "chunks", "collect"}
  /\ reader' = "over"
  /\ UNCHANGED <<slots, round, next, pending, slotStaging, slotDevice, slotQueue, merged,
                 lastValue, calls>>

RangeDone ==
  /\ reader = "over" \/ (reader = "idle" /\ calls = MaxRanges)
  /\ \A s \in Ring : slotQueue[s] = <<>>
  /\ UNCHANGED fileVars

FileNext ==
  \/ BeginRange \/ Open \/ WaitForSlot \/ QueueChunk \/ ReduceChunk \/ CollectSlot \/ EndRound
  \/ Fail
  \/ \E s \in Ring : ExecuteNext(s)
  \/ RangeDone

FileSpec == FileInit /\ [][FileNext]_fileVars

-----------------------------------------------------------------------------
(* Properties *)

Phase ==
  IF reader \in {"idle", "over"} THEN reader ELSE "running"

\* Only the last round counts.
Absorbed == {e \in Elements : round = ReuseCount - 1 /\ merged[e] > 0}

Abstract == INSTANCE ParallelReduction
              WITH phase <- Phase, absorbed <- Absorbed, returned <- lastValue

\* A GPU keeps the promise of a strategy for its range: what it returns counts
\* each element of the range once, so no chunk was overwritten in a staging buffer
\* or a scalar before it was used, none was collected twice or left for a later
\* round or call; StaticPartition takes it as one step.
ImplementsReduction == Abstract!Spec
=============================================================================
