-------------------------- MODULE Harness_proofs ---------------------------
(***************************************************************************)
(* Proofs about a task: run_task and its worker (WorkerSession), then the  *)
(* campaign that calls it (Campaign), for any number of repetitions, lines *)
(* in the pipe, modes, faults and Ctrl-C's.                                *)
(*                                                                         *)
(* SessionInv says, for each place of the runner, how far the worker can   *)
(* be and what is on its way between them; the lemmas about the worker's   *)
(* steps and then those about the runner's keep it, one part at a time.    *)
(* CampaignInv relates the rows to the next task, and the manifest, the    *)
(* summary and the exit code to the rows.                                  *)
(***************************************************************************)
EXTENDS WorkerSession, Campaign, SequenceTheorems, FiniteSetTheorems, TLAPS

Commands == {"PROBE", "TIMING", "ENERGY", "DUMP"}

\* The types the proof relies on.
Types ==
  /\ wpc \in WorkerPc /\ dumped \in 0 .. Repetitions /\ hung \in BOOLEAN
  /\ signal \in {"none", "term", "kill"} /\ hungup \in BOOLEAN
  /\ events \in Seq(Event) /\ Len(events) <= PipeSize
  /\ buffered \in Seq(Event) /\ Len(buffered) <= PipeSize
  /\ rpc \in RunnerPc /\ stage \in {"select", "readline"}
  /\ exc \in {"none", "error", "interrupt"}
  /\ batches \in 0 .. 1 /\ mismatch \in BOOLEAN
  /\ meter \in {"none", "open", "started", "stopped", "closed"}
  /\ struck \subseteq RunnerPc /\ mode \in Modes

\* run_task up to the verdict, while nothing has been raised.
Early == {"called", "entry", "spawned", "ready", "send_probe", "probe", "send_timing", "timing",
          "open_meter", "opened", "send_energy", "energy", "stop_meter", "send_dump", "results",
          "account", "conclude"}

OneRow == {<<>>} \cup {<<s>> : s \in Settled}

\* The exception in flight, the rows and the signal, wherever the runner is.
ControlInv ==
  /\ rpc \in Early \cup {"reaping"} => exc = "none"
  /\ rpc \in Early \cup {"close_meter", "cleanup", "reaping"} => signal = "none"
  /\ rpc = "wait_term" => signal = "term"
  /\ rpc = "wait_kill" => signal = "kill"
  /\ rpc = "handle" => exc # "none"
  /\ struck # {} /\ signal # "kill" => IF rpc = "done" THEN exc # "none" ELSE exc = "interrupt"

RowInv ==
  /\ rpc \in Early \cup {"close_meter"} => rows = <<>>
  /\ rpc = "reaping" => rows = <<"skipped">>
  /\ rpc # "done" => rows \in OneRow
  /\ rpc \in CleanupPcs /\ exc = "none" => rows # <<>>
  /\ rpc \in CleanupPcs \cup {"handle"} /\ exc # "none" /\ rows # <<>> =>
       rows = <<"skipped">> \/ struck # {} \/ signal = "kill"
  /\ rpc = "done" => RowPerTask /\ OutcomeKnown

MeterInv ==
  /\ rpc \in {"called", "entry", "spawned", "ready", "send_probe", "probe", "send_timing", "timing",
              "open_meter", "reaping"} => meter = "none" /\ batches = 0
  /\ rpc = "opened" => meter = "open"
  /\ rpc \in {"send_energy", "energy", "stop_meter"} => meter = "started"
  /\ rpc \in {"opened", "send_energy", "energy", "stop_meter", "open_meter", "close_meter"} => Energy
  /\ rpc \in {"send_dump", "results", "account", "conclude"} =>
       meter = IF Energy THEN "closed" ELSE "none"
  /\ rpc \in Early \cup {"close_meter"} => batches = IF rpc = "conclude" /\ Energy THEN 1 ELSE 0
  /\ rpc \notin MeterBlock \cup {"close_meter"} /\ struck \cap {"opened", "close_meter"} = {} =>
       meter \in {"none", "closed"}

GoneInv ==
  /\ rpc \in {"called", "entry"} => wpc = "off"
  /\ rpc \in {"handle", "done"} /\ struck \cap ({"spawned"} \cup CleanupPcs) = {} /\ signal # "kill"
       => Gone

\* An unread command is one the next getline accepts, and a worker that is
\* not at a getline has none to read.
Accepted(w, c) ==
  \/ w = "exited"
  \/ w = "first" /\ c \in {"PROBE", "TIMING"}
  \/ w = "second" /\ c = "TIMING"
  \/ w = "third" /\ c \in {"ENERGY", "DUMP"}
  \/ w = "fourth" /\ c = "DUMP"
CmdInv == cmds = <<>> \/ \E c \in Commands : cmds = <<c>> /\ Accepted(wpc, c)

-----------------------------------------------------------------------------
(* How far the worker can be, for each place of the runner *)

\* What is on its way from the worker to the runner.
Pipe == buffered \o events

OneLine(names) == Len(Pipe) = 1 /\ Pipe[1].event \in names

Nothing == cmds = <<>> /\ Len(Pipe) = 0

\* The worker waits for a command that was not sent yet.
Rests(w) == Nothing /\ wpc \in {w, "exited"}

\* It is getting ready.
Readies ==
  /\ cmds = <<>>
  /\ \/ Len(Pipe) = 0 /\ wpc \in {"starting", "erring", "exited"}
     \/ OneLine({"ready"}) /\ wpc \in {"first", "exited"}
     \/ OneLine({"unsupported", "error"}) /\ wpc \in {"closing", "exited"}

\* It was sent command c at getline w, to run batch b.
Runs(w, c, b, ended, after) ==
  \/ cmds = <<c>> /\ Len(Pipe) = 0 /\ wpc \in {w, "exited"}
  \/ /\ cmds = <<>>
     /\ \/ Len(Pipe) = 0 /\ wpc \in {b, "erring", "exited"}
        \/ OneLine({ended}) /\ wpc \in {after, "exited"}
        \/ OneLine({"error"}) /\ wpc \in {"closing", "exited"}

\* It was sent DUMP at getline w.
Dumps(w) ==
  \/ cmds = <<"DUMP">> /\ Len(Pipe) = 0 /\ wpc \in {w, "exited"} /\ reps = dumped
  \/ /\ cmds = <<>>
     /\ \/ /\ wpc \in {"dumping", "exited"}
           /\ dumped = reps + Len(Pipe)
           /\ \A i \in 1 .. Len(Pipe) : Pipe[i].event = "result"
        \/ /\ wpc \in {"closing", "exited"}
           /\ dumped = Repetitions /\ dumped + 1 = reps + Len(Pipe) /\ Len(Pipe) > 0
           /\ \A i \in 1 .. Len(Pipe) :
                Pipe[i].event = IF i = Len(Pipe) THEN "done" ELSE "result"

Over == wpc \in {"closing", "exited"}

TimingAt == IF AutoTiming THEN "second" ELSE "first"
DumpAt   == IF Energy THEN "fourth" ELSE "third"

Protocol ==
  /\ rpc \in {"called", "entry"} => Nothing
  /\ rpc \in {"spawned", "ready"} => Readies
  /\ rpc = "send_probe" => AutoTiming /\ Rests("first")
  /\ rpc = "probe" => AutoTiming /\ Runs("first", "PROBE", "probing", "probe_done", "second")
  /\ rpc = "send_timing" => Rests(TimingAt)
  /\ rpc = "timing" => Runs(TimingAt, "TIMING", "timing", "timing_done", "third")
  /\ rpc \in {"open_meter", "opened", "send_energy"} => Rests("third")
  /\ rpc = "energy" => Runs("third", "ENERGY", "energy", "measure_done", "fourth")
  /\ rpc = "stop_meter" \/ (rpc = "close_meter" /\ exc = "none") => Rests("fourth")
  /\ rpc = "send_dump" => Rests(DumpAt)
  /\ rpc = "results" => Dumps(DumpAt)
  /\ rpc \in {"account", "conclude", "reaping"} \/ (rpc \in CleanupPcs /\ exc = "none") => Over

\* Rows of the results files, counted on both sides.
CountInv ==
  /\ reps \in 0 .. dumped
  /\ rpc \in Early \ {"results", "account", "conclude"} => dumped = 0
  /\ rpc = "close_meter" /\ exc = "none" => dumped = 0
  /\ rpc = "conclude" => reps = Repetitions
  /\ rows # <<>> /\ rows[1] \in {"ok", "invalid"} =>
       /\ reps = Repetitions /\ Over
       /\ batches = (IF Energy THEN 1 ELSE 0)
       /\ meter = (IF Energy THEN "closed" ELSE "none")
       /\ rows[1] = "ok" <=> ~ mismatch

SessionInv == Types /\ ControlInv /\ RowInv /\ MeterInv /\ GoneInv /\ CmdInv /\ Protocol /\ CountInv

-----------------------------------------------------------------------------
LEMMA Bounds == Repetitions \in Nat /\ Repetitions > 0 /\ PipeSize \in Nat /\ PipeSize > 0
BY RepetitionsAssumption, PipeAssumption

LEMMA Places ==
  /\ Awaiting = {"ready", "probe", "timing", "energy", "results"}
  /\ MeterBlock = {"opened", "send_energy", "energy", "stop_meter"}
  /\ CleanupPcs = {"cleanup", "wait_term", "wait_kill"}
  /\ DOMAIN Script = {"first", "second", "third", "fourth"}
  /\ DOMAIN BatchNext = {"probing", "timing", "energy"}
  /\ Busy = {"starting", "probing", "timing", "energy"}
  /\ RunnerPc = Early \cup CleanupPcs \cup {"reaping", "close_meter", "handle", "done"}
  /\ WorkerPc = {"off", "exited", "erring", "dumping", "closing", "starting", "probing", "timing",
                 "energy", "first", "second", "third", "fourth"}
<1>1. Awaiting = {"ready", "probe", "timing", "energy", "results"}
  BY DEF Awaiting, Expected
<1>2. DOMAIN Script = {"first", "second", "third", "fourth"}
  BY DEF Script
<1>3. DOMAIN BatchNext = {"probing", "timing", "energy"}
  BY DEF BatchNext
<1> QED BY <1>1, <1>2, <1>3 DEF MeterBlock, CleanupPcs, Busy, RunnerPc, WorkerPc, Early

\* What the worker writes is added to what is on its way.
LEMMA PipeAppend ==
  ASSUME Types, NEW ev \in Event, events' = Append(events, ev), buffered' = buffered
  PROVE  Pipe' = Append(Pipe, ev)
<1>1. events \in Seq(Event) /\ buffered \in Seq(Event)
  BY DEF Types
<1>2. PICK e, b : e = events /\ b = buffered
  OBVIOUS
<1>3. Append(e, ev) = e \o <<ev>> /\ Append(b \o e, ev) = (b \o e) \o <<ev>>
  BY <1>1, <1>2, AppendIsConcat, ConcatProperties
<1>4. b \o (e \o <<ev>>) = (b \o e) \o <<ev>>
  BY <1>1, <1>2, ConcatAssociative
<1> QED BY <1>2, <1>3, <1>4 DEF Pipe

\* Reading ahead changes nothing of it, taking a line takes the first.
LEMMA PipeFill ==
  ASSUME Types, buffered = <<>>, NEW k \in 1 .. Len(events),
         buffered' = SubSeq(events, 1, k), events' = SubSeq(events, k + 1, Len(events))
  PROVE  /\ Pipe' = Pipe /\ buffered' \in Seq(Event) /\ events' \in Seq(Event)
         /\ Len(buffered') <= PipeSize /\ Len(events') <= PipeSize
<1>1. PICK e \in Seq(Event) : e = events
  BY DEF Types
<1>2. PICK n \in Nat : n = Len(e) /\ k \in 1 .. n /\ n <= PipeSize
  BY <1>1, LenProperties DEF Types
<1>3. \A i \in 1 .. n : e[i] \in Event
  BY <1>1, <1>2, ElementOfSeq
<1>4. SubSeq(e, 1, k) \in Seq(Event) /\ Len(SubSeq(e, 1, k)) = k
  BY <1>2, <1>3, SubSeqProperties
<1>5. SubSeq(e, k + 1, n) \in Seq(Event) /\ Len(SubSeq(e, k + 1, n)) = n - k
  <2>1. \A i \in k + 1 .. n : e[i] \in Event
    BY <1>2, <1>3
  <2>2. Len(SubSeq(e, k + 1, n)) = IF k + 1 <= n THEN n - (k + 1) + 1 ELSE 0
    BY <1>2, <2>1, SubSeqProperties
  <2> QED BY <1>2, <2>1, <2>2, SubSeqProperties
<1>6. SubSeq(e, 1, k) \o SubSeq(e, k + 1, n) = e
  <2>1. SubSeq(e, 1, k) \o SubSeq(e, k + 1, n) = SubSeq(e, 1, n)
    BY <1>1, <1>2, <1>3, ConcatAdjacentSubSeq
  <2>2. SubSeq(e, 1, n) = e
    BY <1>1, <1>2, SubSeqFull
  <2> QED BY <2>1, <2>2
<1>7. Pipe = e
  BY <1>1, ConcatEmptySeq DEF Pipe
<1> QED BY Bounds, <1>1, <1>2, <1>4, <1>5, <1>6, <1>7 DEF Pipe

LEMMA PipeTake ==
  ASSUME Types, buffered # <<>>, buffered' = Tail(buffered), events' = events
  PROVE  /\ Len(Pipe) \in Nat \ {0} /\ Pipe[1] = Head(buffered) /\ Pipe[1] \in Event
         /\ Len(Pipe') = Len(Pipe) - 1 /\ \A i \in 1 .. Len(Pipe) - 1 : Pipe'[i] = Pipe[i + 1]
         /\ buffered' \in Seq(Event) /\ Len(buffered') <= PipeSize
<1>1. PICK e \in Seq(Event), b \in Seq(Event) : e = events /\ b = buffered
  BY DEF Types
<1>2. PICK n \in Nat, m \in Nat : n = Len(b) /\ m = Len(e) /\ n <= PipeSize
  BY <1>1, LenProperties DEF Types
<1>3. n > 0
  BY <1>1, <1>2, EmptySeq
<1>4. /\ Head(b) = b[1] /\ b[1] \in Event /\ Tail(b) \in Seq(Event) /\ Len(Tail(b)) = n - 1
      /\ \A i \in 1 .. n - 1 : Tail(b)[i] = b[i + 1]
  BY <1>1, <1>2, <1>3
<1>5. /\ Len(b \o e) = n + m /\ b \o e \in Seq(Event)
      /\ \A i \in 1 .. n + m : (b \o e)[i] = IF i <= n THEN b[i] ELSE e[i - n]
  BY <1>1, <1>2, ConcatProperties
<1>6. /\ Len(Tail(b) \o e) = n - 1 + m /\ Tail(b) \o e \in Seq(Event)
      /\ \A i \in 1 .. n - 1 + m :
           (Tail(b) \o e)[i] = IF i <= n - 1 THEN Tail(b)[i] ELSE e[i - (n - 1)]
  BY <1>1, <1>2, <1>4, ConcatProperties
<1>7. Pipe = b \o e /\ Pipe' = Tail(b) \o e
  BY <1>1 DEF Pipe
<1>8. PICK f, g, t : f = b \o e /\ g = Tail(b) \o e /\ t = Tail(b)
  OBVIOUS
<1>9. \A i \in 1 .. n + m - 1 : g[i] = f[i + 1]
  <2>1. \A i \in 1 .. n + m : f[i] = IF i <= n THEN b[i] ELSE e[i - n]
    BY <1>5, <1>8
  <2>2. \A i \in 1 .. n - 1 + m : g[i] = IF i <= n - 1 THEN t[i] ELSE e[i - (n - 1)]
    BY <1>6, <1>8
  <2>3. \A i \in 1 .. n - 1 : t[i] = b[i + 1]
    BY <1>4, <1>8
  <2> SUFFICES ASSUME NEW i \in 1 .. n + m - 1 PROVE g[i] = f[i + 1]
    OBVIOUS
  <2>0. PICK j \in 1 .. n + m : j = i + 1
    OBVIOUS
  <2>4. CASE i <= n - 1
    <3>1. g[i] = t[i] /\ t[i] = b[i + 1]
      BY <2>2, <2>3, <2>4
    <3>2. f[j] = b[j]
      BY <2>0, <2>1, <2>4
    <3> QED BY <2>0, <3>1, <3>2
  <2>5. CASE ~(i <= n - 1)
    <3>1. g[i] = e[i - (n - 1)]
      BY <2>2, <2>5
    <3>2. f[j] = e[j - n]
      BY <2>0, <2>1, <2>5
    <3>3. i - (n - 1) = j - n
      BY <2>0
    <3> QED BY <2>0, <3>1, <3>2, <3>3
  <2> QED BY <2>4, <2>5
<1>10. Len(Pipe) = n + m /\ Len(Pipe') = n + m - 1 /\ Pipe[1] = b[1]
  BY <1>3, <1>5, <1>6, <1>7
<1> QED BY Bounds, <1>1, <1>2, <1>3, <1>4, <1>7, <1>8, <1>9, <1>10

-----------------------------------------------------------------------------
(* The worker's steps, and what they keep of each row of Protocol *)

\* A line with one of these names is written.
Writes(names) ==
  /\ Len(Pipe') = Len(Pipe) + 1 /\ Pipe'[Len(Pipe) + 1].event \in names
  /\ \A i \in 1 .. Len(Pipe) : Pipe'[i] = Pipe[i]

Same == UNCHANGED <<cmds, dumped>>

Obeyed(w, c, b) ==
  wpc = w /\ wpc' = b /\ cmds = <<c>> /\ cmds' = <<>> /\ Pipe' = Pipe /\ dumped' = dumped

WorkerMove ==
  \/ wpc = "starting" /\ wpc' = "first" /\ Writes({"ready"}) /\ Same
  \/ wpc = "starting" /\ wpc' = "closing" /\ Writes({"unsupported"}) /\ Same
  \/ Obeyed("first", "PROBE", "probing")
  \/ Obeyed("first", "TIMING", "timing")
  \/ Obeyed("second", "TIMING", "timing")
  \/ Obeyed("third", "ENERGY", "energy")
  \/ Obeyed("third", "DUMP", "dumping")
  \/ Obeyed("fourth", "DUMP", "dumping")
  \/ wpc = "probing" /\ wpc' = "second" /\ Writes({"probe_done"}) /\ Same
  \/ wpc = "timing" /\ wpc' = "third" /\ Writes({"timing_done"}) /\ Same
  \/ wpc = "energy" /\ wpc' = "fourth" /\ Writes({"measure_done"}) /\ Same
  \/ /\ wpc = "dumping" /\ wpc' = "dumping" /\ Writes({"result"}) /\ UNCHANGED cmds
     /\ dumped' = dumped + 1 /\ dumped < Repetitions
  \/ wpc = "dumping" /\ wpc' = "closing" /\ Writes({"done"}) /\ dumped = Repetitions /\ Same
  \/ wpc \in Busy /\ wpc' = "erring" /\ Pipe' = Pipe /\ Same
  \/ wpc = "erring" /\ wpc' = "closing" /\ Writes({"error"}) /\ Same
  \/ wpc \notin {"off", "exited"} /\ wpc' = "exited" /\ Pipe' = Pipe /\ Same
  \/ wpc' = wpc /\ Pipe' = Pipe /\ Same

WorkerAction ==
  \/ GetReady \/ Obey \/ RunBatch \/ Dump \/ Throw \/ Report \/ Close \/ Crash \/ Hang
  \/ DieOfSignal \/ LosePeer

LEMMA PipeTyped ==
  ASSUME Types
  PROVE  Pipe \in Seq(Event) /\ Len(Pipe) \in Nat /\ \A i \in 1 .. Len(Pipe) : Pipe[i] \in Event
<1>1. Pipe \in Seq(Event)
  BY ConcatProperties DEF Types, Pipe
<1> QED BY <1>1, LenProperties, ElementOfSeq

LEMMA EmitWrites ==
  ASSUME Types, NEW ev, Emit(ev), ev \in Event, buffered' = buffered
  PROVE  Writes({ev.event})
<1>1. Pipe' = Append(Pipe, ev)
  BY PipeAppend DEF Emit
<1>2. PICK p \in Seq(Event) : p = Pipe
  BY PipeTyped
<1>3. /\ Len(Append(p, ev)) = Len(p) + 1 /\ Append(p, ev)[Len(p) + 1] = ev
      /\ \A i \in 1 .. Len(p) : Append(p, ev)[i] = p[i]
  BY <1>2, AppendProperties
<1> QED BY <1>1, <1>2, <1>3 DEF Writes

LEMMA Lines ==
  \A n \in EventName : /\ Line(n) \in Event /\ Line(n).event = n
                       /\ \A ev \in Values(n) : ev \in Event /\ ev.event = n
<1>1. \A n \in EventName, r \in BOOLEAN :
        [event |-> n, right |-> r] \in Event /\ [event |-> n, right |-> r].event = n
  BY DEF Event
<1> QED BY <1>1 DEF Line, Values

LEMMA WorkerMoves ==
  ASSUME Types, CmdInv, WorkerAction, buffered' = buffered
  PROVE  WorkerMove
<1>e. EventName = {"unsupported", "ready", "probe_done", "timing_done",
                   "measure_done", "result", "done", "error"}
  BY DEF EventName
<1>q. events' = events => Pipe' = Pipe
  BY DEF Pipe
<1>l. \A n \in EventName : /\ Line(n) \in Event /\ Line(n).event = n
                           /\ \A ev \in Values(n) : ev \in Event /\ ev.event = n
  BY Lines
<1>1. CASE GetReady
  <2>1. CASE Emit(Line("ready")) /\ wpc' = "first"
    <3>1. Writes({"ready"})
      BY <1>e, <1>l, <2>1, EmitWrites
    <3> QED BY <1>1, <2>1, <3>1 DEF GetReady, WorkerMove, Same
  <2>2. CASE Emit(Line("unsupported")) /\ wpc' = "closing"
    <3>1. Writes({"unsupported"})
      BY <1>e, <1>l, <2>2, EmitWrites
    <3> QED BY <1>1, <2>2, <3>1 DEF GetReady, WorkerMove, Same
  <2> QED BY <1>1, <2>1, <2>2 DEF GetReady
<1>2. CASE Obey
  <2>1. /\ wpc \in {"first", "second", "third", "fourth"} /\ cmds # <<>> /\ cmds' = Tail(cmds)
        /\ Pipe' = Pipe /\ dumped' = dumped
    BY <1>2, <1>q, Places DEF Obey
  <2>2. PICK c \in Commands : cmds = <<c>> /\ Accepted(wpc, c)
    BY <2>1 DEF CmdInv
  <2>3. Head(cmds) = c /\ cmds' = <<>>
    BY <2>1, <2>2
  <2>4. wpc' = IF c \in DOMAIN Script[wpc] THEN Script[wpc][c] ELSE "erring"
    BY <1>2, <2>3 DEF Obey
  <2>5. CASE wpc = "first"
    BY <2>1, <2>2, <2>3, <2>4, <2>5 DEF Accepted, Script, WorkerMove, Obeyed
  <2>6. CASE wpc = "second"
    BY <2>1, <2>2, <2>3, <2>4, <2>6 DEF Accepted, Script, WorkerMove, Obeyed
  <2>7. CASE wpc = "third"
    BY <2>1, <2>2, <2>3, <2>4, <2>7 DEF Accepted, Script, WorkerMove, Obeyed
  <2>8. CASE wpc = "fourth"
    BY <2>1, <2>2, <2>3, <2>4, <2>8 DEF Accepted, Script, WorkerMove, Obeyed
  <2> QED BY <2>1, <2>5, <2>6, <2>7, <2>8
<1>3. CASE RunBatch
  <2>1. wpc \in {"probing", "timing", "energy"} /\ Same
    BY <1>3, Places DEF RunBatch, Same
  <2>2. CASE wpc = "probing"
    <3>1. Emit(Line("probe_done")) /\ wpc' = "second"
      BY <1>3, <2>2 DEF RunBatch, BatchDone, BatchNext
    <3>2. Writes({"probe_done"})
      BY <1>e, <1>l, <3>1, EmitWrites
    <3> QED BY <2>1, <2>2, <3>1, <3>2 DEF WorkerMove
  <2>3. CASE wpc = "timing"
    <3>1. Emit(Line("timing_done")) /\ wpc' = "third"
      BY <1>3, <2>3 DEF RunBatch, BatchDone, BatchNext
    <3>2. Writes({"timing_done"})
      BY <1>e, <1>l, <3>1, EmitWrites
    <3> QED BY <2>1, <2>3, <3>1, <3>2 DEF WorkerMove
  <2>4. CASE wpc = "energy"
    <3>1. (\E ev \in Values("measure_done") : Emit(ev)) /\ wpc' = "fourth"
      BY <1>3, <2>4 DEF RunBatch, BatchNext
    <3>2. Writes({"measure_done"})
      BY <1>e, <1>l, <3>1, EmitWrites
    <3> QED BY <2>1, <2>4, <3>1, <3>2 DEF WorkerMove
  <2> QED BY <2>1, <2>2, <2>3, <2>4
<1>4. CASE Dump
  <2>1. CASE MoreToDump
    <3>1. \E ev \in Values("result") : Emit(ev)
      BY <1>4, <2>1 DEF Dump
    <3>2. Writes({"result"})
      BY <1>e, <1>l, <3>1, EmitWrites
    <3> QED BY <1>4, <2>1, <3>2 DEF Dump, MoreToDump, WorkerMove
  <2>2. CASE ~ MoreToDump
    <3>1. Emit(Line("done"))
      BY <1>4, <2>2 DEF Dump
    <3>2. Writes({"done"})
      BY <1>e, <1>l, <3>1, EmitWrites
    <3>3. dumped = Repetitions
      BY <2>2, Bounds DEF MoreToDump, Types
    <3> QED BY <1>4, <2>2, <3>2, <3>3 DEF Dump, WorkerMove, Same
  <2> QED BY <2>1, <2>2
<1>5. CASE Throw
  BY <1>5, <1>q DEF Throw, WorkerMove, Same
<1>6. CASE Report
  <2>1. Emit(Line("error"))
    BY <1>6 DEF Report
  <2>2. Writes({"error"})
    BY <1>e, <1>l, <2>1, EmitWrites
  <2> QED BY <1>6, <2>2 DEF Report, WorkerMove, Same
<1>7. CASE Close \/ Crash \/ DieOfSignal \/ LosePeer
  BY <1>7, <1>q DEF Close, Crash, DieOfSignal, LosePeer, Gone, WorkerMove, Same
<1>8. CASE Hang
  BY <1>8, <1>q DEF Hang, WorkerMove, Same
<1> QED BY <1>1, <1>2, <1>3, <1>4, <1>5, <1>6, <1>7, <1>8 DEF WorkerAction

LEMMA WritesOne ==
  ASSUME NEW names, Writes(names), Len(Pipe) = 0
  PROVE  OneLine(names)' /\ Len(Pipe') # 0
BY DEF Writes, OneLine

LEMMA QuietPipe ==
  ASSUME Pipe' = Pipe
  PROVE  /\ (Len(Pipe) = 0) => Len(Pipe') = 0
         /\ \A names : OneLine(names) => OneLine(names)'
BY DEF OneLine

LEMMA RestsKept ==
  ASSUME WorkerMove, NEW w \in {"first", "second", "third", "fourth"}, Rests(w)
  PROVE  Rests(w)'
BY Places DEF WorkerMove, Obeyed, Same, Rests, Nothing

LEMMA OverKept == ASSUME WorkerMove, Over PROVE Over'
BY Places DEF WorkerMove, Obeyed, Same, Over

LEMMA ReadiesKept == ASSUME WorkerMove, Readies PROVE Readies'
<1>1. CASE Len(Pipe) = 0 /\ wpc \in {"starting", "erring", "exited"}
  BY <1>1, WritesOne, QuietPipe, Places DEF WorkerMove, Obeyed, Same, Readies, OneLine
<1>2. CASE OneLine({"ready"}) /\ wpc \in {"first", "exited"}
  BY <1>2, QuietPipe, Places DEF WorkerMove, Obeyed, Same, Readies
<1>3. CASE OneLine({"unsupported", "error"}) /\ wpc \in {"closing", "exited"}
  BY <1>3, QuietPipe, Places DEF WorkerMove, Obeyed, Same, Readies
<1> QED BY <1>1, <1>2, <1>3 DEF Readies

\* The batches and the getlines around them.
Batches ==
  {<<"first", "PROBE", "probing", "probe_done", "second">>,
   <<"first", "TIMING", "timing", "timing_done", "third">>,
   <<"second", "TIMING", "timing", "timing_done", "third">>,
   <<"third", "ENERGY", "energy", "measure_done", "fourth">>}

LEMMA RunsKept ==
  ASSUME WorkerMove, NEW w, NEW c, NEW b, NEW e, NEW a, <<w, c, b, e, a>> \in Batches,
         Runs(w, c, b, e, a)
  PROVE  Runs(w, c, b, e, a)'
<1>0. \/ w = "first" /\ c = "PROBE" /\ b = "probing" /\ e = "probe_done" /\ a = "second"
      \/ w = "first" /\ c = "TIMING" /\ b = "timing" /\ e = "timing_done" /\ a = "third"
      \/ w = "second" /\ c = "TIMING" /\ b = "timing" /\ e = "timing_done" /\ a = "third"
      \/ w = "third" /\ c = "ENERGY" /\ b = "energy" /\ e = "measure_done" /\ a = "fourth"
  BY DEF Batches
<1>1. CASE cmds = <<c>> /\ Len(Pipe) = 0 /\ wpc \in {w, "exited"}
  BY <1>0, <1>1, QuietPipe, Places DEF WorkerMove, Obeyed, Same, Runs
<1>2. CASE cmds = <<>> /\ Len(Pipe) = 0 /\ wpc \in {b, "erring", "exited"}
  BY <1>0, <1>2, WritesOne, QuietPipe, Places DEF WorkerMove, Obeyed, Same, Runs
<1>3. CASE cmds = <<>> /\ OneLine({e}) /\ wpc \in {a, "exited"}
  BY <1>0, <1>3, QuietPipe, Places DEF WorkerMove, Obeyed, Same, Runs
<1>4. CASE cmds = <<>> /\ OneLine({"error"}) /\ wpc \in {"closing", "exited"}
  BY <1>0, <1>4, QuietPipe, Places DEF WorkerMove, Obeyed, Same, Runs
<1> QED BY <1>1, <1>2, <1>3, <1>4 DEF Runs

LEMMA DumpsKept ==
  ASSUME WorkerMove, Types, reps \in Nat, reps' = reps, NEW w \in {"third", "fourth"}, Dumps(w)
  PROVE  Dumps(w)'
<1>0. /\ dumped \in Nat /\ Len(Pipe) \in Nat
      /\ (Pipe' = Pipe => Len(Pipe') = Len(Pipe) /\ \A i : Pipe'[i] = Pipe[i])
  BY Bounds, PipeTyped DEF Types
<1>1. CASE cmds = <<"DUMP">> /\ Len(Pipe) = 0 /\ wpc \in {w, "exited"} /\ reps = dumped
  BY <1>0, <1>1, Places DEF WorkerMove, Obeyed, Same, Dumps
<1>2. CASE /\ cmds = <<>> /\ wpc \in {"dumping", "exited"}
           /\ dumped = reps + Len(Pipe)
           /\ \A i \in 1 .. Len(Pipe) : Pipe[i].event = "result"
  <2>1. CASE wpc' = "dumping" /\ Writes({"result"}) /\ dumped' = dumped + 1 /\ UNCHANGED cmds
    BY <1>0, <1>2, <2>1 DEF Writes, Dumps
  <2>2. CASE wpc' = "closing" /\ Writes({"done"}) /\ dumped = Repetitions /\ Same
    BY <1>0, <1>2, <2>2 DEF Writes, Dumps, Same
  <2>3. CASE wpc' \in {wpc, "exited"} /\ Pipe' = Pipe /\ Same
    BY <1>0, <1>2, <2>3 DEF Dumps, Same
  <2> QED BY <1>2, <2>1, <2>2, <2>3, Places DEF WorkerMove, Obeyed
<1>3. CASE /\ cmds = <<>> /\ wpc \in {"closing", "exited"}
           /\ dumped = Repetitions /\ dumped + 1 = reps + Len(Pipe) /\ Len(Pipe) > 0
           /\ \A i \in 1 .. Len(Pipe) :
                Pipe[i].event = IF i = Len(Pipe) THEN "done" ELSE "result"
  <2>1. wpc' \in {"closing", "exited"} /\ Pipe' = Pipe /\ Same
    BY <1>3, Places DEF WorkerMove, Obeyed
  <2> QED BY <1>0, <1>3, <2>1 DEF Dumps, Same
<1> QED BY <1>1, <1>2, <1>3 DEF Dumps

LEMMA CmdKept == ASSUME WorkerMove, CmdInv PROVE CmdInv'
<1>1. CASE cmds' = <<>>
  BY <1>1 DEF CmdInv
<1>2. CASE cmds' = cmds /\ cmds # <<>>
  <2>1. PICK c \in Commands : cmds = <<c>> /\ Accepted(wpc, c)
    BY <1>2 DEF CmdInv
  <2>2. Accepted(wpc', c)
    BY <1>2, <2>1, Places DEF Accepted, WorkerMove, Obeyed
  <2> QED BY <1>2, <2>1, <2>2 DEF CmdInv
<1> QED BY <1>1, <1>2 DEF WorkerMove, Obeyed, Same

LEMMA ProtocolKept ==
  ASSUME WorkerMove, Types, GoneInv, CountInv, Protocol, UNCHANGED runnerVars
  PROVE  Protocol'
<1>0. /\ rpc' = rpc /\ exc' = exc /\ reps' = reps /\ reps \in Nat
      /\ AutoTiming' = AutoTiming /\ TimingAt' = TimingAt /\ DumpAt' = DumpAt
      /\ TimingAt \in {"first", "second"} /\ DumpAt \in {"third", "fourth"}
  BY DEF runnerVars, session, AutoTiming, Energy, TimingAt, DumpAt, CountInv, Types
<1>1. rpc \in {"called", "entry"} => Nothing'
  BY Places DEF GoneInv, Protocol, WorkerMove, Obeyed, Same, Nothing
<1>2. rpc \in {"spawned", "ready"} => Readies'
  BY ReadiesKept DEF Protocol
<1>3. rpc = "send_probe" => AutoTiming /\ Rests("first")'
  BY RestsKept DEF Protocol
<1>4. rpc = "probe" => AutoTiming /\ Runs("first", "PROBE", "probing", "probe_done", "second")'
  BY RunsKept DEF Protocol, Batches
<1>5. rpc = "send_timing" => Rests(TimingAt)'
  BY <1>0, RestsKept DEF Protocol
<1>6. rpc = "timing" => Runs(TimingAt, "TIMING", "timing", "timing_done", "third")'
  BY <1>0, RunsKept DEF Protocol, Batches
<1>7. rpc \in {"open_meter", "opened", "send_energy"} => Rests("third")'
  BY RestsKept DEF Protocol
<1>8. rpc = "energy" => Runs("third", "ENERGY", "energy", "measure_done", "fourth")'
  BY RunsKept DEF Protocol, Batches
<1>9. rpc = "stop_meter" \/ (rpc = "close_meter" /\ exc = "none") => Rests("fourth")'
  BY RestsKept DEF Protocol
<1>10. rpc = "send_dump" => Rests(DumpAt)'
  BY <1>0, RestsKept DEF Protocol
<1>11. rpc = "results" => Dumps(DumpAt)'
  BY <1>0, DumpsKept DEF Protocol
<1>12. rpc \in {"account", "conclude", "reaping"} \/ (rpc \in CleanupPcs /\ exc = "none") => Over'
  BY OverKept DEF Protocol
<1>13. CleanupPcs' = CleanupPcs
  BY DEF CleanupPcs
<1> QED BY <1>0, <1>1, <1>2, <1>3, <1>4, <1>5, <1>6, <1>7, <1>8, <1>9, <1>10, <1>11, <1>12, <1>13
        DEF Protocol

\* Any step of the worker keeps the whole invariant.
LEMMA TypesKept ==
  ASSUME Types, WorkerAction, WorkerMove, UNCHANGED runnerVars
  PROVE  Types'
<1>1. UNCHANGED <<rpc, stage, buffered, exc, batches, mismatch, meter, struck, mode>>
  BY DEF runnerVars, session
<1>2. wpc' \in WorkerPc
  BY Places DEF WorkerMove, Obeyed, Types
<1>3. dumped' \in 0 .. Repetitions
  BY Bounds DEF WorkerMove, Obeyed, Same, Types
<1>4. hung' \in BOOLEAN /\ signal' = signal /\ hungup' = hungup
  BY DEF WorkerAction, GetReady, Obey, RunBatch, Dump, Throw, Report, Close, Crash, Hang,
         DieOfSignal,
         LosePeer, Steady, Types
<1>5. events' \in Seq(Event) /\ Len(events') <= PipeSize
  <2>1. CASE events' = events
    BY <2>1 DEF Types
  <2>2. CASE \E ev \in Event : Emit(ev)
    <3>1. PICK ev \in Event : Emit(ev)
      BY <2>2
    <3>2. PICK e \in Seq(Event) : e = events /\ Len(e) < PipeSize
      BY <3>1 DEF Types, Emit
    <3>3. Append(e, ev) \in Seq(Event) /\ Len(Append(e, ev)) = Len(e) + 1 /\ Len(e) \in Nat
      BY <3>2, AppendProperties, LenProperties
    <3> QED BY Bounds, <3>1, <3>2, <3>3 DEF Emit
  <2>3. \A n \in EventName : Line(n) \in Event /\ \A ev \in Values(n) : ev \in Event
    BY Lines
  <2>4. /\ {"unsupported", "ready", "probe_done", "timing_done", "measure_done", "result", "done",
            "error"} \subseteq EventName
        /\ wpc \in DOMAIN BatchNext => BatchDone[wpc] \in EventName
    BY Places DEF EventName, BatchDone
  <2>5. events' = events \/ \E ev \in Event : Emit(ev)
    <3>1. GetReady \/ RunBatch \/ Dump \/ Report => \E ev \in Event : Emit(ev)
      BY <2>3, <2>4 DEF GetReady, RunBatch, Dump, Report
    <3> QED BY <3>1 DEF WorkerAction, Obey, Throw, Close, Crash, Hang, DieOfSignal, LosePeer
  <2> QED BY <2>1, <2>2, <2>5
<1> QED BY <1>1, <1>2, <1>3, <1>4, <1>5 DEF Types, RunnerPc

LEMMA WorkerInv ==
  ASSUME SessionInv, WorkerAction, UNCHANGED runnerVars
  PROVE  SessionInv'
<1>1. /\ UNCHANGED <<rpc, stage, buffered, exc, rows, reps, batches, mismatch, meter, struck, mode>>
      /\ signal' = signal /\ Energy' = Energy /\ reps \in Nat
  BY DEF WorkerAction, GetReady, Obey, RunBatch, Dump, Throw, Report, Close, Crash, Hang,
         DieOfSignal,
         LosePeer, Steady, runnerVars, session, Energy, SessionInv, CountInv, Types
<1>2. WorkerMove
  BY <1>1, WorkerMoves DEF SessionInv
<1>3. Types'
  BY <1>2, TypesKept DEF SessionInv
<1>4. ControlInv'
  BY <1>1 DEF SessionInv, ControlInv
<1>5. RowInv'
  BY <1>1 DEF SessionInv, RowInv, RowPerTask, OutcomeKnown
<1>6. MeterInv'
  BY <1>1 DEF SessionInv, MeterInv
<1>7. GoneInv'
  BY <1>1, <1>2, Places DEF SessionInv, GoneInv, Gone, WorkerMove, Obeyed
<1>8. CmdInv' /\ Protocol'
  BY <1>2, CmdKept, ProtocolKept DEF SessionInv
<1>9. CountInv'
  <2>1. reps' = reps /\ reps \in 0 .. dumped
    BY <1>1 DEF SessionInv, CountInv
  <2>2. dumped' = dumped \/ (dumped' = dumped + 1 /\ wpc = "dumping")
    BY <1>2 DEF WorkerMove, Obeyed, Same
  <2>3. reps' \in 0 .. dumped'
    BY <2>1, <2>2, Bounds DEF SessionInv, Types
  <2>4. rpc \in Early \ {"results", "account", "conclude"} \/ (rpc = "close_meter" /\ exc = "none") =>
          wpc # "dumping"
    BY Places DEF SessionInv, GoneInv, Protocol, Readies, Rests, Runs, Early, TimingAt, DumpAt
  <2>5. Over => Over'
    BY <1>2, OverKept
  <2> QED BY <1>1, <2>1, <2>2, <2>3, <2>4, <2>5 DEF SessionInv, CountInv
<1> QED BY <1>3, <1>4, <1>5, <1>6, <1>7, <1>8, <1>9 DEF SessionInv

-----------------------------------------------------------------------------
(* The runner's steps *)

LEMMA SessionInit == Init => SessionInv
<1> SUFFICES ASSUME Init PROVE SessionInv
  OBVIOUS
<1>1. /\ wpc = "off" /\ dumped = 0 /\ hung = FALSE /\ signal = "none" /\ cmds = <<>> /\ events = <<>>
      /\ hungup = FALSE /\ rpc = "called" /\ stage = "select" /\ buffered = <<>> /\ exc = "none"
      /\ rows = <<>> /\ reps = 0 /\ batches = 0 /\ mismatch = FALSE /\ meter = "none" /\ struck = {}
      /\ mode \in Modes
  BY DEF Init, WorkerInit
<1>2. Types
  <2>1. events \in Seq(Event) /\ Len(events) = 0 /\ buffered \in Seq(Event) /\ Len(buffered) = 0
    BY <1>1
  <2>2. wpc \in WorkerPc /\ rpc \in RunnerPc
    BY <1>1, Places DEF Early
  <2>3. dumped \in 0 .. Repetitions /\ Len(events) <= PipeSize /\ Len(buffered) <= PipeSize
    BY <1>1, <2>1, Bounds
  <2>4. hung \in BOOLEAN /\ hungup \in BOOLEAN /\ mismatch \in BOOLEAN
    BY <1>1
  <2>5. /\ batches \in 0 .. 1 /\ struck \subseteq RunnerPc /\ mode \in Modes
        /\ signal \in {"none", "term", "kill"} /\ stage \in {"select", "readline"}
        /\ exc \in {"none", "error", "interrupt"}
        /\ meter \in {"none", "open", "started", "stopped", "closed"}
    BY <1>1
  <2> QED BY <2>1, <2>2, <2>3, <2>4, <2>5 DEF Types
<1>3. Pipe = <<>>
  BY <1>1 DEF Pipe
<1>4. ControlInv /\ RowInv
  BY <1>1, Places DEF ControlInv, RowInv, Early, OneRow
<1>7. MeterInv /\ GoneInv /\ CmdInv
  BY <1>1, Places DEF MeterInv, GoneInv, Gone, CmdInv, Early
<1>5. Protocol
  BY <1>1, <1>3, Places DEF Protocol, Nothing
<1>6. CountInv
  BY <1>1 DEF CountInv, Early
<1> QED BY <1>2, <1>4, <1>5, <1>6, <1>7 DEF SessionInv

\* An exception is raised, or Ctrl-C strikes: the runner goes where it is caught.
LEMMA RaisedInv ==
  ASSUME SessionInv, rpc # "done",
         \/ exc' = "interrupt" /\ struck' = struck \cup {rpc}
         \/ /\ exc' = "error" /\ struck' = struck
            /\ rpc \in Early \cup {"reaping", "wait_kill", "handle"} /\ rpc # "spawned",
         rpc' = Catcher(rpc) \/ (exc' = "interrupt" /\ rpc = "opened" /\ rpc' = "cleanup"),
         wpc' = wpc \/ (~ Gone /\ wpc' = "exited"),
         meter' = meter \/ (rpc = "stop_meter" /\ meter' = "stopped"),
         stage' = "select", hungup' \in BOOLEAN,
         buffered' \in Seq(Event), Len(buffered') <= PipeSize,
         UNCHANGED <<dumped, hung, signal, cmds, events, rows, reps, batches, mismatch, mode>>
  PROVE  SessionInv'
<1>1. Types /\ ControlInv /\ RowInv /\ MeterInv /\ GoneInv /\ CmdInv /\ Protocol /\ CountInv
  BY DEF SessionInv
<1>2. /\ rpc \in {"opened", "send_energy", "energy", "stop_meter"} =>
           rpc' = "close_meter" \/ (exc' = "interrupt" /\ rpc = "opened" /\ rpc' = "cleanup")
      /\ rpc \in {"entry", "spawned", "cleanup", "wait_term", "wait_kill"} => rpc' = "handle"
      /\ rpc \in {"called", "handle"} => rpc' = "done"
      /\ rpc \in {"ready", "send_probe", "probe", "send_timing", "timing", "open_meter", "send_dump",
                  "results", "account", "conclude", "reaping", "close_meter"} => rpc' = "cleanup"
  BY Places DEF Catcher
<1>3. rpc \in Early \cup {"cleanup", "wait_term", "wait_kill", "reaping", "close_meter", "handle"}
  BY <1>1, Places DEF Types
<1>4. rpc' \in {"close_meter", "handle", "done", "cleanup"} /\ exc' # "none"
  BY <1>2, <1>3 DEF Early
<1>5. Types'
  BY <1>1, <1>4, Places DEF Types, Gone
<1>6. ControlInv'
  BY <1>1, <1>2, <1>3, <1>4 DEF ControlInv, Early
<1>7. RowInv'
  <2>1. rpc' = "done" => rows \in OneRow
    BY <1>1, <1>2, <1>3 DEF RowInv
  <2>2. rpc' # "done" => rows \in OneRow
    BY <1>1 DEF RowInv
  <2>3. rpc' = "close_meter" => rows = <<>>
    BY <1>1, <1>2, <1>3 DEF RowInv, Early
  <2>4. rpc' \in CleanupPcs \cup {"handle"} /\ rows # <<>> =>
          rows = <<"skipped">> \/ struck' # {} \/ signal = "kill"
    BY <1>1, <1>2, <1>3 DEF RowInv, ControlInv, Early
  <2>5. rpc' = "done" => RowPerTask' /\ OutcomeKnown'
    <3> SUFFICES ASSUME rpc' = "done" PROVE RowPerTask' /\ OutcomeKnown'
      OBVIOUS
    <3>1. rpc \in {"called", "handle"}
      BY <1>2, <1>3 DEF Early
    <3>2. rows = <<>> \/ \E s \in Settled : rows = <<s>>
      BY <2>1 DEF OneRow
    <3>3. Len(rows) # 2
      BY <3>2
    <3>4. RowPerTask'
      BY <3>1, <3>3 DEF RowPerTask
    <3>5. [rows |-> rows, raised |-> exc'] \in Outcomes
      <4>1. rows \in RowLists
        BY <3>2 DEF RowLists, Statuses
      <4>2. "interrupted" \notin {rows[i] : i \in DOMAIN rows}
        BY <3>2 DEF Settled
      <4> QED BY <1>4, <4>1, <4>2 DEF Outcomes
    <3> QED BY <3>4, <3>5 DEF OutcomeKnown
  <2> QED BY <1>4, <2>2, <2>3, <2>4, <2>5 DEF RowInv, Early
<1>8. MeterInv'
  BY <1>1, <1>2, <1>3, <1>4, Places DEF MeterInv, Energy, Early
<1>9. GoneInv'
  BY <1>1, <1>2, <1>3, <1>4, Places DEF GoneInv, Gone, ControlInv, Early
<1>10. CmdInv'
  BY <1>1 DEF CmdInv, Accepted, Gone
<1>11. Protocol'
  BY <1>4 DEF Protocol
<1>12. CountInv'
  <2>1. Over => Over'
    BY DEF Over, Gone
  <2>2. rows # <<>> => meter' = meter
    BY <1>1 DEF RowInv, Early
  <2> QED BY <1>1, <1>4, <2>1, <2>2 DEF CountInv, Early, Energy
<1> QED BY <1>5, <1>6, <1>7, <1>8, <1>9, <1>10, <1>11, <1>12 DEF SessionInv

LEMMA MovedTypes ==
  ASSUME Types, wpc' \in WorkerPc, rpc' \in RunnerPc, stage' \in {"select", "readline"},
         hungup' \in BOOLEAN, signal' \in {"none", "term", "kill"},
         exc' \in {"none", "error", "interrupt"}, batches' \in 0 .. 1, mismatch' \in BOOLEAN,
         meter' \in {"none", "open", "started", "stopped", "closed"},
         buffered' \in Seq(Event), Len(buffered') <= PipeSize,
         events' \in Seq(Event), Len(events') <= PipeSize,
         UNCHANGED <<dumped, hung, struck, mode>>
  PROVE  Types'
BY DEF Types, RunnerPc, WorkerPc, MeterBlock, CleanupPcs, Awaiting, Expected, Busy

\* The start of the worker.
LEMMA CallInv == ASSUME SessionInv, Call, mode' = mode PROVE SessionInv'
<1>1. /\ rpc = "called" /\ UNCHANGED <<wpc, dumped, hung, signal, cmds, events, buffered, rows, reps,
                                      batches, mismatch, meter, struck, mode>>
  BY DEF Call, session
<1>2. CASE Raise("error")
  BY <1>1, <1>2, RaisedInv DEF Raise, Goto, SessionInv, Types, Early
<1>3. CASE Continue("entry")
  <2>1. rpc' = "entry" /\ exc' = exc /\ stage' = stage /\ hungup' = FALSE /\ Pipe' = Pipe
        /\ Energy' = Energy
    BY <1>1, <1>3 DEF Continue, Goto, Pipe, Energy
  <2>2. Types'
    BY <1>1, <2>1, MovedTypes, Places DEF SessionInv, Types, Early
  <2>3. ControlInv' /\ RowInv' /\ MeterInv' /\ GoneInv' /\ CmdInv'
    BY <1>1, <2>1, Places DEF SessionInv, ControlInv, RowInv, MeterInv, GoneInv, CmdInv, Early, Gone
  <2>4. Protocol' /\ CountInv'
    BY <1>1, <2>1, Places DEF SessionInv, Protocol, Nothing, RowInv, CountInv, Early, ControlInv
  <2> QED BY <2>2, <2>3, <2>4 DEF SessionInv
<1> QED BY <1>2, <1>3 DEF Call

LEMMA EnterInv == ASSUME SessionInv, Enter, mode' = mode PROVE SessionInv'
<1>1. /\ rpc = "entry" /\ UNCHANGED <<dumped, hung, signal, cmds, events, buffered, rows, reps,
                                     batches, mismatch, meter, struck, mode>>
  BY DEF Enter, session
<1>2. CASE Raise("error") /\ wpc' = wpc
  BY <1>1, <1>2, RaisedInv DEF Raise, Goto, SessionInv, Types, Early
<1>3. CASE Continue("spawned") /\ wpc' = "starting"
  <2>1. rpc' = "spawned" /\ exc' = exc /\ stage' = stage /\ hungup' = FALSE /\ Pipe' = Pipe
        /\ Energy' = Energy /\ wpc' = "starting"
    BY <1>1, <1>3 DEF Continue, Goto, Pipe, Energy
  <2>2. Types'
    BY <1>1, <2>1, MovedTypes, Places DEF SessionInv, Types, Early
  <2>3. ControlInv' /\ RowInv' /\ MeterInv' /\ GoneInv' /\ CmdInv'
    BY <1>1, <2>1, Places
       DEF SessionInv, ControlInv, RowInv, MeterInv, GoneInv, CmdInv, Early, Gone, Protocol, Nothing
  <2>4. Protocol' /\ CountInv'
    BY <1>1, <2>1, Places
       DEF SessionInv, Protocol, Nothing, Readies, RowInv, CountInv, Early, ControlInv
  <2> QED BY <2>2, <2>3, <2>4 DEF SessionInv
<1> QED BY <1>2, <1>3 DEF Enter

LEMMA EnterTryInv == ASSUME SessionInv, EnterTry, mode' = mode PROVE SessionInv'
<1>1. /\ rpc = "spawned" /\ rpc' = "ready" /\ hungup' = FALSE
      /\ UNCHANGED <<wpc, dumped, hung, signal, cmds, events, buffered, rows, reps,
                     batches, mismatch, meter, struck, mode, stage, exc>>
      /\ Pipe' = Pipe /\ Energy' = Energy
  BY DEF EnterTry, session, Continue, Goto, Pipe, Energy
<1>2. Types'
  BY <1>1, MovedTypes, Places DEF SessionInv, Types, Early
<1>3. ControlInv' /\ RowInv' /\ MeterInv' /\ GoneInv' /\ CmdInv'
  BY <1>1, Places DEF SessionInv, ControlInv, RowInv, MeterInv, GoneInv, CmdInv, Early, Gone
<1>4. Protocol' /\ CountInv'
  BY <1>1, Places DEF SessionInv, Protocol, Readies, OneLine, RowInv, CountInv, Early, ControlInv
<1> QED BY <1>2, <1>3, <1>4 DEF SessionInv

\* The commands: each is sent while the worker rests at a getline that accepts it.
LEMMA SentInv ==
  ASSUME SessionInv, NEW p, NEW c, NEW q, NEW causes, Send(p, c, q, causes), mode' = mode,
         \/ p = "send_probe" /\ c = "PROBE" /\ q = "probe"
         \/ p = "send_timing" /\ c = "TIMING" /\ q = "timing"
         \/ p = "send_energy" /\ c = "ENERGY" /\ q = "energy"
         \/ p = "send_dump" /\ c = "DUMP" /\ q = "results"
  PROVE  SessionInv'
<1>1. /\ rpc = p /\ UNCHANGED <<wpc, dumped, hung, signal, events, buffered, rows, reps,
                               batches, mismatch, meter, struck, mode>>
  BY DEF Send, session
<1>2. CASE Raise("error") /\ cmds' = cmds
  BY <1>1, <1>2, RaisedInv DEF Raise, Goto, SessionInv, Types, Early
<1>3. CASE wpc # "exited" /\ cmds' = Append(cmds, c) /\ Continue(q)
  <2>1. /\ rpc' = q /\ exc' = exc /\ stage' = stage /\ hungup' = FALSE /\ Pipe' = Pipe
        /\ Energy' = Energy /\ AutoTiming' = AutoTiming /\ TimingAt' = TimingAt /\ DumpAt' = DumpAt
        /\ c \in Commands
    BY <1>1, <1>3 DEF Continue, Goto, Pipe, Energy, AutoTiming, TimingAt, DumpAt, Commands
  <2>2. Types'
    BY <1>1, <2>1, MovedTypes, Places DEF SessionInv, Types, Early
  <2>3. cmds = <<>> /\ Len(Pipe) = 0
    BY <1>1 DEF SessionInv, Protocol, Rests, Nothing
  <2>4. cmds' = <<c>>
    BY <1>3, <2>3
  <2>5. ControlInv' /\ RowInv'
    BY <1>1, <2>1, Places DEF SessionInv, ControlInv, RowInv, Early
  <2>6. MeterInv' /\ GoneInv'
    BY <1>1, <2>1, Places DEF SessionInv, MeterInv, GoneInv, Early, Gone
  <2>7. CountInv'
    BY <1>1, <2>1 DEF SessionInv, RowInv, CountInv, Early, ControlInv
  <2>8. p = "send_probe" => wpc = "first" /\ AutoTiming
    BY <1>1, <1>3 DEF SessionInv, Protocol, Rests
  <2>9. p = "send_timing" => wpc = TimingAt
    BY <1>1, <1>3 DEF SessionInv, Protocol, Rests
  <2>10. p = "send_energy" => wpc = "third"
    BY <1>1, <1>3 DEF SessionInv, Protocol, Rests
  <2>11. p = "send_dump" => wpc = DumpAt /\ dumped = 0 /\ reps = 0
    BY <1>1, <1>3 DEF SessionInv, Protocol, Rests, CountInv, Early
  <2>12. Accepted(wpc, c)
    BY <2>8, <2>9, <2>10, <2>11 DEF Accepted, TimingAt, DumpAt
  <2>13. CmdInv'
    BY <1>1, <2>1, <2>4, <2>12 DEF CmdInv, Accepted
  <2>14. Protocol'
    BY <1>1, <2>1, <2>3, <2>4, <2>8, <2>9, <2>10, <2>11, Places DEF Protocol, Runs, Dumps
  <2> QED BY <2>2, <2>5, <2>6, <2>7, <2>13, <2>14 DEF SessionInv
<1> QED BY <1>2, <1>3 DEF Send

\* select and read-ahead.
LEMMA SelectInv == ASSUME SessionInv, Select, mode' = mode PROVE SessionInv'
<1>1. /\ stage' = "readline"
      /\ UNCHANGED <<wpc, dumped, hung, signal, cmds, events, hungup, rpc, buffered, exc, rows, reps,
                     batches, mismatch, meter, struck, mode>>
  BY DEF Select, workerVars, session
<1>2. /\ Energy' = Energy /\ AutoTiming' = AutoTiming
      /\ TimingAt' = TimingAt /\ DumpAt' = DumpAt /\ Pipe' = Pipe
  BY <1>1 DEF Energy, AutoTiming, TimingAt, DumpAt, Pipe
<1>3. Types'
  BY <1>1, MovedTypes DEF SessionInv, Types
<1>4. ControlInv' /\ MeterInv' /\ GoneInv' /\ CmdInv'
  BY <1>1, <1>2 DEF SessionInv, ControlInv, MeterInv, GoneInv, CmdInv, Gone
<1>5. RowInv' /\ CountInv'
  BY <1>1, <1>2 DEF SessionInv, RowInv, RowPerTask, OutcomeKnown, CountInv, Over
<1>6. Protocol'
  BY <1>1, <1>2
     DEF SessionInv, Protocol, Nothing, Readies, Rests, Runs, Dumps, OneLine, Over
<1> QED BY <1>3, <1>4, <1>5, <1>6 DEF SessionInv

LEMMA FillInv == ASSUME SessionInv, Fill, mode' = mode PROVE SessionInv'
<1>1. UNCHANGED <<wpc, dumped, hung, signal, cmds, hungup, rpc, stage, exc, rows, reps,
                  batches, mismatch, meter, struck, mode>>
  BY DEF Fill, session
<1>2. /\ Pipe' = Pipe /\ buffered' \in Seq(Event) /\ events' \in Seq(Event)
      /\ Len(buffered') <= PipeSize /\ Len(events') <= PipeSize
  BY PipeFill DEF Fill, SessionInv
<1>3. /\ Energy' = Energy /\ AutoTiming' = AutoTiming /\ TimingAt' = TimingAt /\ DumpAt' = DumpAt
  BY <1>1 DEF Energy, AutoTiming, TimingAt, DumpAt
<1>4. Types'
  BY <1>1, <1>2, MovedTypes DEF SessionInv, Types
<1>5. ControlInv' /\ MeterInv' /\ GoneInv' /\ CmdInv'
  BY <1>1, <1>3 DEF SessionInv, ControlInv, MeterInv, GoneInv, CmdInv, Gone
<1>6. RowInv' /\ CountInv'
  BY <1>1, <1>3 DEF SessionInv, RowInv, RowPerTask, OutcomeKnown, CountInv, Over
<1>7. Protocol'
  BY <1>1, <1>2, <1>3
     DEF SessionInv, Protocol, Nothing, Readies, Rests, Runs, Dumps, OneLine, Over
<1> QED BY <1>4, <1>5, <1>6, <1>7 DEF SessionInv

LEMMA ReadEofInv == ASSUME SessionInv, ReadEof, mode' = mode PROVE SessionInv'
<1>1. /\ rpc \in Awaiting /\ Raise("error")
      /\ UNCHANGED <<wpc, dumped, hung, signal, cmds, events, buffered, rows, reps,
                     batches, mismatch, meter, struck, mode>>
  BY DEF ReadEof, session
<1>2. rpc \in Early /\ rpc \notin {"done", "spawned"}
  BY <1>1, Places DEF Early
<1> QED BY <1>1, <1>2, RaisedInv DEF Raise, Goto, SessionInv, Types

LEMMA ReadyBranch ==
  \A ev : ev.event = "ready" => Branch(ev) = IF AutoTiming THEN "send_probe" ELSE "send_timing"
<1> SUFFICES ASSUME NEW ev, ev.event = "ready"
             PROVE  Branch(ev) = IF AutoTiming THEN "send_probe" ELSE "send_timing"
  OBVIOUS
<1>1. AutoTiming => Branch(ev) = "send_probe"
  BY DEF Branch
<1>2. ~ AutoTiming => Branch(ev) = "send_timing"
  BY DEF Branch
<1> QED BY <1>1, <1>2

\* A line is taken: only the answer to what was asked for leads on.
LEMMA TakeInv == ASSUME SessionInv, Take, mode' = mode PROVE SessionInv'
<1>i. Types /\ ControlInv /\ RowInv /\ MeterInv /\ GoneInv /\ CmdInv /\ Protocol /\ CountInv
  BY DEF SessionInv
<1>1. /\ rpc \in {"ready", "probe", "timing", "energy", "results"}
      /\ buffered # <<>> /\ buffered' = Tail(buffered)
      /\ UNCHANGED <<wpc, dumped, hung, signal, cmds, events, batches, meter, struck, mode>>
      /\ Energy' = Energy /\ AutoTiming' = AutoTiming /\ TimingAt' = TimingAt /\ DumpAt' = DumpAt
  BY Places DEF Take, Energy, AutoTiming, TimingAt, DumpAt
<1>h. PICK ev : ev = Head(buffered)
  OBVIOUS
<1>2. PICK n \in Nat \ {0} :
        /\ ev = Head(buffered) /\ ev \in Event /\ ev = Pipe[1] /\ n = Len(Pipe)
        /\ Len(Pipe') = n - 1 /\ \A i \in 1 .. n - 1 : Pipe'[i] = Pipe[i + 1]
        /\ buffered' \in Seq(Event) /\ Len(buffered') <= PipeSize
  BY <1>i, <1>1, <1>h, PipeTake
<1>3. CASE ev.event \notin Expected[rpc]
  <2>1. Raise("error") /\ UNCHANGED <<reps, mismatch, rows>>
    BY <1>2, <1>3 DEF Take
  <2> QED BY <1>1, <1>2, <2>1, RaisedInv DEF Raise, Goto, SessionInv, Types, Early
<1>4. CASE ev.event \in Expected[rpc]
  <2>1. /\ rpc' = Branch(ev) /\ hungup' = (Branch(ev) = "done") /\ stage' = "select" /\ exc' = exc
        /\ reps' = (IF ev.event = "result" THEN reps + 1 ELSE reps)
        /\ mismatch' = (mismatch \/ ~ ev.right)
        /\ rows' = (IF ev.event = "unsupported" THEN Append(rows, "skipped") ELSE rows)
    BY <1>2, <1>4 DEF Take, Goto
  <2>2. exc = "none" /\ rows = <<>> /\ signal = "none" /\ reps \in Nat /\ dumped \in Nat
    BY <1>i, <1>1, Bounds DEF ControlInv, RowInv, Early, CountInv, Types
  <2>3. \/ rpc = "ready" /\ ev.event \in {"ready", "unsupported"}
        \/ rpc = "probe" /\ ev.event = "probe_done"
        \/ rpc = "timing" /\ ev.event = "timing_done"
        \/ rpc = "energy" /\ ev.event = "measure_done"
        \/ rpc = "results" /\ ev.event \in {"result", "done"}
    BY <1>1, <1>4 DEF Expected
  <2>4. rpc' \in {"reaping", "send_probe", "send_timing", "open_meter", "send_dump", "stop_meter",
                  "results", "account"}
    BY <2>1, <2>3 DEF Branch
  <2>5. rows' = IF ev.event = "unsupported" THEN <<"skipped">> ELSE <<>>
    BY <2>1, <2>2
  <2>6. Types'
    <3>1. mismatch' \in BOOLEAN
      BY <1>i, <2>1 DEF Types
    <3>2. rpc' \in RunnerPc /\ hungup' \in BOOLEAN
      BY <2>1, <2>4, Places DEF Early
    <3>3. /\ wpc' \in WorkerPc /\ signal' \in {"none", "term", "kill"}
          /\ exc' \in {"none", "error", "interrupt"}
          /\ batches' \in 0 .. 1 /\ meter' \in {"none", "open", "started", "stopped", "closed"}
          /\ events' \in Seq(Event) /\ Len(events') <= PipeSize
      BY <1>i, <1>1, <2>1 DEF Types
    <3> QED BY <1>i, <1>1, <1>2, <2>1, <3>1, <3>2, <3>3, MovedTypes
  <2>7. CmdInv'
    BY <1>i, <1>1 DEF CmdInv
  <2>8. CASE rpc = "ready"
    <3>1. cmds = <<>> /\ n = 1 /\ (ev.event = "ready" => wpc \in {"first", "exited"})
          /\ (ev.event = "unsupported" => Over) /\ dumped = 0
      BY <1>i, <1>2, <2>3, <2>8 DEF Protocol, Readies, OneLine, Over, CountInv, Early
    <3>2. \/ ev.event = "ready" /\ rpc' = (IF AutoTiming THEN "send_probe" ELSE "send_timing")
          \/ ev.event = "unsupported" /\ rpc' = "reaping"
      <4>1. CASE ev.event = "ready"
        <5>1. rpc' = (IF AutoTiming THEN "send_probe" ELSE "send_timing")
          BY <2>1, <4>1, ReadyBranch
        <5> QED BY <4>1, <5>1
      <4>2. CASE ev.event = "unsupported"
        BY <2>1, <4>2 DEF Branch
      <4> QED BY <2>3, <2>8, <4>1, <4>2
    <3>3. meter = "none" /\ batches = 0
      BY <1>i, <2>8 DEF MeterInv
    <3>4. ControlInv' /\ RowInv'
      BY <1>i, <1>1, <2>1, <2>2, <2>5, <2>8, <3>2, Places DEF ControlInv, RowInv, OneRow, Settled,
             Early
    <3>5. MeterInv' /\ GoneInv'
      BY <1>1, <3>2, <3>3, Places DEF MeterInv, GoneInv, Early
    <3>6. Protocol'
      BY <1>1, <1>2, <2>1, <2>2, <3>1, <3>2, Places DEF Protocol, Rests, Nothing, Over, TimingAt
    <3>7. CountInv'
      BY <1>1, <2>1, <2>2, <2>5, <3>1, <3>2, <1>i, <2>8 DEF CountInv, Early
    <3> QED BY <2>6, <2>7, <3>4, <3>5, <3>6, <3>7 DEF SessionInv
  <2>9. CASE rpc \in {"probe", "timing", "energy"}
    <3>1. cmds = <<>> /\ n = 1 /\ dumped = 0 /\ (rpc = "probe" => AutoTiming)
          /\ (rpc = "probe" => wpc \in {"second", "exited"})
          /\ (rpc = "timing" => wpc \in {"third", "exited"})
          /\ (rpc = "energy" => wpc \in {"fourth", "exited"})
      BY <1>i, <1>2, <2>3, <2>9 DEF Protocol, Runs, OneLine, CountInv, Early
    <3>2. \/ rpc = "probe" /\ rpc' = "send_timing"
          \/ rpc = "timing" /\ rpc' = (IF Energy THEN "open_meter" ELSE "send_dump")
          \/ rpc = "energy" /\ rpc' = "stop_meter"
      BY <2>1, <2>3, <2>9 DEF Branch
    <3>3. reps' = reps /\ rows' = <<>>
      BY <2>1, <2>3, <2>5, <2>9
    <3>4. ControlInv' /\ RowInv'
      BY <1>i, <1>1, <2>1, <2>2, <2>9, <3>2, <3>3, Places DEF ControlInv, RowInv, OneRow, Early
    <3>5. MeterInv' /\ GoneInv'
      BY <1>i, <1>1, <2>9, <3>2, Places DEF MeterInv, GoneInv, Early
    <3>6. Protocol'
      BY <1>1, <1>2, <2>1, <2>2, <3>1, <3>2, Places DEF Protocol, Rests, Nothing, TimingAt, DumpAt
    <3>7. CountInv'
      BY <1>1, <2>1, <2>2, <3>1, <3>2, <3>3, <1>i, <2>9 DEF CountInv, Early
    <3> QED BY <2>6, <2>7, <3>4, <3>5, <3>6, <3>7 DEF SessionInv
  <2>10. CASE rpc = "results" /\ ev.event = "result"
    <3>1. rpc' = "results" /\ reps' = reps + 1 /\ rows' = <<>>
      BY <2>1, <2>5, <2>10 DEF Branch
    <3>2. cmds = <<>>
      BY <1>i, <1>2, <2>10 DEF Protocol, Dumps
    <3>3. \/ /\ wpc \in {"dumping", "exited"} /\ dumped = reps + n
             /\ \A i \in 1 .. n : Pipe[i].event = "result"
          \/ /\ wpc \in {"closing", "exited"} /\ dumped = Repetitions /\ dumped + 1 = reps + n
             /\ \A i \in 1 .. n : Pipe[i].event = IF i = n THEN "done" ELSE "result"
      BY <1>i, <1>2, <2>10 DEF Protocol, Dumps
    <3>4. Dumps(DumpAt)'
      <4>0. n - 1 \in Nat
        OBVIOUS
      <4>1. PICK m \in Nat : m = n - 1 /\ Len(Pipe') = m
        BY <1>2, <4>0
      <4>2. CASE /\ wpc \in {"dumping", "exited"} /\ dumped = reps + n
                 /\ \A i \in 1 .. n : Pipe[i].event = "result"
        <5>1. \A i \in 1 .. m : Pipe'[i].event = "result"
          <6> SUFFICES ASSUME NEW i \in 1 .. m PROVE Pipe'[i].event = "result"
            OBVIOUS
          <6>1. i \in 1 .. n - 1 /\ i + 1 \in 1 .. n
            BY <4>1
          <6> QED BY <1>2, <4>2, <6>1
        <5>2. dumped = reps + 1 + m
          BY <2>2, <4>1, <4>2
        <5> QED BY <1>1, <3>1, <3>2, <4>1, <4>2, <5>1, <5>2 DEF Dumps
      <4>3. CASE /\ wpc \in {"closing", "exited"} /\ dumped = Repetitions /\ dumped + 1 = reps + n
                 /\ \A i \in 1 .. n : Pipe[i].event = IF i = n THEN "done" ELSE "result"
        <5>0. n # 1
          BY <1>2, <2>10, <4>3
        <5>1. \A i \in 1 .. m : Pipe'[i].event = IF i = m THEN "done" ELSE "result"
          <6> SUFFICES ASSUME NEW i \in 1 .. m
                       PROVE  Pipe'[i].event = IF i = m THEN "done" ELSE "result"
            OBVIOUS
          <6>1. i \in 1 .. n - 1 /\ i + 1 \in 1 .. n
            BY <4>1
          <6>2. Pipe'[i] = Pipe[i + 1] /\ (i + 1 = n <=> i = m)
            BY <1>2, <4>1, <6>1
          <6>3. Pipe[i + 1].event = IF i + 1 = n THEN "done" ELSE "result"
            BY <4>3, <6>1
          <6> QED BY <6>2, <6>3
        <5>2. dumped + 1 = reps + 1 + m /\ m > 0
          BY <2>2, <4>1, <4>3, <5>0
        <5> QED BY <1>1, <3>1, <3>2, <4>1, <4>3, <5>1, <5>2 DEF Dumps
      <4> QED BY <3>3, <4>2, <4>3
    <3>5. ControlInv' /\ RowInv'
      BY <1>i, <1>1, <2>1, <2>2, <2>10, <3>1, Places DEF ControlInv, RowInv, OneRow, Early
    <3>6. MeterInv' /\ GoneInv'
      BY <1>i, <1>1, <2>10, <3>1, Places DEF MeterInv, GoneInv, Early
    <3>7. Protocol'
      BY <1>1, <2>10, <3>1, <3>4, Places DEF Protocol
    <3>8. reps + 1 <= dumped
      <4>1. CASE dumped = reps + n
        BY <2>2, <4>1
      <4>2. CASE dumped + 1 = reps + n /\ n # 1
        BY <2>2, <4>2
      <4>3. n = 1 => ~ (\A i \in 1 .. n : Pipe[i].event = IF i = n THEN "done" ELSE "result")
        BY <1>2, <2>10
      <4> QED BY <3>3, <4>1, <4>2, <4>3
    <3>9. CountInv'
      BY <1>1, <2>1, <2>2, <3>1, <3>8, Places DEF CountInv, Early
    <3> QED BY <2>6, <2>7, <3>5, <3>6, <3>7, <3>9 DEF SessionInv
  <2>11. CASE rpc = "results" /\ ev.event = "done"
    <3>1. rpc' = "account" /\ reps' = reps /\ rows' = <<>>
      BY <2>1, <2>5, <2>11 DEF Branch
    <3>2. Over
      BY <1>i, <1>2, <2>11 DEF Protocol, Dumps, Over
    <3>3. ControlInv' /\ RowInv'
      BY <1>i, <1>1, <2>1, <2>2, <2>11, <3>1, Places DEF ControlInv, RowInv, OneRow, Early
    <3>4. MeterInv' /\ GoneInv'
      BY <1>i, <1>1, <2>11, <3>1, Places DEF MeterInv, GoneInv, Early
    <3>5. Protocol' /\ CountInv'
      BY <1>i, <1>1, <3>1, <3>2, Places DEF Protocol, Over, CountInv, Early
    <3> QED BY <2>6, <2>7, <3>3, <3>4, <3>5 DEF SessionInv
  <2> QED BY <2>3, <2>8, <2>9, <2>10, <2>11
<1> QED BY <1>3, <1>4

\* A step inside the try statements: only the place, the meter, the signal, the
\* row of the energy batch and the row of the task may change.
Moves(q) ==
  /\ rpc' = q /\ hungup' = (q = "done") /\ stage' = stage /\ exc' = exc /\ Pipe' = Pipe
  /\ UNCHANGED <<wpc, dumped, hung, cmds, events, buffered, reps, mismatch, struck, mode>>
  /\ Energy' = Energy /\ AutoTiming' = AutoTiming /\ TimingAt' = TimingAt /\ DumpAt' = DumpAt

LEMMA Continues ==
  ASSUME NEW q, Continue(q), mode' = mode,
         UNCHANGED <<wpc, dumped, hung, cmds, events, buffered, reps, mismatch, struck>>
  PROVE  Moves(q)
BY DEF Continue, Goto, Moves, Pipe, Energy, AutoTiming, TimingAt, DumpAt

LEMMA MovesTypes ==
  ASSUME Types, NEW q \in RunnerPc, Moves(q), signal' \in {"none", "term", "kill"}, batches' \in 0 .. 1,
         meter' \in {"none", "open", "started", "stopped", "closed"}
  PROVE  Types'
<1>1. /\ wpc' \in WorkerPc /\ rpc' \in RunnerPc /\ stage' \in {"select", "readline"}
      /\ hungup' \in BOOLEAN /\ exc' \in {"none", "error", "interrupt"} /\ mismatch' \in BOOLEAN
      /\ buffered' \in Seq(Event) /\ Len(buffered') <= PipeSize
      /\ events' \in Seq(Event) /\ Len(events') <= PipeSize
      /\ UNCHANGED <<dumped, hung, struck, mode>>
  BY DEF Types, Moves
<1> QED BY <1>1, MovedTypes

LEMMA ReapInv == ASSUME SessionInv, Reap, mode' = mode PROVE SessionInv'
<1>1. /\ rpc = "reaping" /\ UNCHANGED <<wpc, dumped, hung, signal, cmds, events, buffered, rows, reps,
                                       batches, mismatch, meter, struck, mode>>
  BY DEF Reap, session
<1>2. CASE Raise("error")
  BY <1>1, <1>2, RaisedInv DEF Raise, Goto, SessionInv, Types
<1>3. CASE Continue("cleanup")
  <2>1. Moves("cleanup")
    BY <1>1, <1>3, Continues
  <2>2. Types'
    BY <1>1, <2>1, MovesTypes, Places DEF SessionInv, Types
  <2>3. ControlInv' /\ RowInv'
    BY <1>1, <2>1, Places DEF SessionInv, ControlInv, RowInv, OneRow, Settled, Early, Moves
  <2>4. MeterInv' /\ GoneInv' /\ CmdInv'
    BY <1>1, <2>1, Places DEF SessionInv, MeterInv, GoneInv, CmdInv, Early, Moves
  <2>5. Protocol' /\ CountInv'
    BY <1>1, <2>1, Places DEF SessionInv, Protocol, Over, CountInv, RowInv, Early, Moves
  <2> QED BY <2>2, <2>3, <2>4, <2>5 DEF SessionInv
<1> QED BY <1>2, <1>3 DEF Reap

\* The energy block, up to the start of its meter.
LEMMA OpenInv == ASSUME SessionInv, OpenMeter \/ StartMeter, mode' = mode PROVE SessionInv'
<1>1. /\ rpc \in {"open_meter", "opened"}
      /\ UNCHANGED <<wpc, dumped, hung, signal, cmds, events, buffered, rows, reps,
                     batches, mismatch, struck, mode>>
  BY DEF OpenMeter, StartMeter, session
<1>2. CASE Raise("error") /\ meter' = meter
  BY <1>1, <1>2, RaisedInv DEF Raise, Goto, SessionInv, Types, Early
<1>3. CASE \/ rpc = "open_meter" /\ meter' = "open" /\ Continue("opened")
           \/ rpc = "opened" /\ meter' = "started" /\ Continue("send_energy")
  <2>1. \/ rpc = "open_meter" /\ meter' = "open" /\ Moves("opened")
        \/ rpc = "opened" /\ meter' = "started" /\ Moves("send_energy")
    BY <1>1, <1>3, Continues
  <2>2. Types'
    BY <1>1, <2>1, MovesTypes, Places DEF SessionInv, Types, Early
  <2>3. ControlInv' /\ RowInv'
    BY <1>1, <2>1, Places DEF SessionInv, ControlInv, RowInv, Early, Moves
  <2>4. MeterInv' /\ GoneInv' /\ CmdInv'
    BY <1>1, <2>1, Places DEF SessionInv, MeterInv, GoneInv, CmdInv, Early, Moves
  <2>5. Protocol' /\ CountInv'
    BY <1>1, <2>1, Places DEF SessionInv, Protocol, Rests, Nothing, CountInv, RowInv, Early, Moves
  <2> QED BY <2>2, <2>3, <2>4, <2>5 DEF SessionInv
<1> QED BY <1>2, <1>3 DEF OpenMeter, StartMeter

LEMMA StopInv == ASSUME SessionInv, StopMeter, mode' = mode PROVE SessionInv'
<1>1. /\ rpc = "stop_meter"
      /\ UNCHANGED <<wpc, dumped, hung, signal, cmds, events, buffered, rows, reps,
                     batches, mismatch, struck, mode>>
  BY DEF StopMeter, session
<1>2. CASE Raise("error") /\ meter' \in {meter, "stopped"}
  BY <1>1, <1>2, RaisedInv DEF Raise, Goto, SessionInv, Types, Early
<1>3. CASE meter' = "stopped" /\ Continue("close_meter")
  <2>1. Moves("close_meter") /\ meter' = "stopped"
    BY <1>1, <1>3, Continues
  <2>2. Types'
    BY <1>1, <2>1, MovesTypes, Places DEF SessionInv, Types
  <2>3. ControlInv' /\ RowInv'
    BY <1>1, <2>1, Places DEF SessionInv, ControlInv, RowInv, Early, Moves
  <2>4. MeterInv' /\ GoneInv' /\ CmdInv'
    BY <1>1, <2>1, Places DEF SessionInv, MeterInv, GoneInv, CmdInv, Early, Moves
  <2>5. Protocol' /\ CountInv'
    BY <1>1, <2>1, Places DEF SessionInv, Protocol, Rests, Nothing, CountInv, RowInv, Early, Moves
  <2> QED BY <2>2, <2>3, <2>4, <2>5 DEF SessionInv
<1> QED BY <1>2, <1>3 DEF StopMeter

LEMMA CloseInv == ASSUME SessionInv, CloseMeter, mode' = mode PROVE SessionInv'
<1>1. /\ rpc = "close_meter" /\ meter' = "closed"
      /\ Continue(IF exc = "none" THEN "send_dump" ELSE "cleanup")
      /\ UNCHANGED <<wpc, dumped, hung, signal, cmds, events, buffered, rows, reps,
                     batches, mismatch, struck, mode>>
  BY DEF CloseMeter, session
<1>2. PICK q \in {"send_dump", "cleanup"} : Moves(q) /\ (q = "send_dump" <=> exc = "none")
  BY <1>1, Continues
<1>3. Types'
  BY <1>1, <1>2, MovesTypes, Places DEF SessionInv, Types, Early
<1>4. ControlInv' /\ RowInv'
  BY <1>1, <1>2, Places DEF SessionInv, ControlInv, RowInv, Early, Moves
<1>5. MeterInv' /\ GoneInv' /\ CmdInv'
  BY <1>1, <1>2, Places DEF SessionInv, MeterInv, GoneInv, CmdInv, Early, Moves
<1>6. Energy /\ DumpAt = "fourth"
  BY <1>1 DEF SessionInv, MeterInv, DumpAt
<1>7. Protocol' /\ CountInv'
  BY <1>1, <1>2, <1>6, Places
     DEF SessionInv, Protocol, Rests, Nothing, CountInv, RowInv, Early, Moves, ControlInv
<1> QED BY <1>3, <1>4, <1>5, <1>7 DEF SessionInv

\* The verdict: the rows of the repetitions are counted before it is given.
LEMMA AccountInv == ASSUME SessionInv, Account, mode' = mode PROVE SessionInv'
<1>1. /\ rpc = "account"
      /\ UNCHANGED <<wpc, dumped, hung, signal, cmds, events, buffered, rows, reps,
                     meter, mismatch, struck, mode>>
  BY DEF Account
<1>2. CASE Raise("error") /\ batches' = batches
  BY <1>1, <1>2, RaisedInv DEF Raise, Goto, SessionInv, Types, Early
<1>3. CASE CountMatches /\ batches' = batches + (IF Energy THEN 1 ELSE 0) /\ Continue("conclude")
  <2>1. Moves("conclude") /\ reps = Repetitions
    BY <1>1, <1>3, Continues DEF CountMatches
  <2>2. batches' = IF Energy THEN 1 ELSE 0
    BY <1>1, <1>3 DEF SessionInv, MeterInv, Early
  <2>3. Types'
    BY <1>1, <2>1, <2>2, MovesTypes, Places DEF SessionInv, Types, Early
  <2>4. ControlInv' /\ RowInv'
    BY <1>1, <2>1, Places DEF SessionInv, ControlInv, RowInv, Early, Moves
  <2>5. MeterInv' /\ GoneInv' /\ CmdInv'
    BY <1>1, <2>1, <2>2, Places DEF SessionInv, MeterInv, GoneInv, CmdInv, Early, Moves
  <2>6. Protocol' /\ CountInv'
    BY <1>1, <2>1, Places DEF SessionInv, Protocol, Over, CountInv, RowInv, Early, Moves
  <2> QED BY <2>3, <2>4, <2>5, <2>6 DEF SessionInv
<1> QED BY <1>2, <1>3 DEF Account

LEMMA ConcludeInv == ASSUME SessionInv, Conclude, mode' = mode PROVE SessionInv'
<1>1. /\ rpc = "conclude"
      /\ UNCHANGED <<wpc, dumped, hung, signal, cmds, events, buffered, reps, batches,
                     meter, mismatch, struck, mode>>
  BY DEF Conclude
<1>2. CASE Raise("error") /\ rows' = rows
  BY <1>1, <1>2, RaisedInv DEF Raise, Goto, SessionInv, Types, Early
<1>3. CASE rows' = Append(rows, Verdict) /\ Continue("cleanup")
  <2>1. Moves("cleanup")
    BY <1>1, <1>3, Continues
  <2>2. rows = <<>> /\ exc = "none" /\ Over /\ reps = Repetitions
        /\ batches = (IF Energy THEN 1 ELSE 0) /\ meter = (IF Energy THEN "closed" ELSE "none")
    BY <1>1 DEF SessionInv, RowInv, ControlInv, Protocol, CountInv, MeterInv, Early
  <2>3. PICK v \in {"ok", "invalid"} : rows' = <<v>> /\ (v = "ok" <=> ~ mismatch)
    BY <1>3, <2>2 DEF Verdict
  <2>4. Types'
    BY <1>1, <2>1, MovesTypes, Places DEF SessionInv, Types
  <2>5. rows' \in OneRow /\ rows' # <<>> /\ rows'[1] = v
    BY <2>3 DEF OneRow, Settled
  <2>6. ControlInv' /\ RowInv'
    BY <1>1, <2>1, <2>2, <2>5, Places DEF SessionInv, ControlInv, RowInv, Early, Moves
  <2>7. MeterInv' /\ GoneInv' /\ CmdInv'
    BY <1>1, <2>1, Places DEF SessionInv, MeterInv, GoneInv, CmdInv, Early, Moves
  <2>8. Protocol'
    BY <1>1, <2>1, <2>2, Places DEF Protocol, Over, Moves
  <2>9. CountInv'
    BY <1>1, <2>1, <2>2, <2>3, <2>5, Places DEF SessionInv, CountInv, Over, Early, Moves
  <2> QED BY <2>4, <2>6, <2>7, <2>8, <2>9 DEF SessionInv
<1> QED BY <1>2, <1>3 DEF Conclude

\* The worker is gone: the finally clause is left, with or without an exception.
LEMMA LeaveInv ==
  ASSUME SessionInv, rpc \in CleanupPcs, Gone, Leave, mode' = mode, signal' = signal,
         UNCHANGED <<wpc, dumped, hung, cmds, events, buffered, rows, reps, batches, meter,
                     mismatch, struck>>
  PROVE  SessionInv'
<1>1. PICK q \in {"done", "handle"} : Moves(q) /\ (q = "done" <=> exc = "none")
  BY Continues DEF Leave
<1>2. Types'
  BY <1>1, MovesTypes, Places DEF SessionInv, Types
<1>3. ControlInv'
  BY <1>1, Places DEF SessionInv, ControlInv, Early, Moves
<1>4. RowInv'
  <2>1. rows \in OneRow /\ (exc = "none" => rows # <<>>)
    BY Places DEF SessionInv, RowInv
  <2>2. CASE q = "handle"
    BY <1>1, <2>1, <2>2, Places DEF SessionInv, RowInv, Early, Moves
  <2>3. CASE q = "done"
    <3>1. PICK s \in Settled : rows = <<s>>
      BY <1>1, <2>1, <2>3 DEF OneRow
    <3>2. [rows |-> rows, raised |-> "none"] \in Outcomes
      <4>1. rows \in RowLists
        BY <3>1 DEF RowLists, Statuses
      <4>2. "interrupted" \notin {rows[i] : i \in DOMAIN rows}
        BY <3>1 DEF Settled
      <4> QED BY <3>1, <4>1, <4>2 DEF Outcomes
    <3>3. Len(rows) = 1 /\ rows # <<>>
      BY <3>1
    <3> QED BY <1>1, <2>1, <2>3, <3>2, <3>3, Places
            DEF RowInv, RowPerTask, OutcomeKnown, Early, Moves
  <2> QED BY <1>1, <2>2, <2>3
<1>5. MeterInv' /\ GoneInv' /\ CmdInv'
  BY <1>1, Places DEF SessionInv, MeterInv, GoneInv, Gone, CmdInv, Early, Moves
<1>6. Protocol' /\ CountInv'
  BY <1>1, Places DEF SessionInv, Protocol, CountInv, Over, Early, Moves
<1> QED BY <1>2, <1>3, <1>4, <1>5, <1>6 DEF SessionInv

\* It is not: a signal, and another wait.
LEMMA SignalInv ==
  ASSUME SessionInv, mode' = mode,
         \/ rpc = "cleanup" /\ signal' = "term" /\ Continue("wait_term")
         \/ rpc = "wait_term" /\ signal' = "kill" /\ Continue("wait_kill"),
         UNCHANGED <<wpc, dumped, hung, cmds, events, buffered, rows, reps, batches, meter,
                     mismatch, struck>>
  PROVE  SessionInv'
<1>1. \/ rpc = "cleanup" /\ signal' = "term" /\ Moves("wait_term")
      \/ rpc = "wait_term" /\ signal' = "kill" /\ Moves("wait_kill")
  BY Continues
<1>2. Types'
  BY <1>1, MovesTypes, Places DEF SessionInv, Types
<1>3. ControlInv' /\ RowInv'
  BY <1>1, Places DEF SessionInv, ControlInv, RowInv, Early, Moves
<1>4. MeterInv' /\ GoneInv' /\ CmdInv'
  BY <1>1, Places DEF SessionInv, MeterInv, GoneInv, CmdInv, Early, Moves
<1>5. Protocol' /\ CountInv'
  BY <1>1, Places DEF SessionInv, Protocol, CountInv, Over, Early, Moves
<1> QED BY <1>2, <1>3, <1>4, <1>5 DEF SessionInv

LEMMA CleanupInv == ASSUME SessionInv, Cleanup \/ WaitTerm \/ WaitKill, mode' = mode PROVE SessionInv'
<1>1. /\ rpc \in CleanupPcs
      /\ UNCHANGED <<wpc, dumped, hung, cmds, events, buffered, rows, reps, batches, meter,
                     mismatch, struck>>
  BY Places DEF Cleanup, WaitTerm, WaitKill, session
<1>2. CASE Gone /\ Leave /\ signal' = signal
  BY <1>1, <1>2, LeaveInv
<1>3. CASE \/ rpc = "cleanup" /\ signal' = "term" /\ Continue("wait_term")
           \/ rpc = "wait_term" /\ signal' = "kill" /\ Continue("wait_kill")
  BY <1>1, <1>3, SignalInv
<1>4. CASE rpc = "wait_kill" /\ Raise("error") /\ signal' = signal
  BY <1>1, <1>4, RaisedInv DEF Raise, Goto, SessionInv, Types
<1> QED BY <1>2, <1>3, <1>4 DEF Cleanup, WaitTerm, WaitKill, Polled

LEMMA TwoRows ==
  ASSUME NEW s \in Statuses, NEW x \in Statuses
  PROVE  Append(<<s>>, x) = <<s, x>>
<1>1. <<s>> \in Seq(Statuses) /\ Len(<<s>>) = 1 /\ <<s>>[1] = s
  OBVIOUS
<1>2. PICK a \in Seq(Statuses) : a = <<s>>
  BY <1>1
<1>3. Len(a) = 1 /\ a[1] = s
  BY <1>1, <1>2
<1>4. PICK b \in Seq(Statuses) : b = Append(a, x)
  BY AppendProperties
<1>5. Len(b) = 2 /\ b[1] = s /\ b[2] = x
  <2>1. /\ Len(Append(a, x)) = Len(a) + 1
        /\ \A i \in 1 .. Len(a) : Append(a, x)[i] = a[i]
        /\ Append(a, x)[Len(a) + 1] = x
    BY ONLY a \in Seq(Statuses), x \in Statuses, AppendProperties
  <2>2. Len(b) = Len(a) + 1 /\ b[Len(a) + 1] = x /\ \A i \in 1 .. Len(a) : b[i] = a[i]
    BY <1>4, <2>1
  <2>3. 1 \in 1 .. Len(a)
    BY <1>3
  <2> QED BY <1>3, <2>2, <2>3
<1>6. <<s, x>> \in Seq(Statuses) /\ Len(<<s, x>>) = 2 /\ <<s, x>>[1] = s /\ <<s, x>>[2] = x
  OBVIOUS
<1>7. PICK c \in Seq(Statuses) : c = <<s, x>>
  BY <1>6
<1>8. Len(c) = 2 /\ c[1] = s /\ c[2] = x
  BY <1>6, <1>7
<1>9. \A i \in 1 .. Len(b) : b[i] = c[i]
  BY <1>5, <1>8
<1>10. b = c
  <2>1. Len(b) = Len(c)
    BY <1>5, <1>8
  <2> QED BY ONLY <1>4, <1>7, <1>9, <2>1, SeqEqual
<1> QED BY <1>2, <1>4, <1>7, <1>10

\* The except clauses record the exception.
LEMMA HandleInv == ASSUME SessionInv, Handle, mode' = mode PROVE SessionInv'
<1>1. /\ rpc = "handle"
      /\ UNCHANGED <<wpc, dumped, hung, signal, cmds, events, buffered, reps, batches,
                     meter, mismatch, struck, mode>>
  BY DEF Handle
<1>2. CASE Raise("error") /\ rows' = rows
  BY <1>1, <1>2, RaisedInv DEF Raise, Goto, SessionInv, Types
<1>3. CASE /\ rows' = Append(rows, IF exc = "interrupt" THEN "interrupted" ELSE "failed")
           /\ exc' = Reraised /\ Goto("done") /\ UNCHANGED stage
  <2>1. PICK x \in {"interrupted", "failed"} :
          x = (IF exc = "interrupt" THEN "interrupted" ELSE "failed") /\ rows' = Append(rows, x)
    BY <1>3
  <2>2. /\ rpc' = "done" /\ hungup' = TRUE /\ stage' = stage
        /\ exc' = (IF exc = "interrupt" THEN "interrupt" ELSE "none")
        /\ Pipe' = Pipe /\ Energy' = Energy
    BY <1>1, <1>3 DEF Goto, Reraised, Pipe, Energy
  <2>3. exc # "none" /\ (struck # {} /\ signal # "kill" => exc = "interrupt")
        /\ rows \in OneRow
        /\ (rows # <<>> => rows = <<"skipped">> \/ struck # {} \/ signal = "kill")
    BY <1>1, Places DEF SessionInv, ControlInv, RowInv
  <2>4. Types'
    <3>1. exc' \in {"none", "error", "interrupt"} /\ hungup' \in BOOLEAN /\ rpc' \in RunnerPc
      BY <2>2, Places
    <3>2. wpc' \in WorkerPc /\ stage' \in {"select", "readline"} /\ signal' \in {"none", "term", "kill"}
          /\ batches' \in 0 .. 1 /\ mismatch' \in BOOLEAN
          /\ meter' \in {"none", "open", "started", "stopped", "closed"}
          /\ buffered' \in Seq(Event) /\ Len(buffered') <= PipeSize
          /\ events' \in Seq(Event) /\ Len(events') <= PipeSize
      BY <1>1, <2>2 DEF SessionInv, Types
    <3> QED BY <1>1, <3>1, <3>2, MovedTypes DEF SessionInv
  <2>5. ControlInv'
    BY <1>1, <2>2, <2>3 DEF ControlInv, Early
  <2>6. RowPerTask' /\ OutcomeKnown' /\ rows'[1] = (IF rows = <<>> THEN x ELSE rows[1]) /\ rows' # <<>>
    <3>1. CASE rows = <<>>
      <4>1. rows' = <<x>>
        BY <2>1, <3>1
      <4>2. Len(rows') = 1 /\ rows' # <<>> /\ rows'[1] = x /\ {rows'[i] : i \in DOMAIN rows'} = {x}
        BY <4>1
      <4>3. rows' \in RowLists
        BY <4>1 DEF RowLists, Statuses, Excused
      <4>4. [rows |-> rows', raised |-> exc'] \in Outcomes
        BY <2>1, <2>2, <4>2, <4>3 DEF Outcomes
      <4> QED BY <2>2, <3>1, <4>2, <4>4 DEF RowPerTask, OutcomeKnown
    <3>2. CASE rows # <<>>
      <4>1. PICK s \in Settled : rows = <<s>>
        BY <2>3, <3>2 DEF OneRow
      <4>2. rows' = <<s, x>>
        BY <2>1, <4>1, TwoRows DEF Statuses, Excused
      <4>3. Len(rows') = 2 /\ rows' # <<>> /\ rows'[1] = s /\ rows'[2] = x
            /\ {rows'[i] : i \in DOMAIN rows'} = {s, x} /\ rows[1] = s
        BY <4>1, <4>2
      <4>4. rows' \in RowLists
        BY <4>2 DEF RowLists, Excused
      <4>5. [rows |-> rows', raised |-> exc'] \in Outcomes
        BY <2>1, <2>2, <4>3, <4>4 DEF Outcomes, Settled
      <4>6. struck # {} \/ s = "skipped" \/ signal = "kill"
        BY <2>3, <3>2, <4>1
      <4>7. RowPerTask'
        BY <1>1, <2>1, <2>2, <4>3, <4>6 DEF RowPerTask, Settled
      <4> QED BY <2>2, <3>2, <4>3, <4>5, <4>7 DEF OutcomeKnown
    <3> QED BY <3>1, <3>2
  <2>7. RowInv'
    BY <2>2, <2>6, Places DEF RowInv, Early
  <2>8. MeterInv' /\ GoneInv' /\ CmdInv'
    BY <1>1, <2>2, Places DEF SessionInv, MeterInv, GoneInv, Gone, CmdInv, Early
  <2>9. Protocol'
    BY <2>2, Places DEF Protocol
  <2>10. CountInv'
    BY <1>1, <2>2, <2>6, Places DEF SessionInv, CountInv, Over, Early
  <2> QED BY <2>4, <2>5, <2>7, <2>8, <2>9, <2>10 DEF SessionInv
<1> QED BY <1>2, <1>3 DEF Handle

\* Ctrl-C, anywhere.
LEMMA InterruptInv == ASSUME SessionInv, Interrupt PROVE SessionInv'
<1>1. /\ rpc # "done" /\ struck' = struck \cup {rpc} /\ exc' = "interrupt" /\ stage' = "select"
      /\ UNCHANGED <<dumped, hung, signal, cmds, events, buffered, rows, reps, batches, mismatch,
                     meter, mode>>
  BY DEF Interrupt, session
<1>2. hungup' \in BOOLEAN /\ (rpc' = Catcher(rpc) \/ (rpc = "opened" /\ rpc' = "cleanup"))
  BY DEF Interrupt, Goto
<1>3. wpc' = wpc \/ (~ Gone /\ wpc' = "exited")
  BY DEF Interrupt
<1> QED BY <1>1, <1>2, <1>3, RaisedInv DEF SessionInv, Types

LEMMA StutterInv == ASSUME SessionInv, UNCHANGED vars PROVE SessionInv'
<1>1. UNCHANGED <<wpc, dumped, hung, signal, cmds, events, hungup, rpc, stage, buffered, exc, rows, reps,
                  batches, mismatch, meter, struck, mode>>
  BY DEF vars, workerVars, runnerVars, session
<1>2. /\ Energy' = Energy /\ AutoTiming' = AutoTiming /\ TimingAt' = TimingAt /\ DumpAt' = DumpAt
      /\ Pipe' = Pipe
  BY <1>1 DEF Energy, AutoTiming, TimingAt, DumpAt, Pipe
<1>3. Types'
  BY <1>1, MovedTypes DEF SessionInv, Types
<1>4. ControlInv' /\ MeterInv' /\ GoneInv' /\ CmdInv'
  BY <1>1, <1>2 DEF SessionInv, ControlInv, MeterInv, GoneInv, CmdInv, Gone
<1>5. RowInv' /\ CountInv'
  BY <1>1, <1>2 DEF SessionInv, RowInv, RowPerTask, OutcomeKnown, CountInv, Over
<1>6. Protocol'
  BY <1>1, <1>2
     DEF SessionInv, Protocol, Nothing, Readies, Rests, Runs, Dumps, OneLine, Over
<1> QED BY <1>3, <1>4, <1>5, <1>6 DEF SessionInv

LEMMA SessionStep == SessionInv /\ [Next]_vars => SessionInv'
<1> SUFFICES ASSUME SessionInv, [Next]_vars PROVE SessionInv'
  OBVIOUS
<1>1. CASE RunnerStep
  <2>1. mode' = mode
    BY <1>1 DEF RunnerStep
  <2>2. CASE SendProbe \/ SendTiming \/ SendEnergy \/ SendDump
    BY <2>1, <2>2, SentInv DEF SendProbe, SendTiming, SendEnergy, SendDump
  <2>3. CASE Call \/ Enter \/ EnterTry \/ Select \/ Fill \/ ReadEof \/ Take \/ Reap
    BY <2>1, <2>3, CallInv, EnterInv, EnterTryInv, SelectInv, FillInv, ReadEofInv, TakeInv, ReapInv
  <2>4. CASE OpenMeter \/ StartMeter \/ StopMeter \/ CloseMeter
    BY <2>1, <2>4, OpenInv, StopInv, CloseInv
  <2>5. CASE Account \/ Conclude \/ Cleanup \/ WaitTerm \/ WaitKill \/ Handle
    BY <2>1, <2>5, AccountInv, ConcludeInv, CleanupInv, HandleInv
  <2> QED BY <1>1, <2>2, <2>3, <2>4, <2>5 DEF RunnerStep
<1>2. CASE WorkerAction /\ UNCHANGED runnerVars
  BY <1>2, WorkerInv
<1>3. CASE Ended \/ UNCHANGED vars
  BY <1>3, StutterInv DEF Ended
<1> QED BY <1>1, <1>2, <1>3, InterruptInv DEF Next, WorkerStep, WorkerAction

\* The invariant holds of every reachable state, for every number of repetitions
\* and lines in the pipe, every set of faults and number of Ctrl-C's.
THEOREM Invariance == Spec => []SessionInv
BY SessionInit, SessionStep, PTL DEF Spec

-----------------------------------------------------------------------------
(* The properties *)

LEMMA Follows ==
  ASSUME SessionInv
  PROVE  /\ TypeOK /\ RowPerTask /\ OutcomeKnown /\ WorkerReaped /\ InterruptHeard
         /\ InStep /\ VerdictEarned /\ MeterReleased
<1>i. Types /\ ControlInv /\ RowInv /\ MeterInv /\ GoneInv /\ CmdInv /\ Protocol /\ CountInv
  BY DEF SessionInv
<1>1. RowPerTask /\ OutcomeKnown
  BY <1>i DEF RowInv, RowPerTask, OutcomeKnown
<1>2. WorkerReaped /\ InterruptHeard
  BY <1>i DEF GoneInv, ControlInv, WorkerReaped, InterruptHeard
<1>3. rows \in RowLists
  BY <1>i DEF RowInv, OneRow, RowLists, Statuses, OutcomeKnown, Outcomes
<1>4. TypeOK
  <2>1. cmds \in Seq({"PROBE", "TIMING", "ENERGY", "DUMP"}) /\ Len(cmds) <= 1
    <3>1. CASE cmds = <<>>
      BY <3>1
    <3>2. CASE \E c \in Commands : cmds = <<c>>
      BY <3>2 DEF Commands
    <3> QED BY <1>i, <3>1, <3>2 DEF CmdInv
  <2>2. rows \in Seq({"ok", "invalid", "skipped", "failed", "interrupted"}) /\ Len(rows) <= 2
    <3>1. CASE rows = <<>>
      BY <3>1
    <3>2. CASE \E s \in Statuses : rows = <<s>>
      BY <3>2 DEF Statuses, Settled, Excused
    <3>3. CASE \E s \in Settled, x \in Excused : rows = <<s, x>>
      BY <3>3 DEF Settled, Excused
    <3> QED BY <1>3, <3>1, <3>2, <3>3 DEF RowLists
  <2> QED BY <1>i, <2>1, <2>2 DEF Types, CountInv, TypeOK
<1>5. InStep
  <2>1. wpc \in DOMAIN Script /\ cmds # <<>> => Head(cmds) \in DOMAIN Script[wpc]
    <3> SUFFICES ASSUME wpc \in DOMAIN Script, cmds # <<>> PROVE Head(cmds) \in DOMAIN Script[wpc]
      OBVIOUS
    <3>1. PICK c \in Commands : cmds = <<c>> /\ Accepted(wpc, c)
      BY <1>i DEF CmdInv
    <3>2. Head(cmds) = c /\ wpc \in {"first", "second", "third", "fourth"}
      BY <3>1, Places
    <3>3. c \in DOMAIN Script[wpc]
      BY <3>1, <3>2 DEF Accepted, Script
    <3> QED BY <3>2, <3>3
  <2>2. ASSUME rpc \in Awaiting, buffered \o events # <<>>
        PROVE  Head(buffered \o events).event \in Expected[rpc] \cup {"error"}
    <3>1. Pipe \in Seq(Event) /\ Pipe # <<>> /\ Pipe = buffered \o events
      BY <1>i, <2>2, PipeTyped DEF Pipe
    <3>2. PICK n \in Nat \ {0} : n = Len(Pipe)
      BY <3>1, EmptySeq, LenProperties
    <3>3. Head(Pipe) = Pipe[1]
      BY <3>1
    <3>4. rpc = "ready" => Pipe[1].event \in {"ready", "unsupported", "error"}
      BY <1>i, <3>2 DEF Protocol, Readies, OneLine
    <3>5. /\ rpc = "probe" => Pipe[1].event \in {"probe_done", "error"}
          /\ rpc = "timing" => Pipe[1].event \in {"timing_done", "error"}
          /\ rpc = "energy" => Pipe[1].event \in {"measure_done", "error"}
      BY <1>i, <3>2 DEF Protocol, Runs, OneLine
    <3>6. rpc = "results" => Pipe[1].event \in {"result", "done"}
      BY <1>i, <3>2 DEF Protocol, Dumps
    <3>7. rpc \in {"ready", "probe", "timing", "energy", "results"}
      BY <2>2, Places
    <3> QED BY <3>1, <3>3, <3>4, <3>5, <3>6, <3>7 DEF Expected
  <2> QED BY <1>4, <2>1, <2>2 DEF InStep
<1>6. VerdictEarned
  <2> SUFFICES ASSUME NEW i \in DOMAIN rows, rows[i] \in {"ok", "invalid"}
               PROVE  /\ reps = Repetitions /\ dumped = Repetitions /\ wpc \in {"closing", "exited"}
                      /\ batches = (IF Energy THEN 1 ELSE 0)
                      /\ meter = (IF Energy THEN "closed" ELSE "none")
                      /\ rows[i] = "ok" <=> ~ mismatch
    BY DEF VerdictEarned
  <2>1. rows # <<>> /\ i = 1
    <3>1. CASE rows = <<>>
      BY <3>1
    <3>2. CASE \E s \in Statuses : rows = <<s>>
      BY <3>2
    <3>3. CASE \E s \in Settled, x \in Excused : rows = <<s, x>>
      <4>1. PICK s \in Settled, x \in Excused : rows = <<s, x>>
        BY <3>3
      <4>2. x \notin {"ok", "invalid"} /\ rows[2] = x /\ i \in {1, 2} /\ rows # <<>>
        BY <4>1 DEF Excused
      <4> QED BY <4>2
    <3> QED BY <1>3, <3>1, <3>2, <3>3 DEF RowLists
  <2>2. reps = Repetitions /\ dumped = Repetitions
    BY <1>i, <2>1, Bounds DEF CountInv, Types
  <2> QED BY <1>i, <2>1, <2>2 DEF CountInv, Over
<1>7. MeterReleased
  <2>1. rpc \notin MeterBlock \cup {"close_meter"} /\ struck \cap {"opened", "close_meter"} = {} =>
          meter \in {"none", "closed"}
    BY <1>i DEF MeterInv
  <2>2. ASSUME rpc # "done", exc = "none"
        PROVE  /\ wpc = "energy" => meter = "started"
               /\ wpc \in {"probing", "timing"} => meter = "none"
    <3>1. rpc \in Early \cup {"cleanup", "wait_term", "wait_kill", "reaping", "close_meter"}
      BY <1>i, <2>2, Places DEF Types, ControlInv
    <3>2. wpc = "energy" => rpc = "energy"
      BY <1>i, <2>2, <3>1, Places
         DEF Protocol, GoneInv, Readies, Rests, Runs, Dumps, Over, TimingAt, DumpAt, Early
    <3>3. wpc \in {"probing", "timing"} => rpc \in {"probe", "timing"}
      BY <1>i, <2>2, <3>1, Places
         DEF Protocol, GoneInv, Readies, Rests, Runs, Dumps, Over, TimingAt, DumpAt, Early
    <3> QED BY <1>i, <3>2, <3>3 DEF MeterInv
  <2> QED BY <2>1, <2>2 DEF MeterReleased
<1> QED BY <1>1, <1>2, <1>4, <1>5, <1>6, <1>7

\* Every variable keeps its type; no more than one command is unread, and a task has
\* no more than two rows.
THEOREM TypeCorrect == Spec => []TypeOK
BY Invariance, Follows, PTL

\* The two scripts agree: an unread command is one the worker's next getline
\* accepts, a line on its way one the runner expects, whatever failed before.
THEOREM ScriptsAgree == Spec => []InStep
BY Invariance, Follows, PTL

\* A task is recorded as measured only when every repetition has its row, the
\* worker was done, and the energy batch was measured exactly if asked for; it is
\* "ok" exactly when no value was wrong.
THEOREM Verdicts == Spec => []VerdictEarned
BY Invariance, Follows, PTL

\* run_task leaves a row, or raises; it leaves two only if something went wrong
\* after the first was written.
THEOREM Rows == Spec => []RowPerTask
BY Invariance, Follows, PTL

\* run_task leaves and raises only what TaskOutcomes lists.
THEOREM OutcomesKept == Spec => []OutcomeKnown
BY Invariance, Follows, PTL

\* run_task leaves no worker behind, except where its finally clause does not
\* protect it.
THEOREM NoWorkerLeft == Spec => []WorkerReaped
BY Invariance, Follows, PTL

\* The meter is closed once the energy block is left, and runs around the energy
\* batch and no other.
THEOREM MeterClosed == Spec => []MeterReleased
BY Invariance, Follows, PTL

\* A Ctrl-C is not swallowed.
THEOREM InterruptKept == Spec => []InterruptHeard
BY Invariance, Follows, PTL

-----------------------------------------------------------------------------
(* The campaign, which calls run_task once for each task *)

\* Whatever run_task leaves and raises, and however many repetition rows it has
\* appended, is a choice of Campaign's RunTask: the campaign is prepared for it.
THEOREM OutcomeExpected ==
  ASSUME TaskRepetitions = Repetitions
  PROVE  Spec => [](rpc = "done" => \E o \in Outcomes :
                      o = [rows |-> rows, raised |-> exc] /\ reps \in RowsLeft(o))
<1>1. ASSUME SessionInv, rpc = "done"
      PROVE  \E o \in Outcomes : o = [rows |-> rows, raised |-> exc] /\ reps \in RowsLeft(o)
  <2>1. PICK o \in Outcomes : o = [rows |-> rows, raised |-> exc]
    BY <1>1, Follows DEF OutcomeKnown
  <2>2. o.rows = rows
    BY <2>1
  <2>3. reps \in 0 .. Repetitions
    BY <1>1, Bounds DEF SessionInv, Types, CountInv
  <2>4. (\E i \in DOMAIN rows : rows[i] \in {"ok", "invalid"}) => reps = Repetitions
    BY <1>1, Follows DEF VerdictEarned
  <2>5. reps \in RowsLeft(o)
    BY <2>2, <2>3, <2>4 DEF RowsLeft
  <2> QED BY <2>1, <2>5
<1> QED BY <1>1, Invariance, PTL

RowType == Tasks \X Statuses
CampaignBegins  == {"plan", "preflight", "open", "prepare", "tasks"}
CampaignEnds    == {"summary", "count", "finalize", "rewrite", "report"}

\* A task has at most two rows; only a task that raised has rows and is still
\* the next one.
RowsInv ==
  /\ \/ Len(taskRows) <= 2 * (next - 1)
     \/ phase \notin CampaignBegins /\ next <= N /\ Len(taskRows) <= 2 * next
  /\ \A i \in DOMAIN taskRows : taskRows[i][1] <= next
  /\ \A i \in DOMAIN taskRows : taskRows[i][2] = "interrupted" => stopped /\ taskRows[i][1] = next
  /\ \A t \in Tasks : t < next => HasRow(t, Statuses)

\* Only the handler of Ctrl-C leaves the loop before the last task.
PhaseInv ==
  /\ stopped => phase \notin CampaignBegins \cup {"count"} /\ next <= N
  /\ phase \in CampaignEnds /\ ~stopped => next = N + 1
  /\ phase \in CampaignEnds \ {"summary"} => summary = repRows
  /\ phase \in {"finalize", "rewrite", "report"} /\ ~stopped => counts = CountsOf(taskRows)

\* The manifest as finalize_manifest leaves it.
ManifestComplete ==
  /\ manifest = [status |-> FinalStatus, counts |-> CountsOf(taskRows)]
  /\ summary = repRows
  /\ ~stopped => next = N + 1 /\ counts = CountsOf(taskRows)

ManifestInv ==
  /\ \/ manifest \in {None, Opened, Torn}
     \/ phase \in {"report", "done"} /\ ManifestComplete
  /\ phase = "report" => ManifestComplete

ExitInv ==
  exit \in {0, 3, 130} =>
    /\ phase = "done" /\ ManifestComplete
    /\ exit = IF stopped THEN 130 ELSE IF Problems THEN 3 ELSE 0

CampaignInv ==
  /\ CampaignTypeOK /\ RowsInv /\ PhaseInv /\ ManifestInv /\ ExitInv

-----------------------------------------------------------------------------
LEMMA CampaignConstants ==
  N \in Nat /\ N > 0 /\ TaskRepetitions \in Nat /\ None \notin {0, 3, 130}
BY CampaignAssumption

\* What run_task can leave: at most two rows, with a status each; a normal
\* return leaves one, and only Ctrl-C a row that says so.
LEMMA OutcomeShape ==
  ASSUME NEW o \in Outcomes
  PROVE  /\ o.rows \in Seq(Statuses) /\ Len(o.rows) \in 0 .. 2
         /\ o.raised \in {"none", "error", "interrupt"}
         /\ o.raised = "none" => Len(o.rows) >= 1
         /\ o.raised # "interrupt" => \A i \in DOMAIN o.rows : o.rows[i] # "interrupted"
<1>1. o.rows \in RowLists
  BY DEF Outcomes
<1>2. o.rows = <<>> \/ (\E s \in Statuses : o.rows = <<s>>)
        \/ (\E s \in Settled, x \in Excused : o.rows = <<s, x>>)
  BY <1>1 DEF RowLists
<1>3. o.rows \in Seq(Statuses) /\ Len(o.rows) \in 0 .. 2 /\ (o.rows # <<>> => Len(o.rows) >= 1)
  <2>1. CASE o.rows = <<>>
    BY <2>1
  <2>2. CASE \E s \in Statuses : o.rows = <<s>>
    BY <2>2
  <2>3. CASE \E s \in Settled, x \in Excused : o.rows = <<s, x>>
    BY <2>3 DEF Statuses
  <2> QED BY <1>2, <2>1, <2>2, <2>3
<1> QED BY <1>3 DEF Outcomes

\* Appending the rows of a task keeps the earlier rows and adds only its own.
LEMMA WithRowsShape ==
  ASSUME CampaignTypeOK, NEW t \in Tasks, NEW o \in Outcomes
  PROVE  /\ WithRows(t, o) \in Seq(RowType)
         /\ Len(WithRows(t, o)) = Len(taskRows) + Len(o.rows)
         /\ DOMAIN WithRows(t, o) = 1 .. Len(taskRows) + Len(o.rows)
         /\ \A i \in DOMAIN taskRows : /\ i \in DOMAIN WithRows(t, o)
                                       /\ WithRows(t, o)[i] = taskRows[i]
         /\ \A i \in DOMAIN WithRows(t, o) \ DOMAIN taskRows :
              \E j \in DOMAIN o.rows : WithRows(t, o)[i] = <<t, o.rows[j]>>
         /\ Len(o.rows) >= 1 =>
              \E i \in DOMAIN WithRows(t, o) :
                 /\ WithRows(t, o)[i][1] = t
                 /\ WithRows(t, o)[i][2] \in Statuses
<1> DEFINE added == [i \in DOMAIN o.rows |-> <<t, o.rows[i]>>]
           m == Len(taskRows)
           k == Len(o.rows)
<1>1. k \in Nat /\ DOMAIN o.rows = 1 .. k /\ \A i \in 1 .. k : o.rows[i] \in Statuses
  BY OutcomeShape, ElementOfSeq, LenProperties
<1>2. added \in [1 .. k -> RowType]
  BY <1>1 DEF RowType
<1>3. added \in Seq(RowType)
  BY <1>1, <1>2, SeqDef
<1>4. Len(added) = k
  BY <1>1, <1>2, <1>3, LenProperties
<1>5. taskRows \in Seq(RowType) /\ Len(taskRows) = m /\ m \in Nat /\ DOMAIN taskRows = 1 .. m
  BY LenProperties DEF CampaignTypeOK, RowType
<1>6. WithRows(t, o) = taskRows \o added
  BY DEF WithRows
<1> HIDE DEF m, k, added
<1>7. /\ WithRows(t, o) \in Seq(RowType)
      /\ Len(WithRows(t, o)) = m + k
      /\ \A i \in 1 .. m + k : WithRows(t, o)[i] = IF i <= m THEN taskRows[i] ELSE added[i - m]
  <2>1. /\ taskRows \o added \in Seq(RowType)
        /\ Len(taskRows \o added) = Len(taskRows) + Len(added)
        /\ \A i \in 1 .. Len(taskRows) + Len(added) :
             (taskRows \o added)[i] =
               IF i <= Len(taskRows) THEN taskRows[i] ELSE added[i - Len(taskRows)]
    BY <1>3, <1>5, ConcatProperties
  <2> QED BY <1>4, <1>5, <1>6, <2>1
<1>8. DOMAIN WithRows(t, o) = 1 .. m + k
  BY <1>7, LenProperties
<1>9. \A i \in DOMAIN WithRows(t, o) \ DOMAIN taskRows :
        i - m \in 1 .. k /\ WithRows(t, o)[i] = added[i - m]
  BY <1>1, <1>5, <1>7, <1>8
<1>10. \A j \in 1 .. k : added[j] = <<t, o.rows[j]>>
  BY <1>1 DEF added
<1>11. k >= 1 => /\ WithRows(t, o)[m + 1] = <<t, o.rows[1]>>
                 /\ m + 1 \in 1 .. m + k /\ o.rows[1] \in Statuses
  BY <1>1, <1>5, <1>7, <1>10
<1>12. k >= 1 => \E i \in DOMAIN WithRows(t, o) :
          WithRows(t, o)[i][1] = t /\ WithRows(t, o)[i][2] \in Statuses
  BY <1>8, <1>11
<1>13. \A i \in DOMAIN taskRows : /\ i \in DOMAIN WithRows(t, o)
                                  /\ WithRows(t, o)[i] = taskRows[i]
  BY <1>1, <1>5, <1>7, <1>8
<1>14. \A i \in DOMAIN WithRows(t, o) \ DOMAIN taskRows :
        \E j \in DOMAIN o.rows : WithRows(t, o)[i] = <<t, o.rows[j]>>
  BY <1>1, <1>9, <1>10
<1> QED BY <1>7, <1>8, <1>12, <1>13, <1>14 DEF m, k

\* Counts never exceed the number of rows, and are zero only without such a row.
LEMMA CountsShape ==
  ASSUME NEW rs \in Seq(RowType)
  PROVE  \A s \in Statuses :
           /\ CountsOf(rs)[s] \in 0 .. Len(rs)
           /\ CountsOf(rs)[s] > 0 <=> \E i \in DOMAIN rs : rs[i][2] = s
<1> TAKE s \in Statuses
<1> DEFINE with == {i \in DOMAIN rs : rs[i][2] = s}
<1>1. Len(rs) \in Nat /\ DOMAIN rs = 1 .. Len(rs)
  BY LenProperties
<1>2. IsFiniteSet(1 .. Len(rs)) /\ Cardinality(1 .. Len(rs)) = Len(rs)
  BY <1>1, FS_Interval
<1>3. with \in SUBSET (1 .. Len(rs))
  BY <1>1
<1>4. IsFiniteSet(with) /\ Cardinality(with) <= Len(rs)
  BY <1>2, <1>3, FS_Subset
<1>5. Cardinality(with) \in Nat /\ (Cardinality(with) = 0 <=> with = {})
  BY <1>4, FS_CardinalityType, FS_EmptySet
<1>6. CountsOf(rs)[s] = Cardinality(with)
  BY DEF CountsOf
<1> QED BY <1>1, <1>4, <1>5, <1>6

USE CampaignConstants

-----------------------------------------------------------------------------
LEMMA CampaignInitInv == CampaignInit => CampaignInv
<1> SUFFICES ASSUME CampaignInit PROVE CampaignInv
  OBVIOUS
<1>1. taskRows \in Seq(Tasks \X Statuses) /\ Len(taskRows) = 0 /\ DOMAIN taskRows = {}
  BY EmptySeq DEF CampaignInit
<1>2. CampaignTypeOK
  <2>1. /\ next \in 1 .. N + 1 /\ Len(taskRows) <= 2 * N
        /\ taskRows \in Seq(Tasks \X Statuses)
    BY <1>1 DEF CampaignInit
  <2>2. repRows \in [Tasks -> 0 .. TaskRepetitions] /\ counts \in [Statuses -> 0 .. 2 * N]
    BY DEF CampaignInit, NoCounts
  <2>3. exit \in Codes \cup {None} /\ summary = None /\ manifest = None /\ stopped \in BOOLEAN
    BY DEF CampaignInit
  <2> QED BY <2>1, <2>2, <2>3 DEF CampaignInit, CampaignTypeOK
<1>3. RowsInv
  BY <1>1 DEF CampaignInit, RowsInv, CampaignBegins, Tasks
<1>4. PhaseInv /\ ManifestInv /\ ExitInv
  <2>1. exit \notin {0, 3, 130}
    BY DEF CampaignInit
  <2> QED BY <2>1 DEF CampaignInit, PhaseInv, ManifestInv, ExitInv, CampaignBegins, CampaignEnds
<1> QED BY <1>2, <1>3, <1>4 DEF CampaignInv

\* Steps that leave the files alone and end in "done", or go on before the loop.
LEMMA RunTaskInv == CampaignInv /\ RunTask => CampaignInv'
<1> SUFFICES ASSUME CampaignInv, RunTask PROVE CampaignInv'
  OBVIOUS
<1> USE DEF CampaignInv
<1>1. next \in Tasks /\ phase = "tasks" /\ ~stopped /\ next \in Nat
  BY DEF CampaignTypeOK, RunTask, MoreTasks, Tasks, PhaseInv,
         CampaignBegins
<1>2. PICK o \in Outcomes : \E n \in RowsLeft(o) :
        /\ taskRows' = WithRows(next, o)
        /\ repRows' = [repRows EXCEPT ![next] = n]
        /\ AfterTask(o)
  BY DEF RunTask
<1>3. PICK n \in RowsLeft(o) : repRows' = [repRows EXCEPT ![next] = n]
  BY <1>2
<1>4. /\ taskRows' \in Seq(RowType)
      /\ Len(taskRows) \in Nat
      /\ Len(o.rows) \in 0 .. 2
      /\ Len(taskRows') = Len(taskRows) + Len(o.rows)
      /\ Len(taskRows) <= 2 * (next - 1)
      /\ Len(taskRows') <= 2 * next
  <2>1. Len(taskRows) \in Nat /\ Len(taskRows) <= 2 * (next - 1)
    BY <1>1, LenProperties DEF RowsInv, CampaignTypeOK, CampaignBegins
  <2>2. Len(o.rows) \in 0 .. 2
    BY OutcomeShape
  <2>3. taskRows' \in Seq(RowType) /\ Len(taskRows') = Len(taskRows) + Len(o.rows)
    BY <1>1, <1>2, WithRowsShape
  <2>4. Len(taskRows') <= 2 * next
    <3> DEFINE a == Len(taskRows)
               b == Len(o.rows)
    <3>1. a \in Nat /\ b \in 0 .. 2 /\ next \in Nat /\ a <= 2 * (next - 1) /\ Len(taskRows') = a + b
      BY <1>1, <2>1, <2>2, <2>3
    <3> HIDE DEF a, b
    <3> QED BY <3>1
  <2> QED BY <2>1, <2>2, <2>3, <2>4
<1>5. \/ o.raised = "none" /\ next' = next + 1 /\ phase' = "tasks" /\ exit' = exit /\ stopped' = stopped
      \/ o.raised = "interrupt" /\ stopped' = TRUE /\ phase' = "summary" /\ exit' = exit /\ next' = next
      \/ o.raised = "error" /\ phase' = "done" /\ exit' = 1 /\ next' = next /\ stopped' = stopped
  <2>1. AfterTask(o) /\ o.raised \in {"none", "error", "interrupt"}
    BY <1>2, OutcomeShape
  <2> QED BY <2>1 DEF AfterTask, Proceed, Finish
<1>6. exit \notin {0, 3, 130}
  BY <1>1 DEF ExitInv
<1>7. UNCHANGED <<counts, summary, manifest>> /\ manifest \in {None, Opened, Torn}
  BY <1>1 DEF RunTask, ManifestInv
<1>8. CampaignTypeOK'
  <2>1. repRows' \in [Tasks -> 0 .. TaskRepetitions]
    BY <1>1, <1>3 DEF CampaignTypeOK, RowsLeft
  <2>2. next' \in 1 .. N + 1 /\ Len(taskRows') <= 2 * N
    BY <1>1, <1>4, <1>5 DEF Tasks
  <2>3. taskRows' \in Seq(Tasks \X Statuses)
    BY <1>4 DEF RowType
  <2>4. /\ counts' \in [Statuses -> 0 .. 2 * N]
        /\ summary' = None \/ summary' \in [Tasks -> 0 .. TaskRepetitions]
        /\ manifest' = None \/ manifest' \in [status : RunStatuses, counts : [Statuses -> 0 .. 2 * N]]
    BY <1>7 DEF CampaignTypeOK
  <2> QED BY <1>5, <2>1, <2>2, <2>3, <2>4 DEF CampaignTypeOK, Codes
<1>9. RowsInv'
  <2>1. \/ Len(taskRows') <= 2 * (next' - 1)
        \/ phase' \notin CampaignBegins /\ next' <= N /\ Len(taskRows') <= 2 * next'
    BY <1>1, <1>4, <1>5 DEF CampaignBegins, Tasks
  <2>2. \A i \in DOMAIN taskRows : i \in DOMAIN taskRows' /\ taskRows'[i] = taskRows[i]
    BY <1>1, <1>2, WithRowsShape
  <2>3. \A i \in DOMAIN taskRows' \ DOMAIN taskRows :
          \E j \in DOMAIN o.rows : taskRows'[i] = <<next, o.rows[j]>>
    BY <1>1, <1>2, WithRowsShape
  <2>4. \A i \in DOMAIN taskRows' \ DOMAIN taskRows :
          /\ taskRows'[i][1] = next
          /\ taskRows'[i][2] = "interrupted" => o.raised = "interrupt"
    BY <2>3, OutcomeShape
  <2>5. \A i \in DOMAIN taskRows : taskRows[i] \in RowType /\ taskRows[i][1] \in Nat
    BY ElementOfSeq, LenProperties DEF CampaignTypeOK, RowType, Tasks
  <2>6. \A i \in DOMAIN taskRows' : taskRows'[i][1] <= next'
    BY <1>1, <1>5, <2>2, <2>4, <2>5 DEF RowsInv
  <2>7. \A i \in DOMAIN taskRows' :
          taskRows'[i][2] = "interrupted" => stopped' /\ taskRows'[i][1] = next'
    BY <1>1, <1>5, <2>2, <2>4 DEF RowsInv
  <2>8. ASSUME NEW t \in Tasks, t < next' PROVE HasRow(t, Statuses)'
    <3>1. CASE t < next
      BY <2>2, <3>1 DEF RowsInv, HasRow
    <3>2. CASE ~(t < next)
      <4>1. t = next /\ o.raised = "none"
        BY <1>1, <1>5, <2>8, <3>2 DEF Tasks
      <4>2. Len(o.rows) >= 1
        BY <4>1, OutcomeShape
      <4> QED BY <1>1, <1>2, <4>1, <4>2, WithRowsShape DEF HasRow
    <3> QED BY <3>1, <3>2
  <2> QED BY <2>1, <2>6, <2>7, <2>8 DEF RowsInv
<1>10. PhaseInv'
  BY <1>1, <1>5 DEF PhaseInv, CampaignBegins, CampaignEnds, Tasks
<1>11. ManifestInv' /\ ExitInv'
  BY <1>5, <1>6, <1>7 DEF ManifestInv, ExitInv
<1> QED BY <1>8, <1>9, <1>10, <1>11

LEMMA CampaignStepInv == CampaignInv /\ [CampaignNext]_(campaignVars) => CampaignInv'
<1> SUFFICES ASSUME CampaignInv, [CampaignNext]_(campaignVars) PROVE CampaignInv'
  OBVIOUS
<1> USE DEF CampaignInv
<1>1. CASE Plan \/ Preflight \/ Uncaught
  <2>1. /\ UNCHANGED <<next, taskRows, repRows, stopped, counts, summary, manifest>>
        /\ phase # "done"
        /\ \/ phase \in CampaignBegins /\ phase' \in {"preflight", "open"} /\ exit' = exit
           \/ phase' = "done" /\ exit' \in {1, 2, 4}
    BY <1>1 DEF Plan, Preflight, Uncaught, Proceed,
           Finish, rowFiles, CampaignBegins
  <2>2. CampaignTypeOK'
    BY <2>1 DEF CampaignTypeOK, Codes
  <2>3. RowsInv'
    BY <2>1 DEF RowsInv, HasRow, CampaignBegins
  <2>4. PhaseInv'
    BY <2>1 DEF PhaseInv, CampaignBegins, CampaignEnds
  <2>5. ManifestInv'
    BY <2>1 DEF ManifestInv, ManifestComplete, FinalStatus, Problems,
           CampaignBegins
  <2>6. ExitInv'
    BY <2>1 DEF ExitInv
  <2> QED BY <2>2, <2>3, <2>4, <2>5, <2>6
<1>2. CASE WriteManifest \/ PrepareDatasets \/ EndTasks
  <2>1. /\ UNCHANGED <<next, taskRows, repRows, stopped, counts, summary>>
        /\ exit' = exit /\ phase \in CampaignBegins
        /\ phase' \in {"prepare", "tasks"} \/ (phase' = "summary" /\ next > N)
        /\ manifest' \in {manifest, Opened}
    BY <1>2 DEF WriteManifest, PrepareDatasets, EndTasks,
           Proceed, rowFiles, CampaignBegins, MoreTasks, CampaignTypeOK
  <2>2. CampaignTypeOK'
    BY <2>1 DEF CampaignTypeOK, Opened, NoCounts, RunStatuses
  <2>3. RowsInv'
    BY <2>1 DEF RowsInv, HasRow, CampaignBegins
  <2>4. PhaseInv'
    BY <2>1 DEF PhaseInv, CampaignBegins, CampaignEnds, CampaignTypeOK
  <2>5. ManifestInv' /\ ExitInv'
    BY <2>1 DEF ManifestInv, ExitInv, CampaignBegins
  <2> QED BY <2>2, <2>3, <2>4, <2>5
<1>3. CASE RunTask
  BY <1>3, RunTaskInv
<1>4. CASE WriteSummary \/ CountStatuses
  <2>1. /\ UNCHANGED <<next, taskRows, repRows, stopped, manifest>>
        /\ exit' = exit /\ phase \in {"summary", "count"}
        /\ summary' = repRows
        /\ \/ phase' = "finalize" /\ stopped /\ counts' = counts
           \/ phase' = "count" /\ ~stopped /\ counts' = counts
           \/ phase' = "finalize" /\ counts' = CountsOf(taskRows)
    BY <1>4 DEF WriteSummary, CountStatuses, Proceed, rowFiles,
           PhaseInv, CampaignEnds
  <2>2. CampaignTypeOK'
    <3>1. CountsOf(taskRows) \in [Statuses -> 0 .. 2 * N]
      <4>1. taskRows \in Seq(RowType) /\ Len(taskRows) \in Nat /\ Len(taskRows) <= 2 * N
        BY LenProperties DEF CampaignTypeOK, RowType
      <4>2. \A s \in Statuses : CountsOf(taskRows)[s] \in 0 .. 2 * N
        BY <4>1, CountsShape
      <4> QED BY <4>2 DEF CountsOf
    <3> QED BY <2>1, <3>1 DEF CampaignTypeOK
  <2>3. RowsInv'
    BY <2>1 DEF RowsInv, HasRow, CampaignBegins
  <2>4. PhaseInv'
    BY <2>1 DEF PhaseInv, CampaignBegins, CampaignEnds
  <2>5. ManifestInv' /\ ExitInv'
    BY <2>1 DEF ManifestInv, ExitInv
  <2> QED BY <2>2, <2>3, <2>4, <2>5
<1>5. CASE OpenManifest
  <2>1. /\ UNCHANGED <<next, taskRows, repRows, stopped, counts, summary>>
        /\ exit' = exit /\ phase = "finalize" /\ phase' = "rewrite" /\ manifest' = Torn
    BY <1>5 DEF OpenManifest, Proceed, rowFiles
  <2>2. CampaignTypeOK'
    BY <2>1 DEF CampaignTypeOK, Torn, NoCounts, RunStatuses
  <2>3. RowsInv' /\ PhaseInv'
    BY <2>1 DEF RowsInv, HasRow, PhaseInv, CampaignBegins, CampaignEnds
  <2>4. ManifestInv' /\ ExitInv'
    BY <2>1 DEF ManifestInv, ExitInv
  <2> QED BY <2>2, <2>3, <2>4
<1>6. CASE RewriteManifest
  <2>1. /\ UNCHANGED <<next, taskRows, repRows, stopped, counts, summary>>
        /\ exit' = exit /\ phase = "rewrite" /\ phase' = "report"
        /\ manifest' = [status |-> FinalStatus, counts |-> CountsOf(taskRows)]
    BY <1>6 DEF RewriteManifest, Proceed, rowFiles
  <2>2. CampaignTypeOK'
    <3>1. taskRows \in Seq(RowType) /\ Len(taskRows) \in Nat /\ Len(taskRows) <= 2 * N
      BY LenProperties DEF CampaignTypeOK, RowType
    <3>2. \A s \in Statuses : CountsOf(taskRows)[s] \in 0 .. 2 * N
      BY <3>1, CountsShape
    <3>3. CountsOf(taskRows) \in [Statuses -> 0 .. 2 * N]
      BY <3>2 DEF CountsOf
    <3>4. FinalStatus \in RunStatuses
      BY DEF FinalStatus, RunStatuses
    <3> QED BY <2>1, <3>3, <3>4 DEF CampaignTypeOK
  <2>3. RowsInv' /\ PhaseInv'
    BY <2>1 DEF RowsInv, HasRow, PhaseInv, CampaignBegins, CampaignEnds
  <2>4. ManifestComplete'
    BY <2>1 DEF ManifestComplete, FinalStatus, Problems, PhaseInv, CampaignEnds
  <2>5. ManifestInv' /\ ExitInv'
    BY <2>1, <2>4 DEF ManifestInv, ExitInv
  <2> QED BY <2>2, <2>3, <2>5
<1>7. CASE ReturnVerdict
  <2>1. /\ UNCHANGED <<next, taskRows, repRows, stopped, counts, summary, manifest>>
        /\ phase = "report" /\ phase' = "done"
        /\ exit' = IF stopped THEN 130 ELSE IF Problems THEN 3 ELSE 0
    BY <1>7 DEF ReturnVerdict, Finish, rowFiles
  <2>2. CampaignTypeOK'
    BY <2>1 DEF CampaignTypeOK, Codes
  <2>3. RowsInv' /\ PhaseInv'
    BY <2>1 DEF RowsInv, HasRow, PhaseInv, CampaignBegins, CampaignEnds
  <2>4. ManifestComplete /\ ManifestComplete'
    BY <2>1 DEF ManifestComplete, FinalStatus, Problems, ManifestInv
  <2>5. ManifestInv' /\ ExitInv'
    BY <2>1, <2>4 DEF ManifestInv, ExitInv, Problems
  <2> QED BY <2>2, <2>3, <2>5
<1>8. CASE Done \/ UNCHANGED campaignVars
  <2>1. UNCHANGED campaignVars
    BY <1>8 DEF Done
  <2>2. CampaignTypeOK' /\ RowsInv' /\ PhaseInv'
    BY <2>1 DEF campaignVars, CampaignTypeOK, RowsInv, HasRow, PhaseInv
  <2>3. ManifestComplete' <=> ManifestComplete
    BY <2>1 DEF campaignVars, ManifestComplete, FinalStatus, Problems
  <2>4. Problems' <=> Problems
    BY <2>1 DEF campaignVars, Problems
  <2> QED BY <2>1, <2>2, <2>3, <2>4 DEF campaignVars, ManifestInv, ExitInv
<1> QED BY <1>1, <1>2, <1>3, <1>4, <1>5, <1>6, <1>7, <1>8 DEF CampaignNext

\* The inductive invariant CampaignInv - rows and the next task, and what manifest,
\* summary and exit code owe to the rows in each phase - holds of every
\* reachable state.
THEOREM CampaignInvariance ==
  CampaignSpec => []CampaignInv
<1>1. CampaignInit => CampaignInv
  BY CampaignInitInv
<1> QED BY <1>1, CampaignStepInv, PTL DEF CampaignSpec

-----------------------------------------------------------------------------
\* The variables keep their types for any number of tasks, and no task leaves
\* more than two rows.
THEOREM CampaignTypeCorrect ==
  CampaignSpec => []CampaignTypeOK
<1>1. CampaignInv => CampaignTypeOK
  BY DEF CampaignInv
<1>2. CampaignSpec => []CampaignInv
  BY CampaignInvariance
<1> QED BY <1>1, <1>2, PTL

\* A manifest that says "completed", with or without errors, or "interrupted" is
\* telling the truth about all the planned tasks, however many there are.
THEOREM ManifestTrue ==
  CampaignSpec => []ManifestHonest
<1>1. ASSUME CampaignInv PROVE ManifestHonest
  <2> USE <1>1 DEF CampaignInv
  <2> SUFFICES ASSUME manifest # None
               PROVE  /\ manifest.status \in {"completed", "completed_with_errors"} =>
                           /\ \A t \in Tasks : /\ HasRow(t, Statuses)
                                                        /\ ~HasRow(t, {"interrupted"})
                           /\ manifest.status = "completed" <=>
                                \A t \in Tasks : ~HasRow(t, {"failed", "invalid"})
                      /\ manifest.status = "interrupted" => stopped
    BY DEF ManifestHonest
  <2>1. CASE manifest \in {Opened, Torn}
    BY <2>1 DEF Opened, Torn
  <2>2. CASE ManifestComplete
    <3>1. manifest.status = FinalStatus
      BY <2>2 DEF ManifestComplete
    <3>2. manifest.status = "interrupted" => stopped
      BY <3>1 DEF FinalStatus
    <3>3. ASSUME ~stopped
          PROVE  /\ \A t \in Tasks : /\ HasRow(t, Statuses)
                                              /\ ~HasRow(t, {"interrupted"})
                 /\ manifest.status = "completed" <=>
                      \A t \in Tasks : ~HasRow(t, {"failed", "invalid"})
      <4>1. next = N + 1 /\ counts = CountsOf(taskRows)
        BY <2>2, <3>3 DEF ManifestComplete
      <4>2. \A t \in Tasks : HasRow(t, Statuses)
        <5>1. \A t \in Tasks : t < next
          BY <4>1 DEF Tasks
        <5>2. \A t \in Tasks : t < next => HasRow(t, Statuses)
          BY DEF RowsInv
        <5> QED BY <5>1, <5>2
      <4>3. \A t \in Tasks : ~HasRow(t, {"interrupted"})
        BY <3>3 DEF RowsInv, HasRow
      <4>4. taskRows \in Seq(RowType)
        BY DEF CampaignTypeOK, RowType
      <4>5. \A s \in {"failed", "invalid"} :
              counts[s] > 0 <=> \E i \in DOMAIN taskRows : taskRows[i][2] = s
        BY <4>1, <4>4, CountsShape DEF Statuses, Settled, Excused
      <4>6. \A i \in DOMAIN taskRows : taskRows[i][1] \in Tasks
        <5>1. \A i \in DOMAIN taskRows : taskRows[i] \in RowType
          BY <4>4, ElementOfSeq, LenProperties
        <5> QED BY <5>1 DEF RowType
      <4>7. Problems <=> \E t \in Tasks : HasRow(t, {"failed", "invalid"})
        BY <4>5, <4>6 DEF Problems, HasRow
      <4>8. manifest.status = "completed" <=> ~Problems
        BY <3>1, <3>3 DEF FinalStatus
      <4> QED BY <4>2, <4>3, <4>7, <4>8
    <3>4. stopped => manifest.status = "interrupted"
      BY <3>1 DEF FinalStatus
    <3> QED BY <3>2, <3>3, <3>4
  <2> QED BY <2>1, <2>2 DEF ManifestInv
<1>2. CampaignSpec => []CampaignInv
  BY CampaignInvariance
<1> QED BY <1>1, <1>2, PTL

\* An exit code that claims a finished campaign agrees with manifest, counts and
\* summary, which were computed from all the rows; after an interrupted task no
\* other was begun.
THEOREM CodesAgree ==
  CampaignSpec => []FilesAgree
<1>1. ASSUME CampaignInv PROVE FilesAgree
  <2> USE <1>1 DEF CampaignInv
  <2> SUFFICES ASSUME exit \in {0, 3, 130}
               PROVE  /\ manifest.status = (CASE exit = 0 -> "completed"
                                               [] exit = 3 -> "completed_with_errors"
                                               [] exit = 130 -> "interrupted")
                      /\ manifest.counts = CountsOf(taskRows)
                      /\ summary = repRows
                      /\ \A t, u \in Tasks :
                           HasRow(t, {"interrupted"}) /\ u > t
                                    => ~HasRow(u, Statuses)
    BY DEF FilesAgree
  <2>1. ManifestComplete /\ exit = IF stopped THEN 130 ELSE IF Problems THEN 3 ELSE 0
    BY DEF ExitInv
  <2>2. /\ manifest.status = FinalStatus
        /\ manifest.counts = CountsOf(taskRows) /\ summary = repRows
    BY <2>1 DEF ManifestComplete
  <2>3. manifest.status = (CASE exit = 0 -> "completed"
                             [] exit = 3 -> "completed_with_errors"
                             [] exit = 130 -> "interrupted")
    BY <2>1, <2>2 DEF FinalStatus
  <2>4. ASSUME NEW t \in Tasks, NEW u \in Tasks,
               HasRow(t, {"interrupted"}), u > t
        PROVE  ~HasRow(u, Statuses)
    <3>1. t = next
      BY <2>4 DEF RowsInv, HasRow
    <3>2. ASSUME NEW i \in DOMAIN taskRows, taskRows[i][1] = u PROVE FALSE
      <4>1. u <= next
        BY <3>2 DEF RowsInv
      <4> QED BY <2>4, <3>1, <4>1 DEF Tasks
    <3> QED BY <3>2 DEF HasRow
  <2> QED BY <2>2, <2>3, <2>4
<1>2. CampaignSpec => []CampaignInv
  BY CampaignInvariance
<1> QED BY <1>1, <1>2, PTL
=============================================================================
