------------------------------ MODULE Campaign ------------------------------
(***************************************************************************)
(* A campaign: cmd_run (prbench/cli.py) and the files it keeps             *)
(* (prbench/results.py).  It plans its tasks, checks the machine, writes a *)
(* manifest, prepares the datasets, runs the tasks one by one, and at the  *)
(* end derives a summary from the rows and completes the manifest.         *)
(* KeyboardInterrupt is caught around run_task only; any other exception,  *)
(* and Ctrl-C anywhere else, ends the campaign where it is.                *)
(***************************************************************************)
EXTENDS Integers, Sequences, FiniteSets, TaskOutcomes

CONSTANTS
  N,               \* tasks planned
  TaskRepetitions, \* BOUND: rows a task appends to repetitions.jsonl
  None             \* no such file, not returned yet

ASSUME CampaignAssumption ==
  /\ N \in Nat \ {0}
  /\ TaskRepetitions \in Nat \ {0}
  /\ None \notin 0 .. 130

Tasks == 1 .. N

VARIABLES
  phase,    \* where cmd_run is
  next,     \* the next task
  taskRows, \* tasks.jsonl: a sequence of <<task, status>>
  repRows,  \* repetitions.jsonl: rows with status "ok" of each task
  stopped,  \* the KeyboardInterrupt of a task was caught
  counts,   \* task_status_counts(), as read for the verdict
  summary,  \* the repetition rows summary.csv was computed from
  manifest, \* manifest.json: run_status and task_status_counts
  exit      \* what cmd_run returned, 1 if it raised

campaignVars == <<phase, next, taskRows, repRows, stopped, counts, summary, manifest, exit>>
rowFiles == <<next, taskRows, repRows, stopped>>

NoCounts == [s \in Statuses |-> 0]
Torn == [status |-> "torn", counts |-> NoCounts]
Opened == [status |-> "running", counts |-> NoCounts]

\* task_status_counts() counts rows, not tasks.
CountsOf(rows) == [s \in Statuses |-> Cardinality({i \in DOMAIN rows : rows[i][2] = s})]

CampaignInit ==
  /\ phase = "plan"
  /\ next = 1
  /\ taskRows = <<>>
  /\ repRows = [t \in Tasks |-> 0]
  /\ stopped = FALSE
  /\ counts = NoCounts
  /\ summary = None
  /\ manifest = None
  /\ exit = None

Finish(code) == phase' = "done" /\ exit' = code
Proceed(p) == phase' = p /\ UNCHANGED exit

\* No runnable task: 2.
Plan ==
  /\ phase = "plan"
  /\ Proceed("preflight") \/ Finish(2)
  /\ UNCHANGED <<rowFiles, counts, summary, manifest>>

\* A fatal preflight finding: 4.
Preflight ==
  /\ phase = "preflight"
  /\ Proceed("open") \/ Finish(4)
  /\ UNCHANGED <<rowFiles, counts, summary, manifest>>

WriteManifest ==
  /\ phase = "open"
  /\ manifest' = Opened
  /\ Proceed("prepare")
  /\ UNCHANGED <<rowFiles, counts, summary>>

\* get_or_create for every distinct dataset (see DatasetCache), then
\* datasets.json.
PrepareDatasets ==
  /\ phase = "prepare"
  /\ Proceed("tasks")
  /\ UNCHANGED <<rowFiles, counts, summary, manifest>>

\* The repetition rows a task with outcome o has left.
RowsLeft(o) ==
  IF \E i \in DOMAIN o.rows : o.rows[i] \in {"ok", "invalid"}
  THEN {TaskRepetitions}
  ELSE 0 .. TaskRepetitions

WithRows(t, o) == taskRows \o [i \in DOMAIN o.rows |-> <<t, o.rows[i]>>]

\* What follows run_task: the next task, the handler, or the end.
AfterTask(o) ==
  CASE o.raised = "none"      -> next' = next + 1 /\ Proceed("tasks") /\ UNCHANGED stopped
    [] o.raised = "interrupt" -> stopped' = TRUE /\ Proceed("summary") /\ UNCHANGED next
    [] o.raised = "error"     -> Finish(1) /\ UNCHANGED <<next, stopped>>

MoreTasks == next <= N

RunTask ==
  /\ phase = "tasks"
  /\ MoreTasks
  /\ \E o \in Outcomes : \E n \in RowsLeft(o) :
       /\ taskRows' = WithRows(next, o)
       /\ repRows' = [repRows EXCEPT ![next] = n]
       /\ AfterTask(o)
  /\ UNCHANGED <<counts, summary, manifest>>

EndTasks ==
  /\ phase = "tasks"
  /\ ~MoreTasks
  /\ Proceed("summary")
  /\ UNCHANGED <<rowFiles, counts, summary, manifest>>

\* (Mutant: the partial results of an interrupted campaign are not summarised.)
SummariseWhole ==
  /\ phase = "summary"
  /\ summary' = IF stopped THEN summary ELSE repRows
  /\ Proceed(IF stopped THEN "finalize" ELSE "count")
  /\ UNCHANGED <<rowFiles, counts, manifest>>

\* write_summary, in the handler of Ctrl-C or after the loop.
WriteSummary ==
  /\ phase = "summary"
  /\ summary' = repRows
  /\ Proceed(IF stopped THEN "finalize" ELSE "count")
  /\ UNCHANGED <<rowFiles, counts, manifest>>

CountStatuses ==
  /\ phase = "count"
  /\ counts' = CountsOf(taskRows)
  /\ Proceed("finalize")
  /\ UNCHANGED <<rowFiles, summary, manifest>>

\* (Mutant: tasks with wrong values are no problem.)
FailedOnly == counts["failed"] > 0

Problems == counts["failed"] > 0 \/ counts["invalid"] > 0

FinalStatus ==
  IF stopped THEN "interrupted" ELSE IF Problems THEN "completed_with_errors" ELSE "completed"

\* finalize_manifest reads the manifest and opens it for writing, which
\* empties it ...
OpenManifest ==
  /\ phase = "finalize"
  /\ manifest' = Torn
  /\ Proceed("rewrite")
  /\ UNCHANGED <<rowFiles, counts, summary>>

\* ... and writes it with the status and counts of its own.
RewriteManifest ==
  /\ phase = "rewrite"
  /\ manifest' = [status |-> FinalStatus, counts |-> CountsOf(taskRows)]
  /\ Proceed("report")
  /\ UNCHANGED <<rowFiles, counts, summary>>

ReturnVerdict ==
  /\ phase = "report"
  /\ Finish(IF stopped THEN 130 ELSE IF Problems THEN 3 ELSE 0)
  /\ UNCHANGED <<rowFiles, counts, summary, manifest>>

\* An exception outside run_task, or Ctrl-C there: cmd_run raises.
Uncaught ==
  /\ phase # "done"
  /\ Finish(1)
  /\ UNCHANGED <<rowFiles, counts, summary, manifest>>

Done == phase = "done" /\ UNCHANGED campaignVars

CampaignNext ==
  \/ Plan \/ Preflight \/ WriteManifest \/ PrepareDatasets \/ RunTask \/ EndTasks
  \/ WriteSummary \/ CountStatuses \/ OpenManifest \/ RewriteManifest \/ ReturnVerdict
  \/ Uncaught \/ Done

CampaignSpec == CampaignInit /\ [][CampaignNext]_campaignVars

-----------------------------------------------------------------------------
Codes == {0, 1, 2, 3, 4, 130}
RunStatuses == {"running", "torn", "interrupted", "completed", "completed_with_errors"}

HasRow(t, S) == \E i \in DOMAIN taskRows : taskRows[i][1] = t /\ taskRows[i][2] \in S

\* Every variable keeps its type; a task never has more than two rows.
CampaignTypeOK ==
  /\ phase \in {"plan", "preflight", "open", "prepare", "tasks", "summary",
                "count", "finalize", "rewrite", "report", "done"}
  /\ next \in 1 .. N + 1
  /\ taskRows \in Seq(Tasks \X Statuses) /\ Len(taskRows) <= 2 * N
  /\ repRows \in [Tasks -> 0 .. TaskRepetitions]
  /\ stopped \in BOOLEAN
  /\ counts \in [Statuses -> 0 .. 2 * N]
  /\ summary = None \/ summary \in [Tasks -> 0 .. TaskRepetitions]
  /\ manifest = None \/ manifest \in [status : RunStatuses, counts : [Statuses -> 0 .. 2 * N]]
  /\ exit \in Codes \cup {None}

\* Whoever reads the manifest later can rely on it: "completed" means that every
\* planned task has a row, that none was interrupted and none went wrong;
\* "completed_with_errors" the same but for a failed or invalid one;
\* "interrupted" that Ctrl-C hit a task.
ManifestHonest ==
  /\ CampaignTypeOK
  /\ manifest # None =>
       /\ manifest.status \in {"completed", "completed_with_errors"} =>
            /\ \A t \in Tasks : HasRow(t, Statuses) /\ ~HasRow(t, {"interrupted"})
            /\ manifest.status = "completed" <=> \A t \in Tasks : ~HasRow(t, {"failed", "invalid"})
       /\ manifest.status = "interrupted" => stopped

\* A code that cmd_run returns says what the files say: with 0, 3 and 130 the
\* manifest is complete and of the same verdict, and manifest and summary are
\* computed from all the rows there are; no task was begun after an interrupted one.
FilesAgree ==
  exit \in {0, 3, 130} =>
    /\ manifest.status = (CASE exit = 0 -> "completed"
                            [] exit = 3 -> "completed_with_errors"
                            [] exit = 130 -> "interrupted")
    /\ manifest.counts = CountsOf(taskRows)
    /\ summary = repRows
    /\ \A t, u \in Tasks : HasRow(t, {"interrupted"}) /\ u > t => ~HasRow(u, Statuses)
=============================================================================
