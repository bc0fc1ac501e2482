---------------------------- MODULE TaskOutcomes ----------------------------
(***************************************************************************)
(* What ExperimentRunner.run_task can leave behind: the statuses it has    *)
(* appended to tasks.jsonl and what it raised.  WorkerSession shows that   *)
(* run_task stays within Outcomes; Campaign relies on nothing else.        *)
(***************************************************************************)
EXTENDS Sequences

Settled == {"ok", "invalid", "skipped"}
Excused == {"failed", "interrupted"}
Statuses == Settled \cup Excused

RowLists ==
  {<<>>} \cup {<<s>> : s \in Statuses} \cup {<<s, x>> : s \in Settled, x \in Excused}

\* A normal return leaves a row and none that says "interrupted".
Outcomes ==
  {o \in [rows : RowLists, raised : {"none", "error", "interrupt"}] :
     /\ o.raised = "none" => o.rows # <<>>
     /\ o.raised # "interrupt" => "interrupted" \notin {o.rows[i] : i \in DOMAIN o.rows}}
=============================================================================
