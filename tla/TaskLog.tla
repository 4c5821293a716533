-------------------------------- MODULE TaskLog --------------------------------
(***************************************************************************)
(* services/soc_tasklog.py: the JSONL file of task rows.  A change of state *)
(* appends a row in one write; the readers let the last row of an id win.  *)
(***************************************************************************)
EXTENDS Integers, Sequences

NoRow == "none"

RecordTask(log, id, status) == Append(log, [id |-> id, status |-> status])

Rows(log, id) == {i \in DOMAIN log : log[i].id = id}

\* load_tasks: the status of the last row of the id.
LoadTask(log, id) ==
  IF Rows(log, id) = {} THEN NoRow
  ELSE log[CHOOSE i \in Rows(log, id) : \A j \in Rows(log, id) : j <= i].status

=============================================================================
