----------------------------- MODULE TaskStore -----------------------------
(***************************************************************************)
(* The task table of app/core/task_store.py, as operators on a function    *)
(* from task ids to the status column.  A row that was never written is    *)
(* Absent; the rows prune_old deletes are terminal and months old.  No     *)
(* decision of the orchestrator reads the other columns, which are left    *)
(* out; completed_at is set exactly when the status is terminal.           *)
(***************************************************************************)

Active == {"pending", "planning", "in_progress", "awaiting_approval"}

Terminal == {"completed", "failed", "cancelled",
             "invalid_plan", "goal_not_satisfied", "tool_mismatch"}

TaskStatus == Active \cup Terminal

Absent == "absent"

Row == TaskStatus \cup {Absent}

(* INSERT OR REPLACE of a freshly built Task, whose status is PENDING.     *)
Save(rows, id) ==
  [r \in DOMAIN rows \cup {id} |-> IF r = id THEN "pending" ELSE rows[r]]

(* UPDATE ... WHERE id=?; raises KeyError when the row is missing, which   *)
(* no caller lets happen.  Nothing protects a terminal status.             *)
UpdateStatus(rows, id, s) == [rows EXCEPT ![id] = s]

(* Mutant of Closed: the status the pipeline recorded is overwritten.      *)
Closed_Overwrite(status) == "completed"

(* What process() writes when the pipeline returned normally: COMPLETED,   *)
(* unless the pipeline itself already recorded another terminal status.    *)
Closed(status) ==
  IF status \in Terminal \ {"completed"} THEN status ELSE "completed"
=============================================================================
