----------------------------- MODULE TaskService -----------------------------
(***************************************************************************)
(* The `tasks' table and the three operations of TaskService on it.  Every *)
(* operation is one transaction of its own (get_db_session commits on      *)
(* exit), hence one step.  Of a row the status and the result text count:  *)
(* two inferences about the same request may answer it differently.        *)
(***************************************************************************)
EXTENDS Environment

VARIABLE tasks    \* task_uuid -> row

Row == [status : {"absent", "waiting", "ready", "failed"},
        result : Texts \cup {NoText}]

NoRow == [status |-> "absent", result |-> NoText]

TaskServiceTypeOK == tasks \in [Requests -> Row]

TaskServiceInit == tasks = [r \in Requests |-> NoRow]

HasRow(r) == tasks[r].status # "absent"

insert_task(r) ==
  tasks' = [tasks EXCEPT ![r] = [status |-> "waiting", result |-> NoText]]

(* Only the fields that are set are written: a failure leaves the result   *)
(* column alone, a success replaces whatever text it holds.                *)
Written(r, status, text) ==
  [status |-> status,
   result |-> IF status = "ready" THEN text ELSE tasks[r].result]

(* Mutant: an upsert, which writes the row it does not find.               *)
update_task_upsert(r, status, text) ==
  tasks' = [tasks EXCEPT ![r] = Written(r, status, text)]

(* Without a row nothing is written and nothing is raised.                 *)
update_task(r, status, text) ==
  tasks' = IF HasRow(r)
             THEN [tasks EXCEPT ![r] = Written(r, status, text)]
             ELSE tasks
==============================================================================
