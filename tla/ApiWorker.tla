------------------------------ MODULE ApiWorker ------------------------------
(***************************************************************************)
(* The FastAPI service.  POST task_submit publishes the request first and  *)
(* inserts the row second, with an await between the two; an exception in  *)
(* either gives the client a 500, whether or not the publish or the commit *)
(* it comes from took effect.  GET task_status only reads, so it is an     *)
(* operator: the HTTP status of the reply in the present state.            *)
(***************************************************************************)
EXTENDS RabbitMQ, TaskService

VARIABLE api    \* the state of each task_submit call

(* The two ways to have answered 500: the server never got the request     *)
(* (`unsent'), or it did, with or without a row being there (`refused').   *)
ApiState == { "idle", "inserting", "accepted", "unsent", "refused" }

ApiTypeOK == api \in [Requests -> ApiState]

ApiInit == api = [r \in Requests |-> "idle"]

Published(r) == api[r] \in {"inserting", "accepted", "refused"}

SubmitTask(r) ==
  /\ api[r] = "idle"
  /\ requestQ' = Append(requestQ, r)
  /\ api' = [api EXCEPT ![r] = "inserting"]
  /\ UNCHANGED << envVars, responseQ, callbackQ, workerQ, bound, tasks >>

(* What raised may be the confirm that got lost, not the message.          *)
SubmitPublishFails(r) ==
  /\ api[r] = "idle"
  /\ Disrupt("publish_fails")
  /\ \/ /\ api' = [api EXCEPT ![r] = "unsent"]
        /\ UNCHANGED requestQ
     \/ /\ api' = [api EXCEPT ![r] = "refused"]
        /\ requestQ' = Append(requestQ, r)
  /\ UNCHANGED << lost, responseQ, callbackQ, workerQ, bound, tasks >>

InsertTask(r) ==
  /\ api[r] = "inserting"
  /\ insert_task(r)
  /\ api' = [api EXCEPT ![r] = "accepted"]
  /\ UNCHANGED << envVars, mqVars >>

(* Mutant: the client gets its task_uuid although there is no row.         *)
InsertTaskFailsUnnoticed(r) ==
  /\ api[r] = "inserting"
  /\ Disrupt("db_fails")
  /\ api' = [api EXCEPT ![r] = "accepted"]
  /\ UNCHANGED << lost, mqVars, tasks >>

(* The commit may have taken effect and its answer been lost.              *)
InsertTaskFails(r) ==
  /\ api[r] = "inserting"
  /\ Disrupt("db_fails")
  /\ insert_task(r) \/ UNCHANGED tasks
  /\ api' = [api EXCEPT ![r] = "refused"]
  /\ UNCHANGED << lost, mqVars >>

(* TaskStatusResponse declares result_text as a str, so the reply for a    *)
(* row without a result does not validate and the framework answers 500.   *)
task_status(r) ==
  IF ~HasRow(r) THEN 404 ELSE IF tasks[r].result # NoText THEN 200 ELSE 500
==============================================================================
