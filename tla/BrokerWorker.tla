----------------------------- MODULE BrokerWorker -----------------------------
(***************************************************************************)
(* The broker worker: the registry of llm workers, the in-memory list of   *)
(* requests that found no worker, the handler of the request queue and the *)
(* handler of the response queue.  Each consumer has prefetch_count=1, so  *)
(* at most one call of each handler is in flight; the two interleave at    *)
(* every await, and so does the shutdown path.  A step below is the code   *)
(* between two awaits that can suspend.                                    *)
(***************************************************************************)
EXTENDS RabbitMQ, TaskService

VARIABLES
  broker,             \* the state of the process
  available_workers,  \* the registry
  overdue,            \* registered, and silent for over 300 seconds
  pending_requests,   \* the in-memory list
  reqH,               \* handle_api_request: the step it is at, its message
  rspH,               \* handle_worker_response, and its index in the drain
  exitH               \* requeue_pending_on_exit: the index it is at, and
                      \* the list it iterates if that is no longer
                      \* self.pending_requests

brokerVars == << broker, available_workers, overdue, pending_requests,
                 reqH, rspH, exitH >>

BrokerState == { "down", "up", "requeuing", "closing" }
NoMsg == [status |-> "none"]

ReqIdle == [step |-> "idle", request |-> NoRequest]
RspIdle == [step |-> "idle", msg |-> NoMsg, idx |-> 1]
ExitIdle == [idx |-> 1, detached |-> FALSE, list |-> << >>]

BrokerTypeOK ==
  /\ broker \in BrokerState
  /\ available_workers \subseteq Workers
  /\ overdue \subseteq available_workers
  /\ pending_requests \in Seq(Requests)
  /\ reqH \in {ReqIdle} \cup [step : {"publish", "ack"}, request : Requests]
  /\ rspH \in {RspIdle} \cup
       [step : {"update", "callback", "drain", "ack"}, msg : TaskResponse,
        idx : Nat \ {0}]
  /\ exitH \in [idx : Nat \ {0}, detached : BOOLEAN, list : Seq(Requests)]

BrokerInit ==
  /\ broker = "down"
  /\ available_workers = {}
  /\ overdue = {}
  /\ pending_requests = << >>
  /\ reqH = ReqIdle
  /\ rspH = RspIdle
  /\ exitH = ExitIdle

Running == broker # "down"

StartBroker ==
  /\ broker = "down"
  /\ broker' = "up"
  /\ UNCHANGED << envVars, mqVars, tasks, available_workers, overdue,
                  pending_requests, reqH, rspH, exitH >>

(*------------------------- handle_api_request --------------------------*)

(* Mutant: the request consumer is not cancelled before the requeue.       *)
AcceptingAlways == Running

Accepting == broker = "up"

(* Mutant: the request is acknowledged without being kept.                 *)
KeepOrPublishForgets(r) ==
  /\ reqH' = [step |-> IF available_workers' = {} THEN "ack" ELSE "publish",
              request |-> r]
  /\ UNCHANGED pending_requests

(* dispatch_request up to its first await: without a registered worker it  *)
(* appends to the list, otherwise it goes on to publish.                   *)
KeepOrPublish(r) ==
  \/ /\ available_workers' = {}
     /\ pending_requests' = Append(pending_requests, r)
     /\ reqH' = [step |-> "ack", request |-> r]
  \/ /\ available_workers' # {}
     /\ reqH' = [step |-> "publish", request |-> r]
     /\ UNCHANGED pending_requests

(* check_available_workers drops the overdue workers first, with no await  *)
(* in between.                                                             *)
ReceiveRequest ==
  /\ Accepting
  /\ reqH.step = "idle"
  /\ requestQ # << >>
  /\ requestQ' = Tail(requestQ)
  /\ available_workers' = available_workers \ overdue
  /\ overdue' = {}
  /\ KeepOrPublish(Head(requestQ))
  /\ UNCHANGED << envVars, responseQ, callbackQ, workerQ, bound, tasks,
                  broker, rspH, exitH >>

(* An unroutable message is returned to the publisher and ignored.         *)
NotRouted(r) == GiveUp(IF bound = {} THEN {r} ELSE {}, "no_binding")

DispatchRequest ==
  /\ reqH.step = "publish"
  /\ Route(reqH.request)
  /\ NotRouted(reqH.request)
  /\ reqH' = [reqH EXCEPT !.step = "ack"]
  /\ UNCHANGED << disruptions, requestQ, responseQ, callbackQ, bound, tasks,
                  broker, available_workers, overdue, pending_requests,
                  rspH, exitH >>

(* The exception is logged and the request is acknowledged.  If the server *)
(* took the message all the same, this is DispatchRequest.                 *)
DispatchFails ==
  /\ reqH.step = "publish"
  /\ Disrupt("publish_fails")
  /\ GiveUp({reqH.request}, "broker_publish")
  /\ reqH' = [reqH EXCEPT !.step = "ack"]
  /\ UNCHANGED << mqVars, tasks, broker, available_workers, overdue,
                  pending_requests, rspH, exitH >>

AckRequest ==
  /\ reqH.step = "ack"
  /\ reqH' = ReqIdle
  /\ UNCHANGED << envVars, mqVars, tasks, broker, available_workers, overdue,
                  pending_requests, rspH, exitH >>

(*----------------------- handle_worker_response ------------------------*)

(* Mutant: a worker that leaves keeps its time of last contact.            *)
RegisterLeavesTrace(m) ==
  IF m.status = "shutdown"
    THEN /\ available_workers' = available_workers \ {m.worker}
         /\ UNCHANGED overdue
    ELSE /\ available_workers' = available_workers \cup {m.worker}
         /\ overdue' = overdue \ {m.worker}

(* Every message registers its sender; `shutdown' unregisters it again.    *)
Register(m) ==
  /\ available_workers' = IF m.status = "shutdown"
                            THEN available_workers \ {m.worker}
                            ELSE available_workers \cup {m.worker}
  /\ overdue' = overdue \ {m.worker}

(* A heartbeat and a shutdown end here.                                    *)
ReceiveResponse ==
  /\ Running
  /\ rspH.step = "idle"
  /\ responseQ # << >>
  /\ LET m == Head(responseQ)
     IN  /\ Register(m)
         /\ rspH' = IF m.status \in {"success", "failed_task"}
                      THEN [step |-> "update", msg |-> m, idx |-> 1]
                      ELSE RspIdle
  /\ responseQ' = Tail(responseQ)
  /\ UNCHANGED << envVars, requestQ, callbackQ, workerQ, bound, tasks, broker,
                  pending_requests, reqH, exitH >>

(* Mutant: a callback_url is not looked at.                                *)
AfterUpdateNoCallback(m) == IF m.status = "failed_task" THEN "ack" ELSE "drain"

(* A failure is not called back, nor followed by a drain.                  *)
AfterUpdate(m) ==
  IF m.status = "failed_task" THEN "ack"
  ELSE IF m.request \in WithCallback THEN "callback" ELSE "drain"

RecordOutcome(m) ==
  update_task(m.request,
              IF m.status = "failed_task" THEN "failed" ELSE "ready", m.result)

(* Without a row (not inserted yet, or never) the result goes nowhere.     *)
UpdateTask ==
  /\ rspH.step = "update"
  /\ RecordOutcome(rspH.msg)
  /\ GiveUp(IF HasRow(rspH.msg.request) THEN {} ELSE {rspH.msg.request},
            "no_row")
  /\ rspH' = [rspH EXCEPT !.step = AfterUpdate(rspH.msg)]
  /\ UNCHANGED << disruptions, mqVars, broker, available_workers, overdue,
                  pending_requests, reqH, exitH >>

(* The exception skips the callback and the drain, also when it is only    *)
(* the answer to a commit that got lost.                                   *)
UpdateTaskFails ==
  /\ rspH.step = "update"
  /\ Disrupt("db_fails")
  /\ RecordOutcome(rspH.msg) \/ UNCHANGED tasks
  /\ GiveUp({rspH.msg.request}, "db_update")
  /\ rspH' = [rspH EXCEPT !.step = "ack"]
  /\ UNCHANGED << mqVars, broker, available_workers, overdue,
                  pending_requests, reqH, exitH >>

QueueCallback(m) ==
  callbackQ' = [callbackQ EXCEPT ![m.request] =
                  [copies |-> @.copies + 1, texts |-> @.texts \cup {m.result}]]

PublishCallback ==
  /\ rspH.step = "callback"
  /\ QueueCallback(rspH.msg)
  /\ rspH' = [rspH EXCEPT !.step = "drain"]
  /\ UNCHANGED << envVars, requestQ, responseQ, workerQ, bound, tasks, broker,
                  available_workers, overdue, pending_requests, reqH, exitH >>

PublishCallbackFails ==
  /\ rspH.step = "callback"
  /\ Disrupt("publish_fails")
  /\ \/ /\ GiveUp({rspH.msg.request}, "callback_publish")
        /\ UNCHANGED callbackQ
     \/ /\ QueueCallback(rspH.msg)
        /\ UNCHANGED lost
  /\ rspH' = [rspH EXCEPT !.step = "ack"]
  /\ UNCHANGED << requestQ, responseQ, workerQ, bound, tasks, broker,
                  available_workers, overdue, pending_requests, reqH, exitH >>

(* process_pending_requests: one element per step, over the live list.     *)
Draining == rspH.step = "drain" /\ rspH.idx <= Len(pending_requests)

DrainDispatch ==
  /\ Draining
  /\ available_workers # {}
  /\ Route(pending_requests[rspH.idx])
  /\ NotRouted(pending_requests[rspH.idx])
  /\ rspH' = [rspH EXCEPT !.idx = @ + 1]
  /\ UNCHANGED << disruptions, requestQ, responseQ, callbackQ, bound, tasks,
                  broker, available_workers, overdue, pending_requests,
                  reqH, exitH >>

(* The exception skips the assignment: what was dispatched stays listed,   *)
(* this element too, even if the server took it.                           *)
DrainFails ==
  /\ Draining
  /\ available_workers # {}
  /\ Disrupt("publish_fails")
  /\ Route(pending_requests[rspH.idx]) \/ UNCHANGED workerQ
  /\ rspH' = [rspH EXCEPT !.step = "ack"]
  /\ UNCHANGED << lost, requestQ, responseQ, callbackQ, bound, tasks, broker,
                  available_workers, overdue, pending_requests, reqH, exitH >>

(* Mutant: what was dispatched is not taken off the list.                  *)
RemainingAll == pending_requests

Remaining == SubSeq(pending_requests, rspH.idx, Len(pending_requests))

(* self.pending_requests = remaining.  A shutdown that is iterating the    *)
(* old list goes on with the old list.  An empty list is left alone.       *)
DrainEnds ==
  /\ rspH.step = "drain"
  /\ rspH.idx > Len(pending_requests) \/ available_workers = {}
  /\ pending_requests' = Remaining
  /\ exitH' = IF broker = "requeuing" /\ ~exitH.detached
                THEN [exitH EXCEPT !.detached = TRUE, !.list = pending_requests]
                ELSE exitH
  /\ rspH' = [rspH EXCEPT !.step = "ack"]
  /\ UNCHANGED << envVars, mqVars, tasks, broker, available_workers, overdue,
                  reqH >>

(* Mutant: the message is never acknowledged.                              *)
AckResponseNever == FALSE

AckResponse ==
  /\ rspH.step = "ack"
  /\ rspH' = RspIdle
  /\ UNCHANGED << envVars, mqVars, tasks, broker, available_workers, overdue,
                  pending_requests, reqH, exitH >>

(*------------------------------- shutdown ------------------------------*)

(* The request consumer is cancelled first; the response consumer is not.  *)
StopBroker ==
  /\ broker = "up"
  /\ Disrupt("broker_stop")
  /\ broker' = IF pending_requests = << >> THEN "closing" ELSE "requeuing"
  /\ UNCHANGED << lost, mqVars, tasks, available_workers, overdue,
                  pending_requests, reqH, rspH, exitH >>

RequeueList == IF exitH.detached THEN exitH.list ELSE pending_requests

RequeueOne ==
  /\ broker = "requeuing"
  /\ exitH.idx <= Len(RequeueList)
  /\ requestQ' = Append(requestQ, RequeueList[exitH.idx])
  /\ exitH' = [exitH EXCEPT !.idx = @ + 1]
  /\ UNCHANGED << envVars, responseQ, callbackQ, workerQ, bound, tasks, broker,
                  available_workers, overdue, pending_requests, reqH, rspH >>

(* The failure is logged; the element is cleared with the others below. If *)
(* the server took it all the same, this is RequeueOne.                    *)
RequeueFails ==
  /\ broker = "requeuing"
  /\ exitH.idx <= Len(RequeueList)
  /\ Disrupt("publish_fails")
  /\ GiveUp({RequeueList[exitH.idx]}, "requeue_publish")
  /\ exitH' = [exitH EXCEPT !.idx = @ + 1]
  /\ UNCHANGED << mqVars, tasks, broker, available_workers, overdue,
                  pending_requests, reqH, rspH >>

RequeueEnds ==
  /\ broker = "requeuing"
  /\ exitH.idx > Len(RequeueList)
  /\ pending_requests' = << >>
  /\ broker' = "closing"
  /\ exitH' = ExitIdle
  /\ UNCHANGED << envVars, mqVars, tasks, available_workers, overdue,
                  reqH, rspH >>

(* What is only in the memory of this process.                             *)
InMemory ==
  { RequeueList[i] : i \in (IF broker = "requeuing" THEN exitH.idx ELSE 1)
                             .. Len(RequeueList) }

(* Mutant: messages are acknowledged on delivery.                          *)
RedeliveredNot(q, h, m) == q

(* `async with message.process()': a message whose handler has not ended   *)
(* is not acknowledged, so it is delivered again.                          *)
Redelivered(q, h, m) == IF h.step = "idle" THEN q ELSE << m >> \o q

Exit ==
  /\ broker' = "down"
  /\ requestQ' = Redelivered(requestQ, reqH, reqH.request)
  /\ responseQ' = Redelivered(responseQ, rspH, rspH.msg)
  /\ available_workers' = {}
  /\ overdue' = {}
  /\ pending_requests' = << >>
  /\ reqH' = ReqIdle
  /\ rspH' = RspIdle
  /\ exitH' = ExitIdle
  /\ GiveUp(InMemory, "broker_memory")
  /\ UNCHANGED << callbackQ, workerQ, bound, tasks >>

CloseBroker ==
  /\ broker = "closing"
  /\ Exit
  /\ UNCHANGED disruptions

BrokerCrash ==
  /\ Running
  /\ Disrupt("broker_crash")
  /\ Exit
===============================================================================
