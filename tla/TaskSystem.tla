------------------------------ MODULE TaskSystem ------------------------------
(***************************************************************************)
(* The task pipeline: api worker, broker worker and llm workers around the *)
(* RabbitMQ queues and the tasks table, up to the callback queue.          *)
(***************************************************************************)
EXTENDS ApiWorker, BrokerWorker, LLMWorker

vars == << envVars, mqVars, tasks, api, brokerVars, llmVars >>

(* Every process and the server keep to the types of their own variables.  *)
TypeOK ==
  /\ EnvTypeOK
  /\ RabbitMQTypeOK
  /\ TaskServiceTypeOK
  /\ ApiTypeOK
  /\ BrokerTypeOK
  /\ LLMWorkerTypeOK

Init ==
  /\ EnvInit
  /\ RabbitMQInit
  /\ TaskServiceInit
  /\ ApiInit
  /\ BrokerInit
  /\ LLMWorkerInit

(* 300 seconds without a message from w, ten heartbeats, make its entry    *)
(* overdue: w is gone, or (a disruption) cannot get its heartbeats out.    *)
MissHeartbeats(w) ==
  /\ w \in available_workers \ overdue
  /\ IF Consuming(w) THEN Disrupt("stall") ELSE UNCHANGED disruptions
  /\ overdue' = overdue \cup {w}
  /\ UNCHANGED << lost, mqVars, tasks, api, broker, available_workers,
                  pending_requests, reqH, rspH, exitH, llmVars >>

ApiNext ==
  /\ \E r \in Requests :
       SubmitTask(r) \/ SubmitPublishFails(r) \/ InsertTask(r)
         \/ InsertTaskFails(r)
  /\ UNCHANGED << brokerVars, llmVars >>

RequestHandlerNext ==
  /\ ReceiveRequest \/ DispatchRequest \/ DispatchFails \/ AckRequest
  /\ UNCHANGED << api, llmVars >>

ResponseHandlerNext ==
  /\ \/ ReceiveResponse \/ UpdateTask \/ UpdateTaskFails
     \/ PublishCallback \/ PublishCallbackFails
     \/ DrainDispatch \/ DrainFails \/ DrainEnds \/ AckResponse
  /\ UNCHANGED << api, llmVars >>

BrokerProcessNext ==
  /\ \/ StartBroker \/ StopBroker \/ RequeueOne \/ RequeueFails
     \/ RequeueEnds \/ CloseBroker \/ BrokerCrash
  /\ UNCHANGED << api, llmVars >>

LLMWorkerNext ==
  /\ \E w \in Workers :
       \/ WorkerStart(w) \/ Heartbeat(w) \/ ReceiveTask(w)
       \/ InferenceSucceeds(w) \/ InferenceFails(w)
       \/ ReportSuccess(w) \/ ReportFails(w)
       \/ SendShutdown(w) \/ CloseWorker(w) \/ WorkerCrash(w)
  /\ UNCHANGED << api, tasks, brokerVars >>

Next ==
  \/ ApiNext
  \/ RequestHandlerNext
  \/ ResponseHandlerNext
  \/ BrokerProcessNext
  \/ LLMWorkerNext
  \/ \E w \in Workers : MissHeartbeats(w)

Spec == Init /\ [][Next]_vars

(*----------------------------- where a task is -------------------------*)

(* Not yet dispatched: queued, being handled, or in the broker's memory.   *)
Upstream(r) ==
  \/ r \in Held(requestQ)
  \/ reqH.request = r
  \/ r \in InMemory

(* Dispatched and still to be answered or recorded.                        *)
Downstream(r) ==
  \/ \E w \in bound : r \in Unreported(w)
  \/ \E m \in Held(responseQ) : m.request = r
  \/ rspH.step = "update" /\ rspH.msg.request = r

Settled(r) == tasks[r].status \in {"ready", "failed"} \/ lost[r] # {}

(* No request disappears: from the publish on, a copy of every request is  *)
(* in a queue, in a handler or in the broker's list, or its row carries    *)
(* the outcome, or a copy was given up at one of the named loss points.    *)
(* In particular no crash, stop or overlap of drain, dispatch and requeue  *)
(* loses one in a place where the code does not knowingly drop it.         *)
NothingVanishes ==
  \A r \in Requests :
    Published(r) => Upstream(r) \/ Downstream(r) \/ Settled(r)

(* While nothing is disrupted, no copy is given up, except that a result   *)
(* may arrive before the api has inserted the row it belongs to.           *)
UndisturbedLosesNothing ==
  disruptions = 0 => \A r \in Requests : lost[r] \subseteq {"no_row"}

(* While nothing is disrupted, a request that has been dispatched is not   *)
(* also waiting to be dispatched (again): process_pending_requests and     *)
(* handle_api_request never both hand out the same request.                *)
Dispatching(r) ==
  \/ r \in Held(requestQ)
  \/ reqH.step = "publish" /\ reqH.request = r
  \/ \E i \in (IF rspH.step = "drain" THEN rspH.idx ELSE 1)
                .. Len(pending_requests) : pending_requests[i] = r

DispatchedOnce ==
  disruptions = 0 =>
    \A r \in Requests :
      Dispatching(r) => ~Downstream(r) /\ answered[r] = {}

(* The answer a row shows has been sent to the callback worker, or the     *)
(* handler gave up on an exception.                                        *)
CalledBack(r) ==
  \/ tasks[r].result \in callbackQ[r].texts
  \/ lost[r] \cap {"callback_publish", "db_update"} # {}

Answers(m, r) ==
  m.status = "success" /\ m.request = r /\ m.result = tasks[r].result

(* A client that wants a callback gets one for the answer its row shows:   *)
(* it is queued, or given up, or the response that carried it is in the    *)
(* handler or, after a crash, the first to be handled again - before a     *)
(* second worker's answer can replace it.                                  *)
ReadyIsCalledBack ==
  \A r \in WithCallback :
    tasks[r].status = "ready" =>
      \/ CalledBack(r)
      \/ rspH.step \in {"update", "callback"} /\ Answers(rspH.msg, r)
      \/ /\ rspH.step = "idle"
         /\ responseQ # << >>
         /\ Answers(Head(responseQ), r)

(* When requeue_pending_on_exit is over, the broker holds no request in    *)
(* memory: cancelling the request consumer first and keeping the old list  *)
(* alive during a concurrent drain leave nothing for clear() to destroy.   *)
ExitEmptiesMemory == broker = "closing" => pending_requests = << >>

(* A row only moves forward: it stays, and once ready it stays ready.      *)
(* update_task may replace the text of a ready row, by what another worker *)
(* or another delivery of the same request came to; but only by an answer  *)
(* to this request, and, where the client wants callbacks, only after the  *)
(* callback for the text that is replaced was sent or given up.            *)
ForwardOnly ==
  [][\A r \in Requests :
       /\ HasRow(r) => tasks'[r].status # "absent"
       /\ tasks[r].status = "ready" =>
            /\ tasks'[r].status = "ready"
            /\ tasks'[r].result # tasks[r].result =>
                 /\ tasks'[r].result \in answered[r]
                 /\ r \in WithCallback => CalledBack(r)]_vars

(* Nothing in the pipeline is made up.  Every copy of a request belongs to *)
(* a published one; every result on its way back, and every callback, was  *)
(* computed for the very request it names; task_status knows every         *)
(* task_uuid a client was given, and a row without such a client is one    *)
(* whose insertion was reported as failed; and since no worker ever        *)
(* reports a failure, no row is `failed'.                                  *)
Issued == { r \in Requests : Published(r) }

Results == { m \in TaskResponse : /\ m.status = "success"
                                 /\ m.result \in answered[m.request] }

RequestProvenance ==
  /\ requestQ \in Seq(Issued)
  /\ reqH.step # "idle" => reqH.request \in Issued
  /\ pending_requests \in Seq(Issued)
  /\ exitH.list \in Seq(Issued)
  /\ workerQ \in [Workers -> Seq(Issued)]
  /\ \A w \in Workers : worker[w].step # "idle" => worker[w].task \in Issued

ResultProvenance ==
  /\ \A r \in Requests : answered[r] # {} => r \in Issued
  /\ \A w \in Workers :
       worker[w].step = "report" => worker[w].result \in answered[worker[w].task]
  /\ responseQ \in Seq(Results \cup PresenceMessage)
  /\ rspH.step # "idle" => rspH.msg \in Results
  /\ \A r \in Requests : callbackQ[r].texts \subseteq answered[r]

RowProvenance ==
  \A r \in Requests :
    /\ tasks[r].status \in {"absent", "waiting", "ready"}
    /\ api[r] = "accepted" => task_status(r) # 404
    /\ HasRow(r) => api[r] \in {"accepted", "refused"}
    /\ tasks[r].status = "ready" => tasks[r].result \in answered[r]

Provenance == RequestProvenance /\ ResultProvenance /\ RowProvenance

(* The pipeline implements the lifecycle of a task.                        *)
Lifecycle ==
  INSTANCE TaskLifecycle
    WITH published <- Issued,
         computed <- answered,
         row <- tasks,
         missed <- { r \in Requests : "no_row" \in lost[r] },
         notified <- callbackQ

(* Every step of the pipeline is a step of the abstract task lifecycle or  *)
(* leaves it unchanged: a row shows computed results only, and a callback  *)
(* only ever says what the row says, or what the row has missed.           *)
ImplementsLifecycle == Lifecycle!Spec

(*------------------------------- progress ------------------------------*)

(* Fairness: what has been started is carried on.  The event loops run     *)
(* every ready handler, RabbitMQ delivers to a live consumer, docker       *)
(* restarts the services (restart: unless-stopped), and inference returns. *)
(* Clients need not submit, and disruptions need not happen.               *)
WorkerProgress(w) ==
  /\ \/ WorkerStart(w) \/ ReceiveTask(w) \/ InferenceSucceeds(w)
     \/ ReportSuccess(w) \/ CloseWorker(w)
  /\ UNCHANGED << api, tasks, brokerVars >>

BrokerProcessProgress ==
  /\ StartBroker \/ RequeueOne \/ RequeueEnds \/ CloseBroker
  /\ UNCHANGED << api, llmVars >>

Fairness ==
  /\ \A r \in Requests :
       WF_vars(InsertTask(r) /\ UNCHANGED << brokerVars, llmVars >>)
  /\ WF_vars(RequestHandlerNext)
  /\ WF_vars(ResponseHandlerNext)
  /\ WF_vars(BrokerProcessProgress)
  /\ \A w \in Workers :
       /\ WF_vars(WorkerProgress(w))
       /\ WF_vars(Heartbeat(w) /\ UNCHANGED << api, tasks, brokerVars >>)
       /\ WF_vars(MissHeartbeats(w))

FairSpec == Spec /\ Fairness

(* Every published request comes to rest: for good, its row carries the    *)
(* outcome, a copy of it was given up, or it is in the broker's pending    *)
(* list.  No queue, handler or shutdown holds on to a request forever.     *)
ComesToRest ==
  \A r \in Requests :
    <>[](Published(r) => Settled(r) \/ r \in Held(pending_requests))

(* A row that is ready leads to a callback, unless the handler gave up.    *)
CallbackFollows ==
  \A r \in WithCallback :
    tasks[r].status = "ready" ~>
      CalledBack(r)

(* A request the broker keeps for want of a worker is served once there is *)
(* a worker: it does not stay in the pending list forever while a worker   *)
(* is registered and bound.                                                *)
PendingIsServed ==
  \A r \in Requests :
    r \in Held(pending_requests) /\ available_workers \cap bound # {}
      ~> r \notin Held(pending_requests) \/ available_workers \cap bound = {}

(* What handle exceptions in process_task is there for: a request whose    *)
(* inference raised is reported, and its row becomes failed.               *)
FailureReachesRow ==
  \A r \in Requests :
    "inference" \in lost[r] /\ api[r] = "accepted"
      ~> tasks[r].status \in {"failed", "ready"}
===============================================================================
