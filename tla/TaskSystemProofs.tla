--------------------------- MODULE TaskSystemProofs ---------------------------
(***************************************************************************)
(* Proofs about TaskSystem, for any sets of requests and workers and any   *)
(* number of disruptions.                                                  *)
(***************************************************************************)
EXTENDS TaskSystem, TLAPS

(*--------------------- operators of the environment --------------------*)

LEMMA GiveUpType ==
  ASSUME EnvTypeOK, NEW S, NEW point \in LossPoints, GiveUp(S, point)
  PROVE  lost' \in [Requests -> SUBSET LossPoints]
  BY DEF EnvTypeOK, GiveUp

LEMMA DisruptType ==
  ASSUME EnvTypeOK, NEW kind, Disrupt(kind)
  PROVE  disruptions' \in Nat
  BY DEF EnvTypeOK, Disrupt

LEMMA RouteType ==
  ASSUME RabbitMQTypeOK, NEW r \in Requests, Route(r)
  PROVE  workerQ' \in [Workers -> Seq(Requests)]
  BY DEF RabbitMQTypeOK, Route

LEMMA RecordOutcomeType ==
  ASSUME TaskServiceTypeOK, NEW m \in TaskResponse, RecordOutcome(m)
  PROVE  TaskServiceTypeOK'
<1>1. /\ m.request \in Requests
      /\ m.result \in Texts \cup {NoText}
      /\ m.status \in {"success", "failed_task"}
  BY DEF TaskResponse
<1>2. Written(m.request, IF m.status = "failed_task" THEN "failed" ELSE "ready",
              m.result) \in Row
  BY <1>1 DEF Written, Row, TaskServiceTypeOK
<1> QED
  BY <1>1, <1>2 DEF RecordOutcome, update_task, TaskServiceTypeOK

LEMMA QueueCallbackType ==
  ASSUME RabbitMQTypeOK, NEW m \in TaskResponse, QueueCallback(m)
  PROVE  callbackQ' \in [Requests -> Callbacks]
<1>1. m.request \in Requests /\ m.result \in Texts \cup {NoText}
  BY DEF TaskResponse
<1>2. callbackQ[m.request] \in Callbacks
  BY <1>1 DEF RabbitMQTypeOK
<1>3. [copies |-> callbackQ[m.request].copies + 1,
       texts |-> callbackQ[m.request].texts \cup {m.result}]
        \in Callbacks
  BY <1>1, <1>2 DEF Callbacks
<1> QED
  BY <1>3 DEF QueueCallback, RabbitMQTypeOK

(*--------------------------- type correctness --------------------------*)

LEMMA TypeInit == Init => TypeOK
<1> SUFFICES ASSUME Init PROVE TypeOK
  OBVIOUS
<1> USE DEF Init
<1>1. EnvTypeOK
  BY DEF EnvInit, EnvTypeOK
<1>2. RabbitMQTypeOK
  <2>1. callbackQ \in [Requests -> Callbacks]
    BY DEF RabbitMQInit, Callbacks
  <2> QED
    BY <2>1 DEF RabbitMQInit, RabbitMQTypeOK
<1>3. TaskServiceTypeOK
  BY DEF TaskServiceInit, TaskServiceTypeOK, NoRow, Row
<1>4. ApiTypeOK
  BY DEF ApiInit, ApiTypeOK, ApiState
<1>5. BrokerTypeOK
  BY DEF BrokerInit, BrokerTypeOK, BrokerState, ReqIdle, RspIdle, ExitIdle
<1>6. LLMWorkerTypeOK
  BY DEF LLMWorkerInit, LLMWorkerTypeOK, Idle, WorkerRecord, WorkerState
<1> QED
  BY <1>1, <1>2, <1>3, <1>4, <1>5, <1>6 DEF TypeOK

LEMMA ApiType == TypeOK /\ ApiNext => TypeOK'
<1> SUFFICES ASSUME TypeOK, UNCHANGED << brokerVars, llmVars >>,
                    NEW r \in Requests,
                    \/ SubmitTask(r) \/ SubmitPublishFails(r)
                    \/ InsertTask(r) \/ InsertTaskFails(r)
             PROVE  TypeOK'
  BY DEF ApiNext
<1> USE DEF TypeOK
<1>1. BrokerTypeOK' /\ LLMWorkerTypeOK'
  BY DEF BrokerTypeOK, LLMWorkerTypeOK, brokerVars, llmVars
<1>2. CASE SubmitTask(r)
  BY <1>1, <1>2 DEF SubmitTask, EnvTypeOK, RabbitMQTypeOK, TaskServiceTypeOK, ApiTypeOK,
     ApiState, envVars
<1>3. CASE SubmitPublishFails(r)
  <2>1. requestQ' \in Seq(Requests)
    BY <1>3 DEF SubmitPublishFails, RabbitMQTypeOK
  <2>2. api' \in [Requests -> ApiState]
    BY <1>3 DEF SubmitPublishFails, ApiTypeOK, ApiState
  <2> QED
    BY <1>1, <1>3, <2>1, <2>2 DEF SubmitPublishFails, Disrupt, EnvTypeOK,
       RabbitMQTypeOK, TaskServiceTypeOK, ApiTypeOK
<1>4. CASE InsertTask(r)
  BY <1>1, <1>4 DEF InsertTask, insert_task, EnvTypeOK, RabbitMQTypeOK, mqVars, envVars,
     TaskServiceTypeOK, Row, ApiTypeOK, ApiState
<1>5. CASE InsertTaskFails(r)
  <2>1. tasks' \in [Requests -> Row]
    BY <1>5 DEF InsertTaskFails, insert_task, TaskServiceTypeOK, Row
  <2>2. api' \in [Requests -> ApiState]
    BY <1>5 DEF InsertTaskFails, ApiTypeOK, ApiState
  <2> QED
    BY <1>1, <1>5, <2>1, <2>2, DisruptType DEF InsertTaskFails, EnvTypeOK,
       RabbitMQTypeOK, mqVars, TaskServiceTypeOK, ApiTypeOK
<1> QED
  BY <1>2, <1>3, <1>4, <1>5

LEMMA RequestHandlerType == TypeOK /\ RequestHandlerNext => TypeOK'
<1> SUFFICES ASSUME TypeOK, UNCHANGED << api, llmVars >>,
                    \/ ReceiveRequest \/ DispatchRequest
                    \/ DispatchFails \/ AckRequest
             PROVE  TypeOK'
  BY DEF RequestHandlerNext
<1> USE DEF TypeOK
<1>1. ApiTypeOK' /\ LLMWorkerTypeOK'
  BY DEF ApiTypeOK, LLMWorkerTypeOK, llmVars
<1>2. CASE ReceiveRequest
  <2>1. Head(requestQ) \in Requests /\ Tail(requestQ) \in Seq(Requests)
    BY <1>2 DEF ReceiveRequest, RabbitMQTypeOK
  <2>2. EnvTypeOK' /\ RabbitMQTypeOK' /\ TaskServiceTypeOK'
    BY <1>2, <2>1 DEF ReceiveRequest, EnvTypeOK, RabbitMQTypeOK, envVars,
       TaskServiceTypeOK
  <2>3. available_workers' \subseteq Workers /\ overdue' \subseteq available_workers'
    BY <1>2 DEF ReceiveRequest, BrokerTypeOK
  <2>4. pending_requests' \in Seq(Requests)
    <3>1. \/ pending_requests' = pending_requests
          \/ pending_requests' = Append(pending_requests, Head(requestQ))
      BY <1>2 DEF ReceiveRequest, KeepOrPublish
    <3>2. pending_requests \in Seq(Requests)
      BY DEF BrokerTypeOK
    <3>3. Append(pending_requests, Head(requestQ)) \in Seq(Requests)
      BY <2>1, <3>2
    <3> QED
      BY <3>1, <3>2, <3>3
  <2>5. reqH' \in [step : {"publish", "ack"}, request : Requests]
    <3>1. \E step \in {"publish", "ack"} :
            reqH' = [step |-> step, request |-> Head(requestQ)]
      BY <1>2 DEF ReceiveRequest, KeepOrPublish
    <3> QED
      BY <2>1, <3>1
  <2>6. BrokerTypeOK'
    BY <1>2, <2>3, <2>4, <2>5 DEF ReceiveRequest, BrokerTypeOK
  <2> QED
    BY <1>1, <2>2, <2>6
<1>3. CASE DispatchRequest
  <2>1. reqH.request \in Requests /\ reqH'.step = "ack"
        /\ reqH'.request = reqH.request /\ reqH' \in [step : {"ack"}, request : Requests]
    BY <1>3 DEF DispatchRequest, BrokerTypeOK, ReqIdle
  <2>2. lost' \in [Requests -> SUBSET LossPoints]
    BY <1>3, GiveUpType DEF DispatchRequest, NotRouted, LossPoints
  <2>3. EnvTypeOK'
    BY <1>3, <2>2 DEF DispatchRequest, EnvTypeOK
  <2>4. RabbitMQTypeOK'
    BY <1>3, <2>1, RouteType DEF DispatchRequest, RabbitMQTypeOK
  <2>5. TaskServiceTypeOK' /\ BrokerTypeOK'
    BY <1>3, <2>1 DEF DispatchRequest, TaskServiceTypeOK, BrokerTypeOK
  <2> QED
    BY <1>1, <2>3, <2>4, <2>5
<1>4. CASE DispatchFails
  <2>1. reqH' \in [step : {"ack"}, request : Requests]
    BY <1>4 DEF DispatchFails, BrokerTypeOK, ReqIdle
  <2>2. EnvTypeOK'
    BY <1>4, GiveUpType, DisruptType DEF DispatchFails, LossPoints, EnvTypeOK
  <2>3. RabbitMQTypeOK' /\ TaskServiceTypeOK' /\ BrokerTypeOK'
    BY <1>4, <2>1 DEF DispatchFails, RabbitMQTypeOK, mqVars, TaskServiceTypeOK,
       BrokerTypeOK
  <2> QED
    BY <1>1, <2>2, <2>3
<1>5. CASE AckRequest
  BY <1>1, <1>5 DEF AckRequest, EnvTypeOK, envVars, RabbitMQTypeOK, mqVars,
     TaskServiceTypeOK, BrokerTypeOK
<1> QED
  BY <1>2, <1>3, <1>4, <1>5

LEMMA ResponseHandlerType == TypeOK /\ ResponseHandlerNext => TypeOK'
<1> SUFFICES ASSUME TypeOK, UNCHANGED << api, llmVars >>,
                    \/ ReceiveResponse \/ UpdateTask \/ UpdateTaskFails
                    \/ PublishCallback \/ PublishCallbackFails
                    \/ DrainDispatch \/ DrainFails \/ DrainEnds \/ AckResponse
             PROVE  TypeOK'
  BY DEF ResponseHandlerNext
<1> USE DEF TypeOK
<1>1. ApiTypeOK' /\ LLMWorkerTypeOK'
  BY DEF ApiTypeOK, LLMWorkerTypeOK, llmVars
<1> DEFINE Busy == [step : {"update", "callback", "drain", "ack"},
                    msg : TaskResponse, idx : Nat \ {0}]
<1>2. rspH.step # "idle" => rspH \in Busy /\ rspH.msg.request \in Requests
  BY DEF BrokerTypeOK, RspIdle, TaskResponse
<1>3. CASE ReceiveResponse
  <2> DEFINE m == Head(responseQ)
  <2>1. m \in Response /\ Tail(responseQ) \in Seq(Response)
    BY <1>3 DEF ReceiveResponse, RabbitMQTypeOK
  <2>2. m.worker \in Workers /\ (m.status \in {"success", "failed_task"} => m \in TaskResponse)
    BY <2>1 DEF Response, TaskResponse, PresenceMessage
  <2>3. EnvTypeOK' /\ RabbitMQTypeOK' /\ TaskServiceTypeOK'
    BY <1>3, <2>1 DEF ReceiveResponse, EnvTypeOK, RabbitMQTypeOK, envVars,
       TaskServiceTypeOK
  <2>4. available_workers' \subseteq Workers /\ overdue' \subseteq available_workers'
    BY <1>3, <2>2 DEF ReceiveResponse, Register, BrokerTypeOK
  <2>5. rspH' \in {RspIdle} \cup Busy
    BY <1>3, <2>2 DEF ReceiveResponse
  <2>6. BrokerTypeOK'
    BY <1>3, <2>4, <2>5 DEF ReceiveResponse, BrokerTypeOK
  <2> QED
    BY <1>1, <2>3, <2>6
<1>4. CASE UpdateTask
  <2>1. EnvTypeOK'
    BY <1>4, GiveUpType DEF UpdateTask, LossPoints, EnvTypeOK
  <2>2. TaskServiceTypeOK'
    BY <1>2, <1>4, RecordOutcomeType DEF UpdateTask
  <2>3. rspH' \in Busy
    BY <1>2, <1>4 DEF UpdateTask, AfterUpdate
  <2>4. RabbitMQTypeOK' /\ BrokerTypeOK'
    BY <1>4, <2>3 DEF UpdateTask, RabbitMQTypeOK, mqVars, BrokerTypeOK
  <2> QED
    BY <1>1, <2>1, <2>2, <2>4
<1>5. CASE UpdateTaskFails
  <2>1. EnvTypeOK'
    BY <1>5, GiveUpType, DisruptType DEF UpdateTaskFails, LossPoints, EnvTypeOK
  <2>2. rspH' \in Busy
    BY <1>2, <1>5 DEF UpdateTaskFails
  <2>3. TaskServiceTypeOK'
    BY <1>2, <1>5, RecordOutcomeType DEF UpdateTaskFails, TaskServiceTypeOK
  <2>4. RabbitMQTypeOK' /\ BrokerTypeOK'
    BY <1>5, <2>2 DEF UpdateTaskFails, RabbitMQTypeOK, mqVars, BrokerTypeOK
  <2> QED
    BY <1>1, <2>1, <2>3, <2>4
<1>6. CASE PublishCallback
  <2>1. rspH' \in Busy
    BY <1>2, <1>6 DEF PublishCallback
  <2>2. callbackQ' \in [Requests -> Callbacks]
    BY <1>2, <1>6, QueueCallbackType DEF PublishCallback
  <2>3. BrokerTypeOK'
    BY <1>6, <2>1 DEF PublishCallback, BrokerTypeOK
  <2>4. EnvTypeOK' /\ RabbitMQTypeOK' /\ TaskServiceTypeOK'
    BY <1>6, <2>2 DEF PublishCallback, EnvTypeOK, envVars, RabbitMQTypeOK,
       TaskServiceTypeOK
  <2> QED
    BY <1>1, <2>3, <2>4
<1>7. CASE PublishCallbackFails
  <2>1. EnvTypeOK'
    BY <1>7, GiveUpType, DisruptType
       DEF PublishCallbackFails, LossPoints, EnvTypeOK
  <2>2. rspH' \in Busy
    BY <1>2, <1>7 DEF PublishCallbackFails
  <2>3. callbackQ' \in [Requests -> Callbacks]
    BY <1>2, <1>7, QueueCallbackType DEF PublishCallbackFails, RabbitMQTypeOK
  <2>4. RabbitMQTypeOK' /\ TaskServiceTypeOK' /\ BrokerTypeOK'
    BY <1>7, <2>2, <2>3 DEF PublishCallbackFails, RabbitMQTypeOK,
       TaskServiceTypeOK, BrokerTypeOK
  <2> QED
    BY <1>1, <2>1, <2>4
<1>8. CASE DrainDispatch
  <2>1. rspH \in Busy /\ rspH.idx \in 1 .. Len(pending_requests)
    BY <1>2, <1>8 DEF DrainDispatch, Draining, BrokerTypeOK
  <2>2. pending_requests[rspH.idx] \in Requests
    BY <2>1 DEF BrokerTypeOK
  <2>3. EnvTypeOK'
    BY <1>8, GiveUpType DEF DrainDispatch, NotRouted, LossPoints, EnvTypeOK
  <2>4. RabbitMQTypeOK'
    BY <1>8, <2>2, RouteType DEF DrainDispatch, RabbitMQTypeOK
  <2>5. rspH' \in Busy
    BY <1>8, <2>1 DEF DrainDispatch
  <2>6. TaskServiceTypeOK' /\ BrokerTypeOK'
    BY <1>8, <2>5 DEF DrainDispatch, TaskServiceTypeOK, BrokerTypeOK
  <2> QED
    BY <1>1, <2>3, <2>4, <2>6
<1>9. CASE DrainFails
  <2>1. rspH' \in Busy
    BY <1>2, <1>9 DEF DrainFails, Draining
  <2>2. workerQ' \in [Workers -> Seq(Requests)]
    <3>1. rspH.idx \in 1 .. Len(pending_requests)
      BY <1>2, <1>9 DEF DrainFails, Draining, BrokerTypeOK
    <3>2. pending_requests[rspH.idx] \in Requests
      BY <3>1 DEF BrokerTypeOK
    <3> QED
      BY <1>9, <3>2, RouteType DEF DrainFails, RabbitMQTypeOK
  <2>3. EnvTypeOK' /\ RabbitMQTypeOK' /\ TaskServiceTypeOK'
    BY <1>9, <2>2, DisruptType DEF DrainFails, EnvTypeOK, RabbitMQTypeOK,
       TaskServiceTypeOK
  <2>4. BrokerTypeOK'
    BY <1>9, <2>1 DEF DrainFails, BrokerTypeOK
  <2> QED
    BY <1>1, <2>3, <2>4
<1>10. CASE DrainEnds
  <2>1. rspH \in Busy /\ rspH' \in Busy
    BY <1>2, <1>10 DEF DrainEnds
  <2>2. pending_requests' \in Seq(Requests)
    BY <1>10, <2>1 DEF DrainEnds, Remaining, BrokerTypeOK
  <2>3. exitH' \in [idx : Nat \ {0}, detached : BOOLEAN, list : Seq(Requests)]
    BY <1>10 DEF DrainEnds, BrokerTypeOK
  <2>4. EnvTypeOK' /\ RabbitMQTypeOK' /\ TaskServiceTypeOK'
    BY <1>10 DEF DrainEnds, EnvTypeOK, envVars, RabbitMQTypeOK, mqVars,
       TaskServiceTypeOK
  <2>5. BrokerTypeOK'
    BY <1>10, <2>1, <2>2, <2>3 DEF DrainEnds, BrokerTypeOK
  <2> QED
    BY <1>1, <2>4, <2>5
<1>11. CASE AckResponse
  BY <1>1, <1>11 DEF AckResponse, EnvTypeOK, envVars, RabbitMQTypeOK, mqVars,
     TaskServiceTypeOK, BrokerTypeOK
<1> QED
  BY <1>3, <1>4, <1>5, <1>6, <1>7, <1>8, <1>9, <1>10, <1>11

LEMMA ExitType ==
  ASSUME TypeOK, Exit
  PROVE  /\ lost' \in [Requests -> SUBSET LossPoints]
         /\ RabbitMQTypeOK' /\ TaskServiceTypeOK' /\ BrokerTypeOK'
<1> USE DEF TypeOK
<1>1. lost' \in [Requests -> SUBSET LossPoints]
  BY GiveUpType DEF Exit, LossPoints
<1>2. requestQ' \in Seq(Requests)
  <2>1. reqH.step # "idle" => << reqH.request >> \in Seq(Requests)
    BY DEF BrokerTypeOK, ReqIdle
  <2> QED
    BY <2>1 DEF Exit, Redelivered, RabbitMQTypeOK
<1>3. responseQ' \in Seq(Response)
  <2>1. rspH.step # "idle" => << rspH.msg >> \in Seq(Response)
    BY DEF BrokerTypeOK, RspIdle, Response
  <2> QED
    BY <2>1 DEF Exit, Redelivered, RabbitMQTypeOK
<1>4. RabbitMQTypeOK' /\ TaskServiceTypeOK'
  BY <1>2, <1>3 DEF Exit, RabbitMQTypeOK, TaskServiceTypeOK
<1>5. BrokerTypeOK'
  BY DEF Exit, BrokerTypeOK, BrokerState, ReqIdle, RspIdle, ExitIdle
<1> QED
  BY <1>1, <1>4, <1>5

LEMMA BrokerProcessType == TypeOK /\ BrokerProcessNext => TypeOK'
<1> SUFFICES ASSUME TypeOK, UNCHANGED << api, llmVars >>,
                    \/ StartBroker \/ StopBroker \/ RequeueOne \/ RequeueFails
                    \/ RequeueEnds \/ CloseBroker \/ BrokerCrash
             PROVE  TypeOK'
  BY DEF BrokerProcessNext
<1> USE DEF TypeOK
<1>1. ApiTypeOK' /\ LLMWorkerTypeOK'
  BY DEF ApiTypeOK, LLMWorkerTypeOK, llmVars
<1>2. CASE StartBroker
  BY <1>1, <1>2 DEF StartBroker, EnvTypeOK, envVars, RabbitMQTypeOK, mqVars,
     TaskServiceTypeOK, BrokerTypeOK, BrokerState
<1>3. CASE StopBroker
  BY <1>1, <1>3, DisruptType DEF StopBroker, EnvTypeOK, RabbitMQTypeOK, mqVars,
     TaskServiceTypeOK, BrokerTypeOK, BrokerState
<1>4. exitH.idx <= Len(RequeueList) => RequeueList[exitH.idx] \in Requests
  <2>1. RequeueList \in Seq(Requests) /\ exitH.idx \in Nat \ {0}
    BY DEF BrokerTypeOK, RequeueList
  <2> QED
    BY <2>1
<1> DEFINE ExitRecord == [idx : Nat \ {0}, detached : BOOLEAN, list : Seq(Requests)]
<1>5. exitH \in ExitRecord /\ [exitH EXCEPT !.idx = @ + 1] \in ExitRecord
  <2>1. exitH \in ExitRecord
    BY DEF BrokerTypeOK
  <2>2. exitH.idx + 1 \in Nat \ {0}
    BY <2>1
  <2> HIDE DEF BrokerTypeOK
  <2> QED
    BY <2>1, <2>2
<1>6. CASE RequeueOne
  <2>1. BrokerTypeOK'
    BY <1>6, <1>5 DEF RequeueOne, BrokerTypeOK
  <2> QED
    BY <1>1, <1>4, <1>6, <2>1 DEF RequeueOne, EnvTypeOK, envVars, RabbitMQTypeOK,
       TaskServiceTypeOK
<1>7. CASE RequeueFails
  <2>1. EnvTypeOK'
    BY <1>7, GiveUpType, DisruptType DEF RequeueFails, LossPoints, EnvTypeOK
  <2>2. RabbitMQTypeOK' /\ TaskServiceTypeOK' /\ BrokerTypeOK'
    BY <1>7, <1>5 DEF RequeueFails, RabbitMQTypeOK, mqVars, TaskServiceTypeOK, BrokerTypeOK
  <2> QED
    BY <1>1, <2>1, <2>2
<1>8. CASE RequeueEnds
  BY <1>1, <1>8 DEF RequeueEnds, EnvTypeOK, envVars, RabbitMQTypeOK, mqVars,
     TaskServiceTypeOK, BrokerTypeOK, BrokerState, ExitIdle
<1>9. CASE CloseBroker
  BY <1>1, <1>9, ExitType DEF CloseBroker, EnvTypeOK
<1>10. CASE BrokerCrash
  BY <1>1, <1>10, ExitType, DisruptType DEF BrokerCrash, EnvTypeOK
<1> QED
  BY <1>2, <1>3, <1>6, <1>7, <1>8, <1>9, <1>10

LEMMA DisconnectType ==
  ASSUME TypeOK, NEW w \in Workers, Disconnect(w)
  PROVE  /\ lost' \in [Requests -> SUBSET LossPoints]
         /\ RabbitMQTypeOK' /\ LLMWorkerTypeOK'
<1> USE DEF TypeOK
<1>1. lost' \in [Requests -> SUBSET LossPoints]
  BY GiveUpType DEF Disconnect, LossPoints
<1>2. RabbitMQTypeOK'
  BY DEF Disconnect, DeleteExclusive, RabbitMQTypeOK
<1>3. LLMWorkerTypeOK'
  BY DEF Disconnect, LLMWorkerTypeOK, Idle, WorkerRecord, WorkerState
<1> QED
  BY <1>1, <1>2, <1>3

LEMMA RespondType ==
  ASSUME RabbitMQTypeOK, NEW m \in Response, Respond(m)
  PROVE  responseQ' \in Seq(Response)
  BY DEF RabbitMQTypeOK, Respond

LEMMA LLMWorkerType == TypeOK /\ LLMWorkerNext => TypeOK'
<1> SUFFICES ASSUME TypeOK, UNCHANGED << api, tasks, brokerVars >>,
                    NEW w \in Workers,
                    \/ WorkerStart(w) \/ Heartbeat(w) \/ ReceiveTask(w)
                    \/ InferenceSucceeds(w) \/ InferenceFails(w)
                    \/ ReportSuccess(w) \/ ReportFails(w)
                    \/ SendShutdown(w) \/ CloseWorker(w) \/ WorkerCrash(w)
             PROVE  TypeOK'
  BY DEF LLMWorkerNext
<1> USE DEF TypeOK
<1>1. ApiTypeOK' /\ TaskServiceTypeOK' /\ BrokerTypeOK'
  BY DEF ApiTypeOK, TaskServiceTypeOK, BrokerTypeOK, brokerVars
<1>2. /\ worker[w] \in WorkerRecord
      /\ worker[w].step # "idle" => /\ worker[w].task \in Requests
                                    /\ worker[w].state \in {"up", "stopping"}
      /\ worker[w].step = "report" => worker[w].result \in Texts
      /\ worker[w].step # "report" => worker[w].result = NoText
      /\ worker[w].step = "idle" => worker[w].task = NoRequest
      /\ worker[w].state \in WorkerState
  BY DEF LLMWorkerTypeOK, WorkerRecord, WorkerState
<1>3. CASE WorkerStart(w)
  <2>1. worker' \in [Workers -> WorkerRecord]
    BY <1>2, <1>3 DEF WorkerStart, LLMWorkerTypeOK, WorkerRecord, WorkerState
  <2>2. LLMWorkerTypeOK'
    BY <1>3, <2>1 DEF WorkerStart, LLMWorkerTypeOK
  <2> QED
    BY <1>1, <1>3, <2>2 DEF WorkerStart, DeclareAndBind, EnvTypeOK, envVars,
       RabbitMQTypeOK
<1>4. CASE Heartbeat(w)
  <2>1. Presence("heartbeat", w) \in Response
    BY DEF Presence, Msg, Response, PresenceMessage
  <2> QED
    BY <1>1, <1>4, <2>1, RespondType DEF Heartbeat, EnvTypeOK, envVars,
       RabbitMQTypeOK, LLMWorkerTypeOK, llmVars
<1>5. CASE ReceiveTask(w)
  <2>1. Head(workerQ[w]) \in Requests /\ Tail(workerQ[w]) \in Seq(Requests)
    BY <1>5 DEF ReceiveTask, RabbitMQTypeOK
  <2>2. worker' \in [Workers -> WorkerRecord]
    BY <1>2, <1>5, <2>1 DEF ReceiveTask, Consuming, LLMWorkerTypeOK, WorkerRecord
  <2> QED
    BY <1>1, <1>5, <2>1, <2>2 DEF ReceiveTask, EnvTypeOK, envVars, RabbitMQTypeOK,
       LLMWorkerTypeOK
<1>6. CASE InferenceSucceeds(w)
  <2> PICK t \in Texts :
        /\ answered' = [answered EXCEPT ![worker[w].task] = @ \cup {t}]
        /\ worker' = [worker EXCEPT ![w].step = "report", ![w].result = t]
    BY <1>6 DEF InferenceSucceeds
  <2>1. worker' \in [Workers -> WorkerRecord]
    BY <1>2, <1>6 DEF InferenceSucceeds, LLMWorkerTypeOK, WorkerRecord
  <2>2. answered' \in [Requests -> SUBSET Texts]
    BY DEF LLMWorkerTypeOK
  <2> QED
    BY <1>1, <1>6, <2>1, <2>2 DEF InferenceSucceeds, EnvTypeOK, envVars,
       RabbitMQTypeOK, mqVars, LLMWorkerTypeOK
<1>7. Finish(w) => worker' \in [Workers -> WorkerRecord]
  <2>1. Idle(worker[w].state) \in WorkerRecord
    BY <1>2 DEF Idle, WorkerRecord
  <2> QED
    BY <2>1 DEF Finish, LLMWorkerTypeOK
<1>8. CASE InferenceFails(w)
  <2>1. EnvTypeOK'
    BY <1>8, GiveUpType, DisruptType DEF InferenceFails, LossPoints, EnvTypeOK
  <2> QED
    BY <1>1, <1>7, <1>8, <2>1 DEF InferenceFails, RabbitMQTypeOK, mqVars,
       LLMWorkerTypeOK
<1>9. CASE ReportSuccess(w)
  <2>1. Msg("success", w, worker[w].task, worker[w].result) \in Response
    BY <1>2, <1>9 DEF ReportSuccess, Msg, Response, TaskResponse
  <2> QED
    BY <1>1, <1>7, <1>9, <2>1, RespondType DEF ReportSuccess, EnvTypeOK, envVars,
       RabbitMQTypeOK, LLMWorkerTypeOK
<1>10. CASE ReportFails(w)
  <2>1. EnvTypeOK'
    BY <1>10, GiveUpType, DisruptType DEF ReportFails, LossPoints, EnvTypeOK
  <2> QED
    BY <1>1, <1>7, <1>10, <2>1 DEF ReportFails, RabbitMQTypeOK, mqVars,
       LLMWorkerTypeOK
<1>11. CASE SendShutdown(w)
  <2>1. Presence("shutdown", w) \in Response
    BY DEF Presence, Msg, Response, PresenceMessage
  <2>2. worker' \in [Workers -> WorkerRecord]
    BY <1>2, <1>11 DEF SendShutdown, LLMWorkerTypeOK, WorkerRecord, WorkerState
  <2> QED
    BY <1>1, <1>11, <2>1, <2>2, RespondType, DisruptType
       DEF SendShutdown, EnvTypeOK, RabbitMQTypeOK, LLMWorkerTypeOK
<1>12. CASE CloseWorker(w)
  BY <1>1, <1>12, DisconnectType DEF CloseWorker, EnvTypeOK
<1>13. CASE WorkerCrash(w)
  BY <1>1, <1>13, DisconnectType, DisruptType DEF WorkerCrash, EnvTypeOK
<1> QED
  BY <1>3, <1>4, <1>5, <1>6, <1>8, <1>9, <1>10, <1>11, <1>12, <1>13

LEMMA MissHeartbeatsType ==
  ASSUME TypeOK, NEW w \in Workers, MissHeartbeats(w)
  PROVE  TypeOK'
  BY DisruptType DEF TypeOK, MissHeartbeats, EnvTypeOK, RabbitMQTypeOK, mqVars,
     TaskServiceTypeOK, ApiTypeOK, BrokerTypeOK, LLMWorkerTypeOK, llmVars

LEMMA TypeStep == TypeOK /\ [Next]_vars => TypeOK'
<1>1. TypeOK /\ UNCHANGED vars => TypeOK'
  BY DEF vars, TypeOK, EnvTypeOK, envVars, RabbitMQTypeOK, mqVars,
     TaskServiceTypeOK, ApiTypeOK, BrokerTypeOK, brokerVars, LLMWorkerTypeOK, llmVars
<1> QED
  BY <1>1, ApiType, RequestHandlerType, ResponseHandlerType, BrokerProcessType,
     LLMWorkerType, MissHeartbeatsType DEF Next

(* Every variable keeps its type: in particular a handler that is not idle *)
(* holds a message that names a request, and the registry's overdue        *)
(* workers are registered.                                                 *)
THEOREM TypeCorrect == Spec => []TypeOK
  BY TypeInit, TypeStep, PTL DEF Spec

(*------------------------------ provenance -----------------------------*)

LEMMA SeqMonotone ==
  ASSUME NEW S, NEW T, S \subseteq T
  PROVE  Seq(S) \subseteq Seq(T)
  OBVIOUS

LEMMA AppendInSeq ==
  ASSUME NEW S, NEW s \in Seq(S), NEW e \in S
  PROVE  Append(s, e) \in Seq(S)
  OBVIOUS

LEMMA ProvenanceInit == Init => Provenance
  BY DEF Init, EnvInit, RabbitMQInit, TaskServiceInit, ApiInit, BrokerInit,
     LLMWorkerInit, Idle, Provenance, RequestProvenance, ResultProvenance,
     RowProvenance, ReqIdle, RspIdle, ExitIdle, NoRow, HasRow, task_status

LEMMA ProvenanceApi == TypeOK /\ Provenance /\ ApiNext => Provenance'
<1> SUFFICES ASSUME TypeOK, Provenance, UNCHANGED << brokerVars, llmVars >>,
                    NEW r \in Requests,
                    \/ SubmitTask(r) \/ SubmitPublishFails(r)
                    \/ InsertTask(r) \/ InsertTaskFails(r)
             PROVE  Provenance'
  BY DEF ApiNext
<1> USE DEF Provenance
<1>1. /\ Issued \subseteq Issued'
      /\ \/ requestQ' = requestQ
         \/ requestQ' = Append(requestQ, r) /\ r \in Issued'
  BY DEF Issued, Published, SubmitTask, SubmitPublishFails, InsertTask,
     InsertTaskFails, mqVars, TypeOK, ApiTypeOK
<1>2. Seq(Issued) \subseteq Seq(Issued')
  BY <1>1, SeqMonotone
<1>3. requestQ' \in Seq(Issued')
  <2>1. requestQ \in Seq(Issued')
    BY <1>2 DEF RequestProvenance
  <2> HIDE DEF Issued
  <2> QED
    BY <1>1, <2>1, AppendInSeq
<1>4. UNCHANGED << responseQ, callbackQ, workerQ, bound >>
  BY DEF SubmitTask, SubmitPublishFails, InsertTask, InsertTaskFails, mqVars
<1>5. RequestProvenance'
  BY <1>1, <1>2, <1>3, <1>4 DEF RequestProvenance, brokerVars, llmVars
<1>6. ResultProvenance'
  BY <1>1, <1>4 DEF ResultProvenance, Results, brokerVars, llmVars
<1>7. RowProvenance'
  BY DEF RowProvenance, HasRow, task_status, SubmitTask, SubmitPublishFails, InsertTask,
     InsertTaskFails, insert_task, mqVars, llmVars, TypeOK, ApiTypeOK,
     TaskServiceTypeOK
<1> QED
  BY <1>5, <1>6, <1>7

LEMMA ProvenanceRequestHandler ==
  TypeOK /\ Provenance /\ RequestHandlerNext => Provenance'
<1> SUFFICES ASSUME TypeOK, Provenance, UNCHANGED << api, llmVars >>,
                    \/ ReceiveRequest \/ DispatchRequest
                    \/ DispatchFails \/ AckRequest
             PROVE  Provenance'
  BY DEF RequestHandlerNext
<1> USE DEF Provenance
<1>1. UNCHANGED << tasks, responseQ, callbackQ, rspH, exitH >>
  BY DEF ReceiveRequest, DispatchRequest, DispatchFails, AckRequest, mqVars
<1>2. Issued' = Issued
  BY DEF Issued, Published
<1>3. ResultProvenance' /\ RowProvenance'
  BY <1>1, <1>2 DEF ResultProvenance, RowProvenance, Results, HasRow, task_status, llmVars
<1>4. RequestProvenance'
  <2> HIDE DEF Issued
  <2>1. CASE ReceiveRequest
    <3>1. Head(requestQ) \in Issued /\ Tail(requestQ) \in Seq(Issued)
      BY <2>1 DEF ReceiveRequest, RequestProvenance
    <3>2. \/ pending_requests' = pending_requests
          \/ pending_requests' = Append(pending_requests, Head(requestQ))
      BY <2>1 DEF ReceiveRequest, KeepOrPublish
    <3>3. pending_requests' \in Seq(Issued)
      <4>1. pending_requests \in Seq(Issued)
        BY DEF RequestProvenance
      <4> QED
        BY <3>1, <3>2, <4>1, AppendInSeq
    <3>4. reqH'.request = Head(requestQ)
      BY <2>1 DEF ReceiveRequest, KeepOrPublish
    <3> QED
      BY <1>1, <1>2, <2>1, <3>1, <3>3, <3>4
         DEF ReceiveRequest, RequestProvenance, llmVars
  <2>2. CASE DispatchRequest
    <3>1. reqH.request \in Issued /\ reqH'.request = reqH.request
      BY <2>2 DEF DispatchRequest, RequestProvenance, TypeOK, BrokerTypeOK, ReqIdle
    <3>2. workerQ' \in [Workers -> Seq(Issued)]
      BY <2>2, <3>1 DEF DispatchRequest, Route, RequestProvenance
    <3> QED
      BY <1>1, <1>2, <2>2, <3>1, <3>2 DEF DispatchRequest, RequestProvenance, llmVars
  <2>3. CASE DispatchFails
    <3>1. reqH.request \in Issued /\ reqH'.request = reqH.request
      BY <2>3 DEF DispatchFails, RequestProvenance, TypeOK, BrokerTypeOK, ReqIdle
    <3> QED
      BY <1>1, <1>2, <2>3, <3>1 DEF DispatchFails, RequestProvenance, mqVars, llmVars
  <2>4. CASE AckRequest
    BY <1>1, <1>2, <2>4 DEF AckRequest, ReqIdle, RequestProvenance, mqVars, llmVars
  <2> QED
    BY <2>1, <2>2, <2>3, <2>4
<1> QED
  BY <1>3, <1>4

LEMMA ProvenanceResponseHandler ==
  TypeOK /\ Provenance /\ ResponseHandlerNext => Provenance'
<1> SUFFICES ASSUME TypeOK, Provenance, UNCHANGED << api, llmVars >>,
                    \/ ReceiveResponse \/ UpdateTask \/ UpdateTaskFails
                    \/ PublishCallback \/ PublishCallbackFails
                    \/ DrainDispatch \/ DrainFails \/ DrainEnds \/ AckResponse
             PROVE  Provenance'
  BY DEF ResponseHandlerNext
<1> USE DEF Provenance
<1>1. UNCHANGED << requestQ, reqH >>
  BY DEF ReceiveResponse, UpdateTask, UpdateTaskFails, PublishCallback,
     PublishCallbackFails, DrainDispatch, DrainFails, DrainEnds, AckResponse, mqVars
<1>2. Issued' = Issued /\ Results' = Results
  BY DEF Issued, Published, Results, llmVars
<1>3. rspH.step # "idle" => /\ rspH.msg \in Results
                            /\ rspH.msg.request \in Requests
                            /\ rspH.msg.status = "success"
                            /\ rspH.msg.result \in answered[rspH.msg.request]
  BY DEF ResultProvenance, Results, TaskResponse
<1>4. RequestProvenance'
  <2> HIDE DEF Issued
  <2>1. CASE DrainDispatch \/ DrainFails
    <3>1. pending_requests[rspH.idx] \in Issued
      <4>1. rspH.idx \in 1 .. Len(pending_requests)
        BY <2>1 DEF DrainDispatch, DrainFails, Draining, TypeOK, BrokerTypeOK, RspIdle
      <4> QED
        BY <4>1 DEF RequestProvenance
    <3>2. workerQ' \in [Workers -> Seq(Issued)]
      <4>1. workerQ' = workerQ \/ Route(pending_requests[rspH.idx])
        BY <2>1 DEF DrainDispatch, DrainFails
      <4>2. \A w \in Workers :
              /\ workerQ[w] \in Seq(Issued)
              /\ Append(workerQ[w], pending_requests[rspH.idx]) \in Seq(Issued)
        BY <3>1, AppendInSeq DEF RequestProvenance
      <4> QED
        BY <4>1, <4>2 DEF Route, RequestProvenance
    <3> QED
      BY <1>1, <1>2, <2>1, <3>2 DEF DrainDispatch, DrainFails, RequestProvenance,
         llmVars
  <2>2. CASE DrainEnds
    <3>1. rspH.idx \in Nat \ {0}
      BY DEF TypeOK, BrokerTypeOK, RspIdle
    <3>2. pending_requests' \in Seq(Issued)
      BY <2>2, <3>1 DEF DrainEnds, Remaining, RequestProvenance
    <3>3. exitH'.list = exitH.list \/ exitH'.list = pending_requests
      BY <2>2 DEF DrainEnds, TypeOK, BrokerTypeOK
    <3>4. exitH'.list \in Seq(Issued)
      BY <3>3 DEF RequestProvenance
    <3> QED
      BY <1>1, <1>2, <2>2, <3>2, <3>4 DEF DrainEnds, RequestProvenance, mqVars, llmVars
  <2>3. CASE ~DrainDispatch /\ ~DrainFails /\ ~DrainEnds
    BY <1>1, <1>2, <2>3 DEF ReceiveResponse, UpdateTask, UpdateTaskFails,
       PublishCallback, PublishCallbackFails, AckResponse, mqVars,
       llmVars, RequestProvenance
  <2> QED
    BY <2>1, <2>2, <2>3
<1>5. ResultProvenance'
  <2>1. responseQ' \in Seq(Results \cup PresenceMessage)
        /\ (rspH'.step # "idle" => rspH'.msg \in Results)
    <3> HIDE DEF Results
    <3>1. CASE ReceiveResponse
      <4>1. /\ Head(responseQ) \in Results \cup PresenceMessage
            /\ Tail(responseQ) \in Seq(Results \cup PresenceMessage)
        BY <3>1 DEF ReceiveResponse, ResultProvenance
      <4>2. Head(responseQ).status \in {"success", "failed_task"} =>
              Head(responseQ) \in Results
        BY <4>1 DEF PresenceMessage
      <4> QED
        BY <3>1, <4>1, <4>2 DEF ReceiveResponse, RspIdle
    <3>2. CASE AckResponse
      BY <3>2 DEF AckResponse, RspIdle, ResultProvenance, mqVars
    <3>3. CASE ~ReceiveResponse /\ ~AckResponse
      <4>1. rspH.step # "idle" /\ responseQ' = responseQ
        BY <3>3 DEF UpdateTask, UpdateTaskFails, PublishCallback,
           PublishCallbackFails, DrainDispatch, DrainFails, DrainEnds, Draining,
           mqVars
      <4>2. rspH \in [step : {"update", "callback", "drain", "ack"},
                      msg : TaskResponse, idx : Nat \ {0}]
        BY <4>1 DEF TypeOK, BrokerTypeOK, RspIdle
      <4>3. \/ \E step : rspH' = [rspH EXCEPT !.step = step]
            \/ rspH' = [rspH EXCEPT !.idx = @ + 1]
        BY <3>3 DEF UpdateTask, UpdateTaskFails, PublishCallback,
           PublishCallbackFails, DrainDispatch, DrainFails, DrainEnds
      <4>4. rspH'.msg = rspH.msg
        BY <4>2, <4>3
      <4> QED
        BY <1>3, <4>1, <4>4 DEF ResultProvenance
    <3> QED
      BY <3>1, <3>2, <3>3
  <2>2. \A r \in Requests : callbackQ'[r].texts \subseteq answered[r]
    <3>1. CASE QueueCallback(rspH.msg) /\ rspH.step # "idle"
      BY <1>3, <3>1 DEF QueueCallback, ResultProvenance, TypeOK, RabbitMQTypeOK
    <3>2. CASE callbackQ' = callbackQ
      BY <3>2 DEF ResultProvenance
    <3> QED
      BY <3>1, <3>2 DEF ReceiveResponse, UpdateTask, UpdateTaskFails,
         PublishCallback, PublishCallbackFails, DrainDispatch, DrainFails,
         DrainEnds, AckResponse, mqVars
  <2> QED
    BY <1>2, <2>1, <2>2 DEF ResultProvenance, llmVars
<1>6. RowProvenance'
  <2>1. CASE RecordOutcome(rspH.msg) /\ rspH.step # "idle"
    <3>1. update_task(rspH.msg.request, "ready", rspH.msg.result)
      BY <1>3, <2>1 DEF RecordOutcome
    <3> QED
      BY <1>3, <2>1, <3>1 DEF update_task, Written, RowProvenance, HasRow, task_status, llmVars,
         TypeOK, TaskServiceTypeOK
  <2>2. CASE tasks' = tasks
    BY <2>2 DEF RowProvenance, HasRow, task_status, llmVars
  <2> QED
    BY <2>1, <2>2 DEF ReceiveResponse, UpdateTask, UpdateTaskFails,
       PublishCallback, PublishCallbackFails, DrainDispatch, DrainFails,
       DrainEnds, AckResponse
<1> QED
  BY <1>4, <1>5, <1>6

(* What a dead broker's connection puts back at the head of a queue.       *)
LEMMA PutBackInSeq ==
  ASSUME NEW S, NEW s \in Seq(S), NEW e \in S
  PROVE  << e >> \o s \in Seq(S)
  OBVIOUS

LEMMA ProvenanceExit == TypeOK /\ Provenance /\ Exit
                          /\ UNCHANGED << api, llmVars >> => Provenance'
<1> SUFFICES ASSUME TypeOK, Provenance, Exit, UNCHANGED << api, llmVars >>
             PROVE  Provenance'
  OBVIOUS
<1> USE DEF Provenance
<1>1. Issued' = Issued /\ Results' = Results
  BY DEF Issued, Published, Results, llmVars
<1>2. RequestProvenance'
  <2> HIDE DEF Issued
  <2>1. requestQ' \in Seq(Issued)
    <3>1. requestQ \in Seq(Issued)
          /\ (reqH.step # "idle" => reqH.request \in Issued)
      BY DEF RequestProvenance
    <3> QED
      BY <3>1, PutBackInSeq DEF Exit, Redelivered
  <2>2. << >> \in Seq(Issued)
    OBVIOUS
  <2> QED
    BY <1>1, <2>1, <2>2 DEF Exit, ReqIdle, ExitIdle, RequestProvenance, llmVars
<1>3. ResultProvenance'
  <2>1. responseQ' \in Seq(Results \cup PresenceMessage)
    <3>1. responseQ \in Seq(Results \cup PresenceMessage)
          /\ (rspH.step # "idle" => rspH.msg \in Results \cup PresenceMessage)
      BY DEF ResultProvenance
    <3> HIDE DEF Provenance
    <3> QED
      BY <3>1, PutBackInSeq DEF Exit, Redelivered
  <2> QED
    BY <1>1, <2>1 DEF Exit, RspIdle, ResultProvenance, llmVars
<1>4. RowProvenance'
  BY DEF Exit, RowProvenance, HasRow, task_status, llmVars
<1> QED
  BY <1>2, <1>3, <1>4

LEMMA ProvenanceBrokerProcess ==
  TypeOK /\ Provenance /\ BrokerProcessNext => Provenance'
<1> SUFFICES ASSUME TypeOK, Provenance, UNCHANGED << api, llmVars >>,
                    \/ StartBroker \/ StopBroker \/ RequeueOne \/ RequeueFails
                    \/ RequeueEnds \/ CloseBroker \/ BrokerCrash
             PROVE  Provenance'
  BY DEF BrokerProcessNext
<1>1. CASE CloseBroker \/ BrokerCrash
  BY <1>1, ProvenanceExit DEF CloseBroker, BrokerCrash
<1>2. CASE ~CloseBroker /\ ~BrokerCrash
  <2> USE DEF Provenance
  <2>1. Issued' = Issued /\ Results' = Results
    BY DEF Issued, Published, Results, llmVars
  <2>2. UNCHANGED << tasks, responseQ, callbackQ, workerQ, reqH, rspH >>
    BY <1>2 DEF StartBroker, StopBroker, RequeueOne, RequeueFails, RequeueEnds, mqVars
  <2>3. ResultProvenance' /\ RowProvenance'
    BY <2>1, <2>2 DEF ResultProvenance, RowProvenance, HasRow, task_status, llmVars
  <2> HIDE DEF Issued
  <2>4. requestQ' \in Seq(Issued)
    <3>1. requestQ \in Seq(Issued) /\ RequeueList \in Seq(Issued)
      BY DEF RequestProvenance, RequeueList
    <3>2. CASE RequeueOne
      <4>1. exitH.idx \in 1 .. Len(RequeueList)
        BY <3>2 DEF RequeueOne, TypeOK, BrokerTypeOK
      <4>2. RequeueList[exitH.idx] \in Issued
        BY <3>1, <4>1
      <4> QED
        BY <3>1, <3>2, <4>2, AppendInSeq DEF RequeueOne
    <3>3. CASE ~RequeueOne
      BY <1>2, <3>1, <3>3 DEF StartBroker, StopBroker, RequeueFails, RequeueEnds, mqVars
    <3> QED
      BY <3>2, <3>3
  <2>5. pending_requests' \in Seq(Issued) /\ exitH'.list \in Seq(Issued)
    <3>1. pending_requests' \in { pending_requests, << >> }
      BY <1>2 DEF StartBroker, StopBroker, RequeueOne, RequeueFails, RequeueEnds
    <3>2. exitH'.list = exitH.list \/ exitH'.list = << >>
      BY <1>2 DEF StartBroker, StopBroker, RequeueOne, RequeueFails, RequeueEnds,
         ExitIdle, TypeOK, BrokerTypeOK
    <3>3. << >> \in Seq(Issued)
      OBVIOUS
    <3> QED
      BY <3>1, <3>2, <3>3 DEF RequestProvenance
  <2> QED
    BY <2>1, <2>2, <2>3, <2>4, <2>5 DEF RequestProvenance, llmVars
<1> QED
  BY <1>1, <1>2

LEMMA ProvenanceLLMWorker ==
  TypeOK /\ Provenance /\ LLMWorkerNext => Provenance'
<1> SUFFICES ASSUME TypeOK, Provenance, UNCHANGED << api, tasks, brokerVars >>,
                    NEW w \in Workers,
                    \/ WorkerStart(w) \/ Heartbeat(w) \/ ReceiveTask(w)
                    \/ InferenceSucceeds(w) \/ InferenceFails(w)
                    \/ ReportSuccess(w) \/ ReportFails(w)
                    \/ SendShutdown(w) \/ CloseWorker(w) \/ WorkerCrash(w)
             PROVE  Provenance'
  BY DEF LLMWorkerNext
<1> USE DEF Provenance
<1>1. Issued' = Issued
  BY DEF Issued, Published
<1>2. /\ worker[w] \in WorkerRecord
      /\ workerQ[w] \in Seq(Issued)
      /\ worker[w].step # "idle" => worker[w].task \in Issued
  BY DEF TypeOK, LLMWorkerTypeOK, RequestProvenance
<1>3. UNCHANGED << requestQ, callbackQ >>
  BY DEF WorkerStart, Heartbeat, ReceiveTask, InferenceSucceeds, InferenceFails,
     ReportSuccess, ReportFails, SendShutdown, CloseWorker, WorkerCrash,
     Disconnect, mqVars
<1>4. \A r \in Requests : /\ answered[r] \subseteq answered'[r]
                          /\ answered'[r] # {} => r \in Issued
  <2>1. CASE InferenceSucceeds(w)
    <3> PICK t \in Texts :
          answered' = [answered EXCEPT ![worker[w].task] = @ \cup {t}]
      BY <2>1 DEF InferenceSucceeds
    <3>1. worker[w].task \in Issued
      BY <1>2, <2>1 DEF InferenceSucceeds
    <3>2. answered \in [Requests -> SUBSET Texts]
      BY DEF TypeOK, LLMWorkerTypeOK
    <3> HIDE DEF Issued
    <3> QED
      BY <3>1, <3>2 DEF ResultProvenance
  <2>2. CASE ~InferenceSucceeds(w)
    BY <2>2 DEF ResultProvenance, WorkerStart, Heartbeat, ReceiveTask,
       InferenceFails, ReportSuccess, ReportFails, SendShutdown,
       CloseWorker, WorkerCrash, Disconnect, llmVars
  <2> QED
    BY <2>1, <2>2
<1>5. workerQ' \in [Workers -> Seq(Issued)]
  <2> HIDE DEF Issued
  <2>1. CASE ReceiveTask(w)
    <3>1. Tail(workerQ[w]) \in Seq(Issued)
      BY <1>2, <2>1 DEF ReceiveTask
    <3> QED
      BY <2>1, <3>1 DEF ReceiveTask, RequestProvenance
  <2>2. CASE CloseWorker(w) \/ WorkerCrash(w)
    <3>1. << >> \in Seq(Issued)
      OBVIOUS
    <3>2. workerQ' = [workerQ EXCEPT ![w] = << >>]
      BY <2>2 DEF CloseWorker, WorkerCrash, Disconnect, DeleteExclusive
    <3> QED
      BY <3>1, <3>2 DEF RequestProvenance
  <2>3. CASE ~ReceiveTask(w) /\ ~CloseWorker(w) /\ ~WorkerCrash(w)
    BY <2>3 DEF WorkerStart, DeclareAndBind, Heartbeat, InferenceSucceeds,
       InferenceFails, ReportSuccess, ReportFails, SendShutdown, mqVars,
       RequestProvenance
  <2> QED
    BY <2>1, <2>2, <2>3
<1>6. \A v \in Workers :
        /\ worker'[v].step # "idle" => worker'[v].task \in Issued
        /\ worker'[v].step = "report" =>
             worker'[v].result \in answered'[worker'[v].task]
  <2>3. \A v \in Workers : worker[v].step # "idle" => worker[v].task \in Requests
    BY DEF RequestProvenance, Issued
  <2> HIDE DEF Issued
  <2> SUFFICES ASSUME NEW v \in Workers
               PROVE  /\ worker'[v].step # "idle" => worker'[v].task \in Issued
                      /\ worker'[v].step = "report" =>
                           worker'[v].result \in answered'[worker'[v].task]
    OBVIOUS
  <2>1. CASE worker'[v] = worker[v]
    BY <1>4, <2>1, <2>3 DEF RequestProvenance, ResultProvenance
  <2>2. CASE worker'[v] # worker[v]
    <3>1. v = w
      BY <2>2 DEF TypeOK, LLMWorkerTypeOK, WorkerStart, Heartbeat, ReceiveTask,
         InferenceSucceeds, InferenceFails, ReportSuccess, ReportFails, Finish,
         SendShutdown, CloseWorker, WorkerCrash, Disconnect, llmVars
    <3>2. CASE WorkerStart(w) \/ SendShutdown(w)
      BY <1>2, <1>4, <2>3, <3>1, <3>2 DEF WorkerStart, SendShutdown, TypeOK,
         LLMWorkerTypeOK, WorkerRecord, ResultProvenance
    <3>3. CASE ReceiveTask(w)
      <4>1. Head(workerQ[w]) \in Issued
        BY <1>2, <3>3 DEF ReceiveTask
      <4> QED
        BY <1>2, <3>1, <3>3, <4>1 DEF ReceiveTask, TypeOK, LLMWorkerTypeOK,
           WorkerRecord
    <3>4. CASE InferenceSucceeds(w)
      <4> PICK t \in Texts :
            /\ answered' = [answered EXCEPT ![worker[w].task] = @ \cup {t}]
            /\ worker' = [worker EXCEPT ![w].step = "report", ![w].result = t]
        BY <3>4 DEF InferenceSucceeds
      <4>1. worker[w].task \in Requests /\ worker[w].task \in Issued
        BY <1>2, <2>3, <3>4 DEF InferenceSucceeds
      <4>2. /\ worker'[w].task = worker[w].task
            /\ worker'[w].result = t
        BY <1>2 DEF TypeOK, LLMWorkerTypeOK, WorkerRecord
      <4>3. t \in answered'[worker[w].task]
        BY <4>1 DEF TypeOK, LLMWorkerTypeOK
      <4> QED
        BY <3>1, <4>1, <4>2, <4>3
    <3>5. worker \in [Workers -> WorkerRecord]
      BY DEF TypeOK, LLMWorkerTypeOK
    <3>6. CASE Disconnect(w)
      BY <3>1, <3>5, <3>6 DEF Disconnect, Idle
    <3>7. CASE Finish(w)
      <4>1. worker'[w] = Idle(worker[w].state)
        BY <3>5, <3>7 DEF Finish
      <4>2. worker'[w].step = "idle"
        BY <4>1 DEF Idle
      <4> QED
        BY <3>1, <4>2
    <3> QED
      BY <2>2, <3>2, <3>3, <3>4, <3>6, <3>7 DEF Heartbeat, InferenceFails, ReportSuccess,
         ReportFails, CloseWorker, WorkerCrash, llmVars
  <2> QED
    BY <2>1, <2>2
<1>7. responseQ' \in Seq(Results' \cup PresenceMessage)
  <2>1. Results \subseteq Results'
    BY <1>4 DEF Results, TaskResponse
  <2>2. responseQ \in Seq(Results' \cup PresenceMessage)
    <3>1. responseQ \in Seq(Results \cup PresenceMessage)
      BY DEF ResultProvenance
    <3> QED
      BY <2>1, <3>1, SeqMonotone
  <2>3. CASE Heartbeat(w)
    <3>1. Presence("heartbeat", w) \in Results' \cup PresenceMessage
      BY DEF Presence, Msg, PresenceMessage
    <3> QED
      BY <2>2, <2>3, <3>1, AppendInSeq DEF Heartbeat, Respond
  <2>4. CASE ReportSuccess(w)
    <3>1. /\ worker[w].task \in Requests
          /\ worker[w].result \in Texts
          /\ worker[w].result \in answered'[worker[w].task]
      BY <1>2, <1>4, <2>4 DEF ReportSuccess, ResultProvenance, WorkerRecord
    <3>2. Msg("success", w, worker[w].task, worker[w].result)
            \in Results' \cup PresenceMessage
      BY <3>1 DEF Msg, Results, TaskResponse
    <3> QED
      BY <2>2, <2>4, <3>2, AppendInSeq DEF ReportSuccess, Respond
  <2>5. CASE SendShutdown(w)
    <3>1. Presence("shutdown", w) \in Results' \cup PresenceMessage
      BY DEF Presence, Msg, PresenceMessage
    <3> QED
      BY <2>2, <2>5, <3>1, AppendInSeq DEF SendShutdown, Respond
  <2>6. CASE ~Heartbeat(w) /\ ~ReportSuccess(w) /\ ~SendShutdown(w)
    <3>1. responseQ' = responseQ
      BY <2>6 DEF WorkerStart, ReceiveTask, InferenceSucceeds, InferenceFails,
         ReportFails, CloseWorker, WorkerCrash, Disconnect, mqVars
    <3> QED
      BY <2>2, <3>1
  <2> QED
    BY <2>3, <2>4, <2>5, <2>6
<1>8. RequestProvenance'
  BY <1>1, <1>3, <1>5, <1>6 DEF RequestProvenance, brokerVars
<1>9. ResultProvenance'
  <2>1. \A r \in Requests : answered'[r] # {} => r \in Issued'
    BY <1>1, <1>4
  <2>2. \A r \in Requests : callbackQ'[r].texts \subseteq answered'[r]
    BY <1>3, <1>4 DEF ResultProvenance
  <2>3. rspH'.step # "idle" => rspH'.msg \in Results'
    BY <1>4 DEF ResultProvenance, Results, TaskResponse, brokerVars
  <2> QED
    BY <1>6, <1>7, <2>1, <2>2, <2>3 DEF ResultProvenance
<1>10. RowProvenance'
  BY <1>4 DEF RowProvenance, HasRow, task_status
<1> QED
  BY <1>8, <1>9, <1>10

LEMMA ProvenanceStep == TypeOK /\ Provenance /\ [Next]_vars => Provenance'
<1>1. Provenance /\ UNCHANGED vars => Provenance'
  BY DEF vars, Provenance, RequestProvenance, ResultProvenance, RowProvenance,
     Issued, Published, Results, HasRow, task_status, mqVars, brokerVars, llmVars
<1>2. ASSUME NEW w \in Workers
      PROVE  Provenance /\ MissHeartbeats(w) => Provenance'
  BY DEF MissHeartbeats, Provenance, RequestProvenance, ResultProvenance,
     RowProvenance, Issued, Published, Results, HasRow, task_status, mqVars, llmVars
<1> QED
  BY <1>1, <1>2, ProvenanceApi, ProvenanceRequestHandler, ProvenanceResponseHandler,
     ProvenanceBrokerProcess, ProvenanceLLMWorker DEF Next

(* Nothing in the pipeline is made up, for any number of requests, workers *)
(* and disruptions: every queued, handled or pending request was published *)
(* by the api, every result was computed for the request it names, every   *)
(* accepted request has a row, every row belongs to a request that was     *)
(* accepted or whose submission was answered with an error, and no row     *)
(* ever becomes `failed'.                                                  *)
THEOREM ProvenanceCorrect == Spec => []Provenance
  BY TypeInit, TypeStep, ProvenanceInit, ProvenanceStep, PTL DEF Spec
===============================================================================
