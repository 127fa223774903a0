------------------------- MODULE TaskRefinementProofs -------------------------
(***************************************************************************)
(* What the pipeline shows of a task: rows only move forward, and the      *)
(* pipeline implements TaskLifecycle.                                      *)
(***************************************************************************)
EXTENDS TaskDeliveryProofs

(*---------------------------- rows move forward ------------------------*)

ForwardStep ==
  \A r \in Requests :
    /\ HasRow(r) => tasks'[r].status # "absent"
    /\ tasks[r].status = "ready" =>
         /\ tasks'[r].status = "ready"
         /\ tasks'[r].result # tasks[r].result =>
              /\ tasks'[r].result \in answered[r]
              /\ r \in WithCallback => CalledBack(r)

LEMMA ForwardStepHolds ==
  TypeOK /\ Provenance /\ ReadyIsCalledBack /\ [Next]_vars => ForwardStep
<1> SUFFICES ASSUME TypeOK, Provenance, ReadyIsCalledBack, [Next]_vars,
                    NEW r \in Requests, HasRow(r), tasks'[r] # tasks[r]
             PROVE  /\ tasks'[r].status = "ready"
                    /\ tasks[r].status = "ready" /\ tasks'[r].result # tasks[r].result =>
                         /\ tasks'[r].result \in answered[r]
                         /\ r \in WithCallback => CalledBack(r)
  BY DEF ForwardStep, HasRow
<1>1. /\ UpdateTask \/ UpdateTaskFails
      /\ rspH.msg.request = r
      /\ tasks'[r] = [status |-> "ready", result |-> rspH.msg.result]
  BY RowStep
<1>2. rspH.step = "update" /\ rspH.msg.result \in answered[r]
  BY <1>1 DEF UpdateTask, UpdateTaskFails, Provenance, ResultProvenance, Results
<1>3. ASSUME tasks[r].status = "ready", tasks'[r].result # tasks[r].result,
             r \in WithCallback
      PROVE  CalledBack(r)
  BY <1>1, <1>2, <1>3 DEF ReadyIsCalledBack, Answers
<1> QED
  BY <1>1, <1>2, <1>3

(* A row only moves forward, for any number of requests and workers.  A    *)
(* ready row stays ready; a second worker's answer, or a response that is  *)
(* delivered again, may replace its text, but only by an answer to this    *)
(* request, and not before the callback for the replaced text was sent or  *)
(* given up.                                                               *)
THEOREM RowsMoveForward == Spec => ForwardOnly
<1>1. TypeOK /\ Provenance /\ ReadyIsCalledBack /\ [Next]_vars => [ForwardStep]_vars
  BY ForwardStepHolds
<1>2. Spec => [][ForwardStep]_vars
  BY <1>1, TypeCorrect, ProvenanceCorrect, ReadyRowsAreCalledBack, PTL DEF Spec
<1> QED
  BY <1>2 DEF ForwardOnly, ForwardStep

(*--------------------- what a callback is about to say -----------------*)

HasMissed(r) == "no_row" \in lost[r]

(* A row shows no text before it is ready.                                 *)
RowShape ==
  \A r \in Requests : tasks[r].status # "ready" => tasks[r].result = NoText

(* Between the update and the callback, the row says what the callback is  *)
(* about to say, unless the update found no row.                           *)
CallbackSaysRow ==
  rspH.step = "callback" =>
    /\ rspH.msg.request \in WithCallback
    /\ \/ tasks[rspH.msg.request] =
            [status |-> "ready", result |-> rspH.msg.result]
       \/ HasMissed(rspH.msg.request)

LifecycleInv == RowShape /\ CallbackSaysRow

LEMMA LifecycleInvInit == Init => LifecycleInv
  BY DEF Init, TaskServiceInit, NoRow, BrokerInit, RspIdle, LifecycleInv, RowShape,
     CallbackSaysRow

LEMMA RowShapeStep ==
  ASSUME TypeOK, Provenance, RowShape, [Next]_vars
  PROVE  RowShape'
<1> SUFFICES ASSUME NEW r \in Requests, tasks'[r].status # "ready"
             PROVE  tasks'[r].result = NoText
  BY DEF RowShape
<1>1. CASE tasks'[r] = tasks[r]
  BY <1>1 DEF RowShape
<1>2. CASE tasks'[r] # tasks[r]
  BY <1>2, RowStep
<1> QED
  BY <1>1, <1>2

LEMMA CallbackSaysRowStep ==
  ASSUME TypeOK, Provenance, CallbackSaysRow, [Next]_vars
  PROVE  CallbackSaysRow'
<1> SUFFICES ASSUME rspH'.step = "callback"
             PROVE  CallbackSaysRow'
  BY DEF CallbackSaysRow
<1>1. rspH \in {RspIdle} \cup
        [step : {"update", "callback", "drain", "ack"}, msg : TaskResponse,
         idx : Nat \ {0}]
  BY DEF TypeOK, BrokerTypeOK
<1>2. CASE UpdateTask
  <2>1. /\ rspH.step = "update"
        /\ rspH.msg.status = "success"
        /\ rspH.msg.request \in Requests
    BY <1>1, <1>2 DEF UpdateTask, Provenance, ResultProvenance, Results, TaskResponse
  <2>2. rspH.msg.request \in WithCallback /\ rspH'.msg = rspH.msg
    BY <1>1, <1>2, <2>1 DEF UpdateTask, AfterUpdate, RspIdle
  <2>3. CASE HasRow(rspH.msg.request)
    <3>1. tasks'[rspH.msg.request] =
            [status |-> "ready", result |-> rspH.msg.result]
      BY <1>2, <2>1, <2>3 DEF UpdateTask, RecordOutcome, update_task, Written, TypeOK,
         TaskServiceTypeOK
    <3> QED
      BY <2>2, <3>1 DEF CallbackSaysRow
  <2>4. CASE ~HasRow(rspH.msg.request)
    <3>1. HasMissed(rspH.msg.request)'
      BY <1>2, <2>1, <2>4 DEF UpdateTask, GiveUp, HasMissed
    <3> QED
      BY <2>2, <3>1 DEF CallbackSaysRow, HasMissed
  <2> QED
    BY <2>3, <2>4
<1>3. CASE ~UpdateTask
  <2>1. UNCHANGED rspH
    <3>1. CASE ResponseHandlerNext
      BY <1>1, <1>3, <3>1 DEF ResponseHandlerNext, ReceiveResponse, UpdateTaskFails,
         PublishCallback, PublishCallbackFails, DrainDispatch, DrainFails, Draining,
         DrainEnds, AckResponse, RspIdle
    <3>2. CASE BrokerProcessNext
      BY <3>2 DEF BrokerProcessNext, StartBroker, StopBroker, RequeueOne,
         RequeueFails, RequeueEnds, CloseBroker, BrokerCrash, Exit, RspIdle
    <3> QED
      BY <3>1, <3>2, ApiFrame, RequestHandlerFrame, LLMWorkerFrame, SilenceFrame
         DEF Next, brokerVars
  <2> DEFINE r == rspH.msg.request
  <2>2. r \in Requests /\ r \in WithCallback
    BY <2>1, EnvironmentAssumption DEF CallbackSaysRow
  <2>3. HasMissed(r) => HasMissed(r)'
    BY <2>1, <2>2, LostOnlyGrows DEF HasMissed
  <2>4. CASE tasks[r] = [status |-> "ready", result |-> rspH.msg.result]
    <3>1. tasks'[r] = tasks[r]
      <4>1. HasRow(r)
        BY <2>4 DEF HasRow
      <4>2. ~UpdateTaskFails
        BY <2>1 DEF UpdateTaskFails
      <4> QED
        BY <1>3, <2>2, <4>1, <4>2, RowStep
    <3> QED
      BY <2>1, <2>2, <2>4, <3>1 DEF CallbackSaysRow
  <2> QED
    BY <2>1, <2>2, <2>3, <2>4 DEF CallbackSaysRow
<1> QED
  BY <1>2, <1>3

LEMMA LifecycleInvCorrect == Spec => []LifecycleInv
<1>1. TypeOK /\ Provenance /\ LifecycleInv /\ [Next]_vars => LifecycleInv'
  BY RowShapeStep, CallbackSaysRowStep DEF LifecycleInv
<1> QED
  BY <1>1, LifecycleInvInit, TypeCorrect, ProvenanceCorrect, PTL DEF Spec

(*----------------- the lifecycle, as the pipeline shows it -------------*)

Missed == { r \in Requests : "no_row" \in lost[r] }

shown == << Issued, answered, tasks, Missed, callbackQ >>

(* Only an update can miss a row.                                          *)
LEMMA MissedByUpdate ==
  ASSUME TypeOK, [Next]_vars, ~UpdateTask
  PROVE  UNCHANGED Missed
<1>1. UNCHANGED lost => UNCHANGED Missed
  BY DEF Missed
<1>2. ASSUME NEW S, NEW point, GiveUp(S, point), point # "no_row"
      PROVE  UNCHANGED Missed
  BY <1>2 DEF GiveUp, Missed, TypeOK, EnvTypeOK
<1>3. CASE ApiNext
  BY <1>1, <1>3 DEF ApiNext, SubmitTask, SubmitPublishFails, InsertTask,
     InsertTaskFails, envVars
<1>4. CASE RequestHandlerNext
  BY <1>1, <1>2, <1>4 DEF RequestHandlerNext, ReceiveRequest, DispatchRequest,
     NotRouted, DispatchFails, AckRequest, envVars
<1>5. CASE ResponseHandlerNext
  BY <1>1, <1>2, <1>5 DEF ResponseHandlerNext, ReceiveResponse, UpdateTaskFails,
     PublishCallback, PublishCallbackFails, DrainDispatch, NotRouted, DrainFails,
     DrainEnds, AckResponse, envVars
<1>6. CASE BrokerProcessNext
  BY <1>1, <1>2, <1>6 DEF BrokerProcessNext, StartBroker, StopBroker, RequeueOne,
     RequeueFails, RequeueEnds, CloseBroker, BrokerCrash, Exit, envVars
<1>7. CASE LLMWorkerNext
  BY <1>1, <1>2, <1>7 DEF LLMWorkerNext, WorkerStart, Heartbeat, ReceiveTask,
     InferenceSucceeds, InferenceFails, ReportSuccess, ReportFails, SendShutdown,
     CloseWorker, WorkerCrash, Disconnect, envVars
<1>8. CASE (\E w \in Workers : MissHeartbeats(w)) \/ UNCHANGED vars
  BY <1>1, <1>8, SilenceFrame
<1> QED
  BY <1>3, <1>4, <1>5, <1>6, <1>7, <1>8 DEF Next

(* A publish that took effect publishes and an insert that took effect     *)
(* inserts, also where the api was told that it failed.                    *)
LEMMA ApiStep ==
  ASSUME TypeOK, Provenance, RowShape, ApiNext
  PROVE  UNCHANGED shown \/ \E r \in Requests : Lifecycle!Publish(r) \/ Lifecycle!Insert(r)
<1> PICK r \in Requests :
      \/ SubmitTask(r) \/ SubmitPublishFails(r)
      \/ InsertTask(r) \/ InsertTaskFails(r)
  BY DEF ApiNext
<1>1. UNCHANGED << answered, Missed, callbackQ >>
  <2>1. ~UpdateTask
    BY ApiFrame DEF UpdateTask, brokerVars, TypeOK, BrokerTypeOK, RspIdle, AfterUpdate
  <2> QED
    BY <2>1, ApiFrame, MissedByUpdate DEF llmVars, Next
<1>2. api \in [Requests -> ApiState] /\ tasks \in [Requests -> Row]
  BY DEF TypeOK, ApiTypeOK, TaskServiceTypeOK
<1>3. CASE SubmitTask(r) \/ SubmitPublishFails(r)
  <2>1. UNCHANGED tasks /\ api[r] = "idle"
    BY <1>3 DEF SubmitTask, SubmitPublishFails
  <2>2. \/ Issued' = Issued
        \/ r \notin Issued /\ Issued' = Issued \cup {r}
    BY <1>2, <1>3 DEF SubmitTask, SubmitPublishFails, Issued, Published
  <2> QED
    BY <1>1, <2>1, <2>2 DEF Lifecycle!Publish, shown, Missed
<1>4. CASE InsertTask(r) \/ InsertTaskFails(r)
  <2>1. r \in Issued /\ Issued' = Issued
    BY <1>2, <1>4 DEF InsertTask, InsertTaskFails, Issued, Published
  <2>2. tasks' = tasks \/ tasks' = [tasks EXCEPT ![r] = Lifecycle!Waiting]
    BY <1>4 DEF InsertTask, InsertTaskFails, insert_task, Lifecycle!Waiting
  <2>3. tasks[r] = Lifecycle!Absent
    <3>1. tasks[r].status = "absent" /\ tasks[r].result = NoText
      BY <1>4 DEF InsertTask, InsertTaskFails, Provenance, RowProvenance, HasRow, RowShape
    <3> QED
      BY <1>2, <3>1 DEF Row, Lifecycle!Absent
  <2> QED
    BY <1>1, <2>1, <2>2, <2>3 DEF Lifecycle!Insert, shown, Missed
<1> QED
  BY <1>3, <1>4

(* An update completes the row, or misses it; or it raises with or without *)
(* having completed it.                                                    *)
LEMMA UpdateStep ==
  ASSUME TypeOK, Provenance, RowShape, ResponseHandlerNext,
         UpdateTask \/ UpdateTaskFails
  PROVE  \/ UNCHANGED shown
         \/ \E r \in Requests : Lifecycle!Miss(r) \/ \E t \in Texts : Lifecycle!Complete(r, t)
<1> DEFINE m == rspH.msg
<1>1. /\ rspH.step = "update"
      /\ m.status = "success" /\ m.request \in Requests /\ m.result \in Texts
      /\ m.result \in answered[m.request]
  BY DEF UpdateTask, UpdateTaskFails, Provenance, ResultProvenance, Results, TaskResponse
<1>2. UNCHANGED << Issued, answered, callbackQ >>
  BY DEF ResponseHandlerNext, Issued, Published, llmVars, UpdateTask, UpdateTaskFails,
     mqVars
<1>3. tasks \in [Requests -> Row] /\ lost \in [Requests -> SUBSET LossPoints]
  BY DEF TypeOK, TaskServiceTypeOK, EnvTypeOK
<1>4. update_task(m.request, "ready", m.result) \/ tasks' = tasks
  BY <1>1 DEF UpdateTask, UpdateTaskFails, RecordOutcome
<1>5. CASE HasRow(m.request)
  <2>1. UNCHANGED Missed
    BY <1>3, <1>5, MissedByUpdate DEF UpdateTask, GiveUp, Missed, Next
  <2>2. \/ tasks' = tasks
        \/ tasks' = [tasks EXCEPT ![m.request] = Lifecycle!Ready(m.result)]
    BY <1>4, <1>5 DEF update_task, Written, Lifecycle!Ready
  <2>3. tasks[m.request] # Lifecycle!Absent
    BY <1>5 DEF HasRow, Lifecycle!Absent
  <2> QED
    BY <1>1, <1>2, <2>1, <2>2, <2>3 DEF Lifecycle!Complete, shown, Missed
<1>6. CASE ~HasRow(m.request)
  <2>1. tasks' = tasks
    BY <1>4, <1>6 DEF update_task
  <2>2. tasks[m.request] = Lifecycle!Absent
    BY <1>1, <1>3, <1>6 DEF HasRow, RowShape, Row, Lifecycle!Absent
  <2>3. Missed' = Missed \/ Missed' = Missed \cup {m.request}
    <3>1. CASE UpdateTask
      BY <1>1, <1>3, <1>6, <3>1 DEF UpdateTask, GiveUp, Missed
    <3>2. CASE ~UpdateTask
      BY <3>2, MissedByUpdate DEF Next
    <3> QED
      BY <3>1, <3>2
  <2> QED
    BY <1>1, <1>2, <2>1, <2>2, <2>3 DEF Lifecycle!Miss, shown, Missed
<1> QED
  BY <1>5, <1>6

(* A callback that reaches its queue notifies; no other step of the broker *)
(* shows.                                                                  *)
LEMMA BrokerStep ==
  ASSUME TypeOK, Provenance, CallbackSaysRow,
         \/ RequestHandlerNext
         \/ BrokerProcessNext
         \/ ResponseHandlerNext /\ ~UpdateTask /\ ~UpdateTaskFails
  PROVE  \/ UNCHANGED shown
         \/ \E r \in Requests : \E t \in Texts : Lifecycle!Notify(r, t)
<1>1. UNCHANGED << Issued, answered, tasks >>
  BY RequestHandlerFrame, BrokerProcessFrame DEF RequestHandlerNext, ResponseHandlerNext,
     BrokerProcessNext, Issued, Published, llmVars, ReceiveResponse, PublishCallback,
     PublishCallbackFails, DrainDispatch, DrainFails, DrainEnds, AckResponse
<1>2. UNCHANGED Missed
  <2>1. ~UpdateTask
    BY RequestHandlerFrame DEF BrokerProcessNext, StartBroker, StopBroker, RequeueOne,
       RequeueFails, RequeueEnds, CloseBroker, BrokerCrash, Exit, RspIdle, UpdateTask,
       TypeOK, BrokerTypeOK, AfterUpdate
  <2> QED
    BY <2>1, MissedByUpdate DEF Next
<1>3. CASE callbackQ' = callbackQ
  BY <1>1, <1>2, <1>3 DEF shown
<1>4. CASE callbackQ' # callbackQ
  <2> DEFINE m == rspH.msg
  <2>1. rspH.step = "callback" /\ QueueCallback(m)
    BY <1>4, RequestHandlerFrame, BrokerProcessFrame DEF ResponseHandlerNext,
       ReceiveResponse, PublishCallback, PublishCallbackFails, DrainDispatch, DrainFails,
       DrainEnds, AckResponse, mqVars
  <2>2. m.request \in Requests /\ m.result \in Texts /\ m.result \in answered[m.request]
    BY <2>1 DEF Provenance, ResultProvenance, Results, TaskResponse
  <2>3. /\ m.request \in WithCallback
        /\ tasks[m.request] = Lifecycle!Ready(m.result) \/ m.request \in Missed
    BY <2>1, <2>2 DEF CallbackSaysRow, HasMissed, Missed, Lifecycle!Ready
  <2>4. callbackQ' = [callbackQ EXCEPT ![m.request] =
                        [copies |-> @.copies + 1, texts |-> @.texts \cup {m.result}]]
    BY <2>1 DEF QueueCallback
  <2>5. Lifecycle!Notify(m.request, m.result)
    BY <1>1, <1>2, <2>2, <2>3, <2>4 DEF Lifecycle!Notify, Missed
  <2> QED
    BY <2>2, <2>5
<1> QED
  BY <1>3, <1>4

(* InferenceSucceeds computes; nothing else of an llm worker shows.        *)
LEMMA WorkerStep ==
  ASSUME TypeOK, Provenance, LLMWorkerNext
  PROVE  \/ UNCHANGED shown
         \/ \E r \in Requests : \E t \in Texts : Lifecycle!Compute(r, t)
<1> PICK w \in Workers :
      \/ WorkerStart(w) \/ Heartbeat(w) \/ ReceiveTask(w)
      \/ InferenceSucceeds(w) \/ InferenceFails(w)
      \/ ReportSuccess(w) \/ ReportFails(w)
      \/ SendShutdown(w) \/ CloseWorker(w) \/ WorkerCrash(w)
  BY DEF LLMWorkerNext
<1>1. UNCHANGED << Issued, tasks, callbackQ >>
  BY LLMWorkerFrame DEF Issued, Published
<1>2. UNCHANGED Missed
  <2>1. ~UpdateTask
    BY LLMWorkerFrame DEF UpdateTask, brokerVars, TypeOK, BrokerTypeOK, RspIdle,
       AfterUpdate
  <2> QED
    BY <2>1, MissedByUpdate DEF Next
<1>3. CASE InferenceSucceeds(w)
  <2>1. worker[w].task \in Requests /\ worker[w].task \in Issued
    BY <1>3 DEF InferenceSucceeds, Provenance, RequestProvenance, Issued
  <2>2. PICK t \in Texts :
          answered' = [answered EXCEPT ![worker[w].task] = @ \cup {t}]
    BY <1>3 DEF InferenceSucceeds
  <2>3. Lifecycle!Compute(worker[w].task, t)
    BY <1>1, <1>2, <2>1, <2>2 DEF Lifecycle!Compute, Missed
  <2> QED
    BY <2>1, <2>3
<1>4. CASE ~InferenceSucceeds(w)
  <2>1. UNCHANGED answered
    BY <1>4 DEF WorkerStart, Heartbeat, ReceiveTask, InferenceFails, ReportSuccess,
       ReportFails, SendShutdown, CloseWorker, WorkerCrash, Disconnect, llmVars
  <2> QED
    BY <1>1, <1>2, <2>1 DEF shown
<1> QED
  BY <1>3, <1>4

(* The other steps: a worker goes silent, or nothing happens.              *)
LEMMA SilentStep ==
  (\E w \in Workers : MissHeartbeats(w)) \/ UNCHANGED vars => UNCHANGED shown
  BY SilenceFrame DEF shown, Issued, Published, llmVars, mqVars, Missed

LEMMA LifecycleInit == Init => Lifecycle!Init
  BY DEF Init, EnvInit, RabbitMQInit, TaskServiceInit, ApiInit, LLMWorkerInit,
     Lifecycle!Init, Lifecycle!Absent, Issued, Published, NoRow

LEMMA LifecycleStep ==
  TypeOK /\ Provenance /\ LifecycleInv /\ [Next]_vars => [Lifecycle!Next]_shown
<1> SUFFICES ASSUME TypeOK, Provenance, LifecycleInv, [Next]_vars
             PROVE  [Lifecycle!Next]_shown
  OBVIOUS
<1>1. CASE ApiNext
  BY <1>1, ApiStep DEF LifecycleInv, Lifecycle!Next
<1>2. CASE ResponseHandlerNext /\ (UpdateTask \/ UpdateTaskFails)
  BY <1>2, UpdateStep DEF LifecycleInv, Lifecycle!Next
<1>3. CASE \/ RequestHandlerNext
           \/ BrokerProcessNext
           \/ ResponseHandlerNext /\ ~UpdateTask /\ ~UpdateTaskFails
  BY <1>3, BrokerStep DEF LifecycleInv, Lifecycle!Next
<1>4. CASE LLMWorkerNext
  BY <1>4, WorkerStep DEF Lifecycle!Next
<1>5. CASE (\E w \in Workers : MissHeartbeats(w)) \/ UNCHANGED vars
  BY <1>5, SilentStep
<1> QED
  BY <1>1, <1>2, <1>3, <1>4, <1>5 DEF Next

(* The pipeline implements the task lifecycle: however many processes      *)
(* crash, stop or overlap, and whatever raised after it took effect, a row *)
(* appears once and then shows answers computed for its request only, and  *)
(* a callback says what the row says when it is sent, or what an update    *)
(* that found no row left out of it.                                       *)
THEOREM PipelineImplementsLifecycle == Spec => ImplementsLifecycle
<1>1. UNCHANGED shown => UNCHANGED Lifecycle!vars
  BY DEF shown, Lifecycle!vars, Missed
<1>2. TypeOK /\ Provenance /\ LifecycleInv /\ [Next]_vars
        => [Lifecycle!Next]_Lifecycle!vars
  BY <1>1, LifecycleStep
<1> QED
  BY <1>2, LifecycleInit, TypeCorrect, ProvenanceCorrect, LifecycleInvCorrect, PTL
     DEF Spec, ImplementsLifecycle, Lifecycle!Spec
===============================================================================
