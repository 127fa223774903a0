---------------------------- MODULE TaskCalmProofs ----------------------------
(***************************************************************************)
(* What the pipeline promises as long as nothing is disrupted, for any     *)
(* numbers of requests and workers: no request is given up, each is handed *)
(* out once and called back once per worker at most, and the pipeline at   *)
(* rest has served them all.                                               *)
(***************************************************************************)
EXTENDS TaskDeliveryProofs, FiniteSetTheorems

(*-------------------------- a calm pipeline ---------------------------*)

(* A worker consumes exactly while its queue is bound, and the queue of a  *)
(* worker that is not there is empty.                                      *)
BoundInv ==
  \A w \in Workers :
    /\ w \in bound <=> Consuming(w)
    /\ w \notin bound => workerQ[w] = << >>

LEMMA BoundInvInit == Init => BoundInv
  BY DEF Init, RabbitMQInit, LLMWorkerInit, Idle, BoundInv, Consuming

LEMMA RouteBound ==
  ASSUME TypeOK, BoundInv, NEW r \in Requests, Route(r), UNCHANGED << bound, worker >>
  PROVE  BoundInv'
  BY DEF BoundInv, Consuming, Route

LEMMA BoundInvStep == TypeOK /\ BoundInv /\ [Next]_vars => BoundInv'
<1> SUFFICES ASSUME TypeOK, BoundInv, [Next]_vars
             PROVE  BoundInv'
  OBVIOUS
<1>1. UNCHANGED << bound, workerQ, worker >> => BoundInv'
  BY DEF BoundInv, Consuming
<1>2. CASE \/ ApiNext \/ BrokerProcessNext
           \/ (\E w \in Workers : MissHeartbeats(w)) \/ UNCHANGED vars
  BY <1>1, <1>2, ApiFrame, BrokerProcessFrame, SilenceFrame DEF mqVars, llmVars
<1>3. CASE RequestHandlerNext
  <2>1. CASE DispatchRequest
    <3>1. reqH.request \in Requests
      BY <2>1 DEF DispatchRequest, TypeOK, BrokerTypeOK, ReqIdle
    <3> QED
      BY <1>3, <2>1, <3>1, RouteBound, RequestHandlerFrame DEF DispatchRequest, llmVars
  <2>2. CASE ~DispatchRequest
    BY <1>1, <1>3, <2>2 DEF RequestHandlerNext, ReceiveRequest, DispatchFails,
       AckRequest, mqVars, llmVars
  <2> QED
    BY <2>1, <2>2
<1>4. CASE ResponseHandlerNext
  <2>1. CASE workerQ' # workerQ
    <3>1. Draining /\ Route(pending_requests[rspH.idx])
      BY <1>4, <2>1 DEF ResponseHandlerNext, ReceiveResponse, UpdateTask,
         UpdateTaskFails, PublishCallback, PublishCallbackFails, DrainDispatch,
         DrainFails, DrainEnds, AckResponse, mqVars
    <3>2. pending_requests[rspH.idx] \in Requests
      BY <3>1 DEF Draining, TypeOK, BrokerTypeOK, RspIdle
    <3> QED
      BY <1>4, <3>1, <3>2, RouteBound, ResponseHandlerFrame DEF llmVars
  <2>2. CASE workerQ' = workerQ
    BY <1>1, <1>4, <2>2, ResponseHandlerFrame DEF llmVars
  <2> QED
    BY <2>1, <2>2
<1>5. CASE LLMWorkerNext
  <2> PICK w \in Workers :
        \/ WorkerStart(w) \/ Heartbeat(w) \/ ReceiveTask(w)
        \/ InferenceSucceeds(w) \/ InferenceFails(w)
        \/ ReportSuccess(w) \/ ReportFails(w)
        \/ SendShutdown(w) \/ CloseWorker(w) \/ WorkerCrash(w)
    BY <1>5 DEF LLMWorkerNext
  <2>1. /\ worker \in [Workers -> WorkerRecord]
        /\ workerQ \in [Workers -> Seq(Requests)]
    BY DEF TypeOK, LLMWorkerTypeOK, RabbitMQTypeOK
  <2>2. CASE WorkerStart(w)
    BY <2>1, <2>2 DEF WorkerStart, DeclareAndBind, BoundInv, Consuming
  <2>3. CASE ReceiveTask(w)
    BY <2>1, <2>3 DEF ReceiveTask, BoundInv, Consuming
  <2>4. CASE CloseWorker(w) \/ WorkerCrash(w)
    BY <2>1, <2>4 DEF CloseWorker, WorkerCrash, Disconnect, DeleteExclusive, Idle,
       BoundInv, Consuming
  <2>5. CASE \/ Heartbeat(w) \/ InferenceSucceeds(w) \/ InferenceFails(w)
             \/ ReportSuccess(w) \/ ReportFails(w) \/ SendShutdown(w)
    <3>1. UNCHANGED << bound, workerQ >>
      BY <2>5 DEF Heartbeat, InferenceSucceeds, InferenceFails, ReportSuccess,
         ReportFails, SendShutdown, mqVars
    <3>2. ASSUME NEW v \in Workers
          PROVE  \/ worker'[v].state = worker[v].state
                 \/ worker[v].state = "up" /\ worker'[v].state = "stopping"
      <4>1. worker[v] \in WorkerRecord /\ worker[w] \in WorkerRecord
        BY <2>1
      <4>2. CASE Heartbeat(w)
        BY <4>2 DEF Heartbeat, llmVars
      <4>3. CASE InferenceSucceeds(w) \/ SendShutdown(w)
        <5> PICK t :
              \/ worker' = [worker EXCEPT ![w].step = "report", ![w].result = t]
              \/ /\ worker[w].state = "up"
                 /\ worker' = [worker EXCEPT ![w].state = "stopping"]
          BY <4>3 DEF InferenceSucceeds, SendShutdown
        <5>1. CASE v = w
          BY <2>1, <4>1, <5>1 DEF WorkerRecord
        <5>2. CASE v # w
          BY <2>1, <5>2
        <5> QED
          BY <5>1, <5>2
      <4>4. CASE Finish(w)
        <5>1. worker'[v] = IF v = w THEN Idle(worker[w].state) ELSE worker[v]
          BY <2>1, <4>4 DEF Finish
        <5> QED
          BY <4>1, <5>1 DEF Idle
      <4> QED
        BY <2>5, <4>2, <4>3, <4>4 DEF InferenceFails, ReportSuccess, ReportFails
    <3> QED
      BY <3>1, <3>2 DEF BoundInv, Consuming
  <2> QED
    BY <2>2, <2>3, <2>4, <2>5
<1> QED
  BY <1>2, <1>3, <1>4, <1>5 DEF Next

LEMMA BoundInvCorrect == Spec => []BoundInv
  BY TypeCorrect, BoundInvInit, BoundInvStep, PTL DEF Spec

(* Nobody has left, so whoever is registered, or will be by a message in   *)
(* the queue, is bound; a request that is about to be published is so      *)
(* because a worker was registered.                                        *)
CalmInv ==
  disruptions = 0 =>
    /\ broker \in {"down", "up"}
    /\ \A w \in Workers : worker[w].state \in {"off", "up"}
    /\ available_workers \subseteq bound
    /\ \A m \in Held(responseQ) : m.worker \in bound /\ m.status # "shutdown"
    /\ reqH.step = "publish" => bound # {}

(* The steps that are left while nothing is disrupted.                     *)
CalmNext ==
  \/ /\ \E r \in Requests : SubmitTask(r) \/ InsertTask(r)
     /\ UNCHANGED << brokerVars, llmVars >>
  \/ /\ \/ ReceiveRequest \/ DispatchRequest \/ AckRequest
        \/ ReceiveResponse \/ UpdateTask \/ PublishCallback
        \/ DrainDispatch \/ DrainEnds \/ AckResponse \/ StartBroker
     /\ UNCHANGED << api, llmVars >>
  \/ /\ \E w \in Workers :
          \/ WorkerStart(w) \/ Heartbeat(w) \/ ReceiveTask(w)
          \/ InferenceSucceeds(w) \/ ReportSuccess(w)
     /\ UNCHANGED << api, tasks, brokerVars >>
  \/ \E w \in Workers : MissHeartbeats(w)
  \/ UNCHANGED vars

LEMMA StaysCalm ==
  ASSUME TypeOK, CalmInv, [Next]_vars, disruptions' = 0
  PROVE  disruptions = 0 /\ CalmNext
<1>1. \A kind : Disrupt(kind) => FALSE
  BY DEF Disrupt, TypeOK, EnvTypeOK
<1>2. CASE ApiNext
  BY <1>1, <1>2 DEF ApiNext, SubmitTask, SubmitPublishFails, InsertTask,
     InsertTaskFails, envVars, CalmNext
<1>3. CASE RequestHandlerNext
  BY <1>1, <1>3 DEF RequestHandlerNext, ReceiveRequest, DispatchRequest,
     DispatchFails, AckRequest, envVars, CalmNext
<1>4. CASE ResponseHandlerNext
  BY <1>1, <1>4 DEF ResponseHandlerNext, ReceiveResponse, UpdateTask, UpdateTaskFails,
     PublishCallback, PublishCallbackFails, DrainDispatch, DrainFails, DrainEnds,
     AckResponse, envVars, CalmNext
<1>5. CASE BrokerProcessNext
  <2>1. disruptions = 0
    BY <1>1, <1>5 DEF BrokerProcessNext, StartBroker, StopBroker, RequeueOne,
       RequeueFails, RequeueEnds, CloseBroker, BrokerCrash, envVars
  <2>2. broker \in {"down", "up"}
    BY <2>1 DEF CalmInv
  <2>3. StartBroker
    BY <1>1, <1>5, <2>2 DEF BrokerProcessNext, StopBroker, RequeueOne, RequeueFails,
       RequeueEnds, CloseBroker, BrokerCrash
  <2> QED
    BY <1>5, <2>1, <2>3 DEF BrokerProcessNext, CalmNext
<1>6. CASE LLMWorkerNext
  <2> PICK w \in Workers :
        \/ WorkerStart(w) \/ Heartbeat(w) \/ ReceiveTask(w)
        \/ InferenceSucceeds(w) \/ InferenceFails(w)
        \/ ReportSuccess(w) \/ ReportFails(w)
        \/ SendShutdown(w) \/ CloseWorker(w) \/ WorkerCrash(w)
    BY <1>6 DEF LLMWorkerNext
  <2>1. disruptions = 0
    BY <1>1 DEF WorkerStart, Heartbeat, ReceiveTask, InferenceSucceeds,
       InferenceFails, ReportSuccess, ReportFails, SendShutdown, CloseWorker,
       WorkerCrash, envVars
  <2>2. \/ WorkerStart(w) \/ Heartbeat(w) \/ ReceiveTask(w)
        \/ InferenceSucceeds(w) \/ ReportSuccess(w)
    BY <1>1, <2>1 DEF InferenceFails, ReportFails, SendShutdown, CloseWorker,
       WorkerCrash, CalmInv
  <2> QED
    BY <1>6, <2>1, <2>2 DEF LLMWorkerNext, CalmNext
<1>7. CASE \E w \in Workers : MissHeartbeats(w)
  BY <1>1, <1>7 DEF MissHeartbeats, CalmNext
<1>8. CASE UNCHANGED vars
  BY <1>8 DEF vars, envVars, CalmNext
<1> QED
  BY <1>2, <1>3, <1>4, <1>5, <1>6, <1>7, <1>8 DEF Next

LEMMA CalmInvInit == Init => CalmInv
  BY DEF Init, RabbitMQInit, BrokerInit, LLMWorkerInit, Idle, CalmInv, Held,
     ReqIdle

LEMMA CalmInvStep == TypeOK /\ BoundInv /\ CalmInv /\ [Next]_vars => CalmInv'
<1> SUFFICES ASSUME TypeOK, BoundInv, CalmInv, [Next]_vars, disruptions' = 0
             PROVE  /\ broker' \in {"down", "up"}
                    /\ \A w \in Workers : worker'[w].state \in {"off", "up"}
                    /\ available_workers' \subseteq bound'
                    /\ \A m \in Held(responseQ') :
                         m.worker \in bound' /\ m.status # "shutdown"
                    /\ reqH'.step = "publish" => bound' # {}
  BY DEF CalmInv
<1>1. disruptions = 0 /\ CalmNext
  BY StaysCalm
<1>2. /\ broker \in {"down", "up"}
      /\ \A w \in Workers : worker[w].state \in {"off", "up"}
      /\ available_workers \subseteq bound
      /\ \A m \in Held(responseQ) : m.worker \in bound /\ m.status # "shutdown"
      /\ reqH.step = "publish" => bound # {}
  BY <1>1 DEF CalmInv
<1>3. /\ responseQ \in Seq(Response)
      /\ worker \in [Workers -> WorkerRecord]
      /\ reqH \in {ReqIdle} \cup [step : {"publish", "ack"}, request : Requests]
  BY DEF TypeOK, RabbitMQTypeOK, LLMWorkerTypeOK, BrokerTypeOK
<1>4. CASE /\ \E r \in Requests : SubmitTask(r) \/ InsertTask(r)
           /\ UNCHANGED << brokerVars, llmVars >>
  BY <1>2, <1>4 DEF SubmitTask, InsertTask, mqVars, brokerVars, llmVars
<1>5. CASE ReceiveRequest /\ UNCHANGED llmVars
  BY <1>2, <1>5 DEF ReceiveRequest, KeepOrPublish, llmVars
<1>6. CASE ReceiveResponse /\ UNCHANGED llmVars
  <2>1. Held(responseQ) = {Head(responseQ)} \cup Held(responseQ')
    BY <1>3, <1>6, HeldTail DEF ReceiveResponse
  <2>2. available_workers' \subseteq available_workers \cup {Head(responseQ).worker}
    BY <1>6 DEF ReceiveResponse, Register
  <2> QED
    BY <1>2, <1>6, <2>1, <2>2 DEF ReceiveResponse, llmVars
<1>7. CASE /\ \/ DispatchRequest \/ AckRequest \/ UpdateTask \/ PublishCallback
              \/ DrainDispatch \/ DrainEnds \/ AckResponse \/ StartBroker
           /\ UNCHANGED llmVars
  <2>1. UNCHANGED << available_workers, bound, responseQ >>
    BY <1>7 DEF DispatchRequest, AckRequest, UpdateTask, PublishCallback,
       DrainDispatch, DrainEnds, AckResponse, StartBroker, mqVars
  <2>2. broker' \in {"down", "up"}
    BY <1>2, <1>7 DEF DispatchRequest, AckRequest, UpdateTask, PublishCallback,
       DrainDispatch, DrainEnds, AckResponse, StartBroker
  <2>3. reqH'.step = "publish" => reqH.step = "publish"
    BY <1>3, <1>7 DEF DispatchRequest, AckRequest, UpdateTask, PublishCallback,
       DrainDispatch, DrainEnds, AckResponse, StartBroker, ReqIdle
  <2> QED
    BY <1>2, <1>7, <2>1, <2>2, <2>3 DEF llmVars
<1>8. ASSUME NEW w \in Workers,
             UNCHANGED brokerVars,
             \/ WorkerStart(w) \/ Heartbeat(w) \/ ReceiveTask(w)
             \/ InferenceSucceeds(w) \/ ReportSuccess(w)
      PROVE  /\ \A v \in Workers : worker'[v].state \in {"off", "up"}
             /\ bound \subseteq bound'
             /\ \A m \in Held(responseQ') :
                  m.worker \in bound' /\ m.status # "shutdown"
  <2>1. bound \subseteq bound'
    BY <1>8 DEF WorkerStart, DeclareAndBind, Heartbeat, ReceiveTask,
       InferenceSucceeds, ReportSuccess, mqVars
  <2>2. ASSUME NEW v \in Workers
        PROVE  worker'[v].state \in {"off", "up"}
    <3>1. worker[v] \in WorkerRecord /\ worker[w] \in WorkerRecord
          /\ worker[v].state \in {"off", "up"}
      BY <1>2, <1>3
    <3>2. CASE WorkerStart(w) \/ ReceiveTask(w) \/ InferenceSucceeds(w)
      BY <1>3, <3>1, <3>2 DEF WorkerStart, ReceiveTask, InferenceSucceeds, WorkerRecord
    <3>3. CASE Heartbeat(w)
      BY <3>1, <3>3 DEF Heartbeat, llmVars
    <3>4. CASE ReportSuccess(w)
      <4>1. worker'[v] = IF v = w THEN Idle(worker[w].state) ELSE worker[v]
        BY <1>3, <3>4 DEF ReportSuccess, Finish
      <4> QED
        BY <1>2, <3>1, <4>1 DEF Idle
    <3> QED
      BY <1>8, <3>2, <3>3, <3>4
  <2>3. \A m \in Held(responseQ') : m.worker \in bound' /\ m.status # "shutdown"
    <3>1. CASE Heartbeat(w) \/ ReportSuccess(w)
      <4>1. PICK m \in Response : /\ responseQ' = Append(responseQ, m)
                                  /\ m.worker = w /\ m.status # "shutdown"
        BY <1>3, <3>1 DEF Heartbeat, ReportSuccess, Respond, Presence, Msg,
           Response, TaskResponse, PresenceMessage, WorkerRecord
      <4>2. Consuming(w)
        BY <1>3, <3>1 DEF Heartbeat, ReportSuccess, WorkerRecord, Consuming
      <4>3. w \in bound'
        BY <2>1, <4>2 DEF BoundInv
      <4>4. Held(responseQ') = Held(responseQ) \cup {m}
        BY <1>3, <4>1, HeldAppend
      <4> QED
        BY <1>2, <2>1, <4>1, <4>3, <4>4
    <3>2. CASE ~(Heartbeat(w) \/ ReportSuccess(w))
      <4>1. responseQ' = responseQ
        BY <1>8, <3>2 DEF WorkerStart, ReceiveTask, InferenceSucceeds, mqVars
      <4> QED
        BY <1>2, <2>1, <4>1
    <3> QED
      BY <3>1, <3>2
  <2> QED
    BY <2>1, <2>2, <2>3
<1>9. CASE /\ \E w \in Workers :
                \/ WorkerStart(w) \/ Heartbeat(w) \/ ReceiveTask(w)
                \/ InferenceSucceeds(w) \/ ReportSuccess(w)
           /\ UNCHANGED << api, tasks, brokerVars >>
  <2>1. UNCHANGED << broker, available_workers, reqH >>
    BY <1>9 DEF brokerVars
  <2> QED
    BY <1>2, <1>8, <1>9, <2>1
<1>10. CASE (\E w \in Workers : MissHeartbeats(w)) \/ UNCHANGED vars
  BY <1>2, <1>10, SilenceFrame DEF mqVars, llmVars
<1> QED
  BY <1>1, <1>4, <1>5, <1>6, <1>7, <1>9, <1>10 DEF CalmNext

LEMMA CalmInvCorrect == Spec => []CalmInv
  BY TypeCorrect, BoundInvCorrect, CalmInvInit, CalmInvStep, PTL DEF Spec

LEMMA NothingGivenUp ==
  ASSUME TypeOK, NEW S, NEW point, GiveUp(S, point), S = {} \/ point = "no_row"
  PROVE  \A r \in Requests : lost'[r] \subseteq lost[r] \cup {"no_row"}
  BY DEF GiveUp

LEMMA LosesNothingStep ==
  TypeOK /\ CalmInv /\ UndisturbedLosesNothing /\ [Next]_vars
    => UndisturbedLosesNothing'
<1> SUFFICES ASSUME TypeOK, CalmInv, UndisturbedLosesNothing, [Next]_vars,
                    disruptions' = 0
             PROVE  \A r \in Requests : lost'[r] \subseteq {"no_row"}
  BY DEF UndisturbedLosesNothing
<1>1. disruptions = 0 /\ CalmNext
  BY StaysCalm
<1>2. SUFFICES \A r \in Requests : lost'[r] \subseteq lost[r] \cup {"no_row"}
  BY <1>1 DEF UndisturbedLosesNothing
<1>3. CASE DispatchRequest
  <2>1. bound # {}
    BY <1>1, <1>3 DEF DispatchRequest, CalmInv
  <2> QED
    BY <1>3, <2>1, NothingGivenUp DEF DispatchRequest, NotRouted
<1>4. CASE DrainDispatch
  <2>1. bound # {}
    BY <1>1, <1>4 DEF DrainDispatch, CalmInv
  <2> QED
    BY <1>4, <2>1, NothingGivenUp DEF DrainDispatch, NotRouted
<1>5. CASE UpdateTask
  BY <1>5, NothingGivenUp DEF UpdateTask
<1>6. CASE ~DispatchRequest /\ ~DrainDispatch /\ ~UpdateTask
  <2>1. lost' = lost
    BY <1>1, <1>6, SilenceFrame DEF CalmNext, SubmitTask, InsertTask, ReceiveRequest,
       AckRequest, ReceiveResponse, PublishCallback, DrainEnds, AckResponse,
       StartBroker, WorkerStart, Heartbeat, ReceiveTask, InferenceSucceeds,
       ReportSuccess, envVars
  <2> QED
    BY <2>1
<1> QED
  BY <1>3, <1>4, <1>5, <1>6

(* As long as no process stops, crashes or stalls and no operation raises, *)
(* no copy of any request is given up, for any number of requests and      *)
(* workers; only a result that overtakes its own row is wasted.            *)
THEOREM CalmRunsLoseNothing == Spec => []UndisturbedLosesNothing
<1>1. Init => UndisturbedLosesNothing
  BY DEF Init, EnvInit, UndisturbedLosesNothing
<1> QED
  BY <1>1, LosesNothingStep, TypeCorrect, CalmInvCorrect, PTL DEF Spec
(*------------------------- handed out only once ------------------------*)

(* What is left of a sequence from an index on, and that nothing in it     *)
(* occurs twice.                                                           *)
Rest(s, from) == { s[i] : i \in from .. Len(s) }

Once(s, from) == \A i, j \in from .. Len(s) : s[i] = s[j] => i = j

LEMMA HeldIsRest ==
  ASSUME NEW S, NEW s \in Seq(S)
  PROVE  Held(s) = Rest(s, 1)
  BY HeldByIndex DEF Rest

LEMMA RestAppend ==
  ASSUME NEW S, NEW s \in Seq(S), NEW e \in S,
         NEW from \in Nat \ {0}, from <= Len(s) + 1
  PROVE  /\ Rest(Append(s, e), from) = Rest(s, from) \cup {e}
         /\ Once(s, from) /\ e \notin Rest(s, from) => Once(Append(s, e), from)
<1> DEFINE t == Append(s, e)
<1>1. /\ t \in Seq(S) /\ Len(t) = Len(s) + 1 /\ Len(s) \in Nat
      /\ \A i \in 1 .. Len(s) : t[i] = s[i]
      /\ t[Len(s) + 1] = e
  OBVIOUS
<1> HIDE DEF t
<1>2. /\ \A i \in from .. Len(t) : i \in from .. Len(s) \/ i = Len(s) + 1
      /\ \A i \in from .. Len(s) : i \in from .. Len(t) /\ t[i] = s[i]
      /\ Len(s) + 1 \in from .. Len(t)
  BY <1>1
<1>3. Rest(t, from) = Rest(s, from) \cup {e}
  BY <1>1, <1>2 DEF Rest
<1>4. ASSUME Once(s, from), e \notin Rest(s, from),
             NEW i \in from .. Len(t), NEW j \in from .. Len(t), t[i] = t[j]
      PROVE  i = j
  <2>1. CASE i \in from .. Len(s) /\ j \in from .. Len(s)
    BY <1>2, <1>4, <2>1 DEF Once
  <2>2. CASE i = Len(s) + 1 /\ j \in from .. Len(s)
    BY <1>1, <1>2, <1>4, <2>2 DEF Rest
  <2>3. CASE i \in from .. Len(s) /\ j = Len(s) + 1
    BY <1>1, <1>2, <1>4, <2>3 DEF Rest
  <2> QED
    BY <1>2, <2>1, <2>2, <2>3
<1> QED
  BY <1>3, <1>4 DEF t, Once

LEMMA RestAdvance ==
  ASSUME NEW S, NEW s \in Seq(S), NEW from \in Nat \ {0}, from <= Len(s), Once(s, from)
  PROVE  /\ Rest(s, from) = {s[from]} \cup Rest(s, from + 1)
         /\ s[from] \notin Rest(s, from + 1)
         /\ Once(s, from + 1)
<1>1. /\ Len(s) \in Nat /\ from \in from .. Len(s)
      /\ \A i \in from + 1 .. Len(s) : i \in from .. Len(s) /\ i # from
      /\ \A i \in from .. Len(s) : i = from \/ i \in from + 1 .. Len(s)
  OBVIOUS
<1> QED
  BY <1>1 DEF Rest, Once

LEMMA RestSuffix ==
  ASSUME NEW S, NEW s \in Seq(S), NEW from \in Nat \ {0}, from <= Len(s) + 1
  PROVE  /\ Rest(SubSeq(s, from, Len(s)), 1) = Rest(s, from)
         /\ Once(s, from) => Once(SubSeq(s, from, Len(s)), 1)
<1> DEFINE t == SubSeq(s, from, Len(s))
<1>1. /\ t \in Seq(S) /\ Len(t) = Len(s) - from + 1 /\ Len(s) \in Nat
      /\ \A i \in 1 .. Len(s) - from + 1 : t[i] = s[from + i - 1]
  BY SuffixOfSeq
<1> HIDE DEF t
<1>2. ASSUME NEW i \in 1 .. Len(t)
      PROVE  from + i - 1 \in from .. Len(s) /\ t[i] = s[from + i - 1]
  BY <1>1
<1>3. ASSUME NEW j \in from .. Len(s)
      PROVE  j - from + 1 \in 1 .. Len(t) /\ t[j - from + 1] = s[j]
  <2>1. j - from + 1 \in 1 .. Len(t) /\ from + (j - from + 1) - 1 = j
    BY <1>1
  <2> QED
    BY <1>2, <2>1
<1>4. Rest(t, 1) = Rest(s, from)
  <2>1. ASSUME NEW i \in 1 .. Len(t)
        PROVE  t[i] \in Rest(s, from)
    BY <1>2 DEF Rest
  <2>2. ASSUME NEW j \in from .. Len(s)
        PROVE  s[j] \in Rest(t, 1)
    BY <1>3 DEF Rest
  <2> QED
    BY <2>1, <2>2 DEF Rest
<1>5. ASSUME Once(s, from), NEW i \in 1 .. Len(t), NEW j \in 1 .. Len(t), t[i] = t[j]
      PROVE  i = j
  <2>1. from + i - 1 = from + j - 1
    BY <1>2, <1>5 DEF Once
  <2> QED
    BY <2>1
<1> QED
  BY <1>4, <1>5 DEF t, Once

LEMMA OnceTail ==
  ASSUME NEW S, NEW s \in Seq(S), s # << >>, Once(s, 1)
  PROVE  Once(Tail(s), 1) /\ Head(s) \notin Held(Tail(s))
<1> DEFINE t == Tail(s)
<1>1. /\ t \in Seq(S) /\ Len(t) = Len(s) - 1 /\ Len(s) \in Nat \ {0}
      /\ \A i \in 1 .. Len(s) - 1 : t[i] = s[i + 1]
      /\ Head(s) = s[1]
  OBVIOUS
<1>2. Held(t) = { t[i] : i \in 1 .. Len(s) - 1 }
  BY <1>1, HeldByIndex
<1> HIDE DEF t
<1>3. 1 \in 1 .. Len(s)
      /\ \A i \in 1 .. Len(s) - 1 : i + 1 \in 1 .. Len(s) /\ i + 1 # 1
  BY <1>1
<1>4. Head(s) \notin Held(t)
  BY <1>1, <1>2, <1>3 DEF Once
<1>5. ASSUME NEW i \in 1 .. Len(t), NEW j \in 1 .. Len(t), t[i] = t[j]
      PROVE  i = j
  <2>1. i + 1 = j + 1
    BY <1>1, <1>3, <1>5 DEF Once
  <2> QED
    BY <2>1
<1> QED
  BY <1>4, <1>5 DEF t, Once

(* The part of the list that process_pending_requests has yet to dispatch: *)
(* all of it, unless the drain is under way.                               *)
From == IF rspH.step = "drain" THEN rspH.idx ELSE 1

Line == Rest(pending_requests, From)

(* What the broker has to hand out is in one place only.                   *)
OneCopy ==
  /\ Once(requestQ, 1)
  /\ Once(pending_requests, From)
  /\ Held(requestQ) \cap Line = {}
  /\ reqH.step = "publish" => reqH.request \notin Held(requestQ) \cup Line

LEMMA DispatchingMeans ==
  \A r : Dispatching(r) <=> \/ r \in Held(requestQ)
                            \/ reqH.step = "publish" /\ reqH.request = r
                            \/ r \in Line
  BY DEF Dispatching, Line, Rest, From

LEMMA DispatchingMeansNext ==
  (\A r : Dispatching(r) <=> \/ r \in Held(requestQ)
                             \/ reqH.step = "publish" /\ reqH.request = r
                             \/ r \in Line)'
  BY DispatchingMeans, PTL

(* Dispatched in this step.                                                *)
HandedOut(r) ==
  \/ DispatchRequest /\ r = reqH.request
  \/ DrainDispatch /\ r = pending_requests[rspH.idx]

(* An undisturbed step keeps what is to be handed out in one place, hands  *)
(* it out once, and adds only requests that were never published before.   *)
LEMMA LineStep ==
  ASSUME TypeOK, BrokerInv, Provenance, CalmInv, disruptions = 0, OneCopy, CalmNext
  PROVE  /\ OneCopy'
         /\ \A r \in Requests :
              Dispatching(r)' => \/ Dispatching(r) /\ ~HandedOut(r)
                                 \/ r \notin Issued
<1>1. /\ requestQ \in Seq(Requests)
      /\ pending_requests \in Seq(Requests)
      /\ reqH \in {ReqIdle} \cup [step : {"publish", "ack"}, request : Requests]
      /\ rspH \in {RspIdle} \cup
           [step : {"update", "callback", "drain", "ack"}, msg : TaskResponse,
            idx : Nat \ {0}]
  BY DEF TypeOK, RabbitMQTypeOK, BrokerTypeOK
<1>2. /\ From \in Nat \ {0} /\ From <= Len(pending_requests) + 1
      /\ rspH.step \in {"update", "callback"} => rspH.idx = 1
      /\ rspH.idx \in Nat \ {0}
  <2>1. rspH.idx \in Nat \ {0} /\ Len(pending_requests) \in Nat
    BY <1>1 DEF RspIdle
  <2> QED
    BY <2>1 DEF From, BrokerInv, DrainInRange, CalmInv
<1>3. OneCopy
  OBVIOUS
<1>4. \A r : Dispatching(r) <=> \/ r \in Held(requestQ)
                                \/ reqH.step = "publish" /\ reqH.request = r
                                \/ r \in Line
  BY DispatchingMeans
<1>5. \A r : Dispatching(r)' <=> \/ r \in Held(requestQ')
                                 \/ reqH'.step = "publish" /\ reqH'.request = r
                                 \/ r \in Line'
  BY DispatchingMeansNext
<1>6. ASSUME UNCHANGED << requestQ, pending_requests, From >>,
             ~DispatchRequest, ~DrainDispatch,
             reqH' = reqH \/ reqH'.step # "publish"
      PROVE  /\ OneCopy'
             /\ \A r : Dispatching(r)' => Dispatching(r) /\ ~HandedOut(r)
  BY <1>3, <1>4, <1>5, <1>6 DEF OneCopy, HandedOut, Line, Rest, Once
<1>7. CASE \E q \in Requests : SubmitTask(q) /\ UNCHANGED << brokerVars, llmVars >>
  <2>1. PICK q \in Requests : SubmitTask(q)
    BY <1>7
  <2>2. /\ requestQ' = Append(requestQ, q) /\ q \notin Issued
        /\ UNCHANGED << pending_requests, From, reqH, rspH >>
    BY <1>7, <2>1 DEF SubmitTask, Issued, Published, brokerVars, From
  <2>3. /\ requestQ \in Seq(Issued) /\ pending_requests \in Seq(Issued)
        /\ reqH.step = "publish" => reqH.request \in Issued
    BY DEF Provenance, RequestProvenance
  <2>4. Held(requestQ) \subseteq Issued /\ Held(requestQ) = Rest(requestQ, 1)
    BY <1>1, <2>3, HeldByIndex, HeldIsRest
  <2>5. Line \subseteq Issued
    BY <1>2, <2>3 DEF Line, Rest
  <2>6. Held(requestQ') = Held(requestQ) \cup {q}
    BY <1>1, <2>2, HeldAppend
  <2>7. 1 \in Nat \ {0} /\ 1 <= Len(requestQ) + 1 /\ q \notin Rest(requestQ, 1)
    BY <1>1, <2>2, <2>4
  <2>8. Once(requestQ', 1)
    BY <1>1, <1>3, <2>2, <2>7, RestAppend DEF OneCopy
  <2>9. ~DispatchRequest /\ ~DrainDispatch
    BY <1>1, <2>2 DEF DispatchRequest, DrainDispatch, ReqIdle, RspIdle
  <2>10. Line' = Line /\ Once(pending_requests, From)'
    BY <1>3, <2>2 DEF OneCopy, Line, Rest, Once
  <2>11. OneCopy'
    BY <1>3, <2>2, <2>3, <2>4, <2>5, <2>6, <2>8, <2>10 DEF OneCopy
  <2> QED
    BY <1>4, <1>5, <2>2, <2>6, <2>9, <2>10, <2>11 DEF HandedOut
<1>8. CASE ReceiveRequest
  <2> DEFINE h == Head(requestQ)
  <2>1. requestQ # << >> /\ requestQ' = Tail(requestQ) /\ UNCHANGED << From, rspH >>
        /\ reqH.step = "idle"
    BY <1>8 DEF ReceiveRequest, From
  <2>2. h \in Requests /\ Held(requestQ) = {h} \cup Held(requestQ')
    BY <1>1, <2>1, HeldTail
  <2>3. Once(requestQ', 1) /\ h \notin Held(requestQ')
    BY <1>1, <1>3, <2>1, OnceTail DEF OneCopy
  <2>4. h \notin Line
    BY <1>3, <2>2 DEF OneCopy
  <2>5. ~DispatchRequest /\ ~DrainDispatch
    BY <1>1, <2>1 DEF DispatchRequest, DrainDispatch, RspIdle
  <2>6. CASE pending_requests' = Append(pending_requests, h) /\ reqH'.step = "ack"
    <3>1. Line' = Line \cup {h} /\ Once(pending_requests', From)
      BY <1>1, <1>2, <1>3, <2>1, <2>2, <2>4, <2>6, RestAppend DEF OneCopy, Line
    <3>2. OneCopy'
      BY <1>3, <2>1, <2>2, <2>3, <2>6, <3>1 DEF OneCopy
    <3> QED
      BY <1>4, <1>5, <2>2, <2>5, <2>6, <3>1, <3>2 DEF HandedOut
  <2>7. CASE /\ pending_requests' = pending_requests
             /\ reqH'.step = "publish" /\ reqH'.request = h
    <3>1. Line' = Line
      BY <2>1, <2>7 DEF Line
    <3>2. OneCopy'
      BY <1>3, <2>1, <2>2, <2>3, <2>4, <2>7, <3>1 DEF OneCopy
    <3> QED
      BY <1>4, <1>5, <2>2, <2>5, <2>7, <3>1, <3>2 DEF HandedOut
  <2> QED
    BY <1>8, <2>6, <2>7 DEF ReceiveRequest, KeepOrPublish
<1>9. CASE DispatchRequest
  <2>1. /\ UNCHANGED << requestQ, pending_requests, From, rspH >>
        /\ reqH.step = "publish" /\ reqH'.step # "publish"
    BY <1>1, <1>9 DEF DispatchRequest, From, ReqIdle
  <2>2. Line' = Line
    BY <2>1 DEF Line
  <2>3. OneCopy'
    BY <1>3, <2>1, <2>2 DEF OneCopy
  <2>4. ~DrainDispatch
    BY <1>1, <2>1 DEF DrainDispatch, RspIdle
  <2> QED
    BY <1>3, <1>4, <1>5, <2>1, <2>2, <2>3, <2>4 DEF OneCopy, HandedOut
<1>10. CASE DrainDispatch
  <2> DEFINE q == pending_requests[rspH.idx]
  <2>1. /\ UNCHANGED << requestQ, pending_requests, reqH >>
        /\ From = rspH.idx /\ From <= Len(pending_requests)
        /\ From' = From + 1
    BY <1>1, <1>2, <1>10 DEF DrainDispatch, Draining, From, RspIdle
  <2>2. Line = {q} \cup Line' /\ q \notin Line' /\ Once(pending_requests', From')
    BY <1>1, <1>2, <1>3, <2>1, RestAdvance DEF OneCopy, Line
  <2>3. OneCopy'
    BY <1>3, <2>1, <2>2 DEF OneCopy
  <2>4. ~DispatchRequest
    BY <1>1, <2>1 DEF DispatchRequest, ReqIdle
  <2> QED
    BY <1>3, <1>4, <1>5, <2>1, <2>2, <2>3, <2>4 DEF OneCopy, HandedOut
<1>11. CASE DrainEnds
  <2>1. /\ UNCHANGED << requestQ, reqH >>
        /\ From = rspH.idx /\ From' = 1
        /\ pending_requests' = SubSeq(pending_requests, From, Len(pending_requests))
    BY <1>1, <1>11 DEF DrainEnds, Remaining, From, RspIdle, mqVars
  <2>2. Line' = Line /\ Once(pending_requests', From')
    BY <1>1, <1>2, <1>3, <2>1, RestSuffix DEF OneCopy, Line
  <2>3. OneCopy'
    BY <1>3, <2>1, <2>2 DEF OneCopy
  <2>4. ~DispatchRequest /\ ~DrainDispatch
    <3>1. ~DispatchRequest
      BY <1>1, <2>1 DEF DispatchRequest, ReqIdle
    <3>2. ~DrainDispatch
      BY <1>1, <1>2, <1>11 DEF DrainDispatch, DrainEnds, Draining
    <3> QED
      BY <3>1, <3>2
  <2> QED
    BY <1>4, <1>5, <2>1, <2>2, <2>3, <2>4 DEF HandedOut
<1>12. CASE AckRequest
  <2>1. /\ UNCHANGED << requestQ, pending_requests, From, rspH >>
        /\ reqH'.step = "idle" /\ reqH.step # "publish"
    BY <1>12 DEF AckRequest, From, ReqIdle, mqVars
  <2>2. ~DispatchRequest /\ ~DrainDispatch
    BY <1>1, <2>1 DEF DispatchRequest, DrainDispatch, RspIdle
  <2> QED
    BY <1>6, <2>1, <2>2
<1>13. CASE ReceiveResponse \/ UpdateTask \/ PublishCallback \/ AckResponse
  <2>1. /\ UNCHANGED << requestQ, pending_requests, reqH >>
        /\ ~DispatchRequest /\ ~DrainDispatch
    BY <1>1, <1>13 DEF ReceiveResponse, UpdateTask, PublishCallback, AckResponse,
       DispatchRequest, DrainDispatch, Draining, mqVars, ReqIdle
  <2>2. From' = From
    <3>1. CASE ReceiveResponse \/ AckResponse
      BY <3>1 DEF ReceiveResponse, AckResponse, From, RspIdle
    <3>2. CASE UpdateTask \/ PublishCallback
      BY <1>1, <1>2, <3>2 DEF UpdateTask, PublishCallback, From, RspIdle
    <3> QED
      BY <1>13, <3>1, <3>2
  <2> QED
    BY <1>6, <2>1, <2>2
<1>14. CASE UNCHANGED << requestQ, pending_requests, reqH, rspH >>
  BY <1>1, <1>6, <1>14 DEF DispatchRequest, DrainDispatch, From, ReqIdle, RspIdle
<1>15. CASE StartBroker
  BY <1>14, <1>15 DEF StartBroker, mqVars
<1>16. CASE (\E q \in Requests : InsertTask(q)) /\ UNCHANGED << brokerVars, llmVars >>
  BY <1>14, <1>16 DEF InsertTask, mqVars, brokerVars
<1>17. CASE /\ \E w \in Workers :
                 \/ WorkerStart(w) \/ Heartbeat(w) \/ ReceiveTask(w)
                 \/ InferenceSucceeds(w) \/ ReportSuccess(w)
            /\ UNCHANGED << api, tasks, brokerVars >>
  BY <1>14, <1>17 DEF WorkerStart, Heartbeat, ReceiveTask, InferenceSucceeds,
     ReportSuccess, mqVars, brokerVars
<1>18. CASE (\E w \in Workers : MissHeartbeats(w)) \/ UNCHANGED vars
  BY <1>14, <1>18, SilenceFrame DEF mqVars
<1> QED
  BY <1>7, <1>8, <1>9, <1>10, <1>11, <1>12, <1>13, <1>15, <1>16, <1>17, <1>18
     DEF CalmNext

(*---------- nothing reaches a worker but what is handed out ------------*)

(* With a worker, on its way back, or answered already.                    *)
Handled(r) == Downstream(r) \/ answered[r] # {}

LEMMA RouteAddsOnly ==
  ASSUME TypeOK, NEW q \in Requests, Route(q), NEW w \in Workers, UNCHANGED worker,
         NEW r \in Unreported(w)'
  PROVE  r \in Unreported(w) \/ r = q
<1>1. workerQ[w] \in Seq(Requests)
      /\ (workerQ'[w] = workerQ[w] \/ workerQ'[w] = Append(workerQ[w], q))
  BY DEF Route, TypeOK, RabbitMQTypeOK
<1>2. Held(Append(workerQ[w], q)) = Held(workerQ[w]) \cup {q}
  BY <1>1, HeldAppend
<1>3. Held(workerQ'[w]) \subseteq Held(workerQ[w]) \cup {q}
  BY <1>1, <1>2
<1> QED
  BY <1>3 DEF Unreported

(* A worker passes on what it was handed: it takes up, answers and reports *)
(* only requests it holds.                                                 *)
LEMMA WorkerAddsOnly ==
  ASSUME TypeOK, BoundInv, UNCHANGED rspH, NEW w \in Workers,
         \/ WorkerStart(w) \/ Heartbeat(w) \/ ReceiveTask(w)
         \/ InferenceSucceeds(w) \/ ReportSuccess(w),
         NEW r \in Requests, Handled(r)'
  PROVE  Handled(r)
<1>1. /\ worker \in [Workers -> WorkerRecord]
      /\ workerQ \in [Workers -> Seq(Requests)]
      /\ bound \subseteq Workers
      /\ responseQ \in Seq(Response)
  BY DEF TypeOK, LLMWorkerTypeOK, RabbitMQTypeOK
<1>2. worker[w] \in WorkerRecord
  BY <1>1
<1>3. worker[w].step # "idle" =>
        w \in bound /\ worker[w].task \in Requests /\ worker[w].task \in Unreported(w)
  BY <1>2 DEF WorkerRecord, BoundInv, Consuming, Unreported
<1>4. CASE answered'[r] # {}
  <2>1. answered'[r] = answered[r] \/ (InferenceSucceeds(w) /\ r = worker[w].task)
    BY DEF WorkerStart, Heartbeat, ReceiveTask, InferenceSucceeds, ReportSuccess,
       llmVars, TypeOK, LLMWorkerTypeOK
  <2> QED
    BY <1>3, <1>4, <2>1 DEF InferenceSucceeds, Handled, Downstream
<1>5. CASE rspH'.step = "update" /\ rspH'.msg.request = r
  BY <1>5 DEF Handled, Downstream
<1>6. CASE \E m \in Held(responseQ') : m.request = r
  <2>1. CASE Heartbeat(w)
    <3>1. Presence("heartbeat", w) \in Response
      BY DEF Presence, Msg, Response, PresenceMessage
    <3>2. Held(responseQ') = Held(responseQ) \cup {Presence("heartbeat", w)}
      BY <1>1, <2>1, <3>1, HeldAppend DEF Heartbeat, Respond
    <3>3. Presence("heartbeat", w).request # r
      BY EnvironmentAssumption DEF Presence, Msg
    <3> QED
      BY <1>6, <3>2, <3>3 DEF Handled, Downstream
  <2>2. CASE ReportSuccess(w)
    <3> DEFINE n == Msg("success", w, worker[w].task, worker[w].result)
    <3>1. n \in Response
      BY <1>2, <1>3, <2>2 DEF ReportSuccess, Msg, Response, TaskResponse, WorkerRecord
    <3>2. Held(responseQ') = Held(responseQ) \cup {n}
      BY <1>1, <2>2, <3>1, HeldAppend DEF ReportSuccess, Respond
    <3>3. n.request = worker[w].task
      BY DEF Msg
    <3>4. Downstream(worker[w].task)
      BY <1>3, <2>2 DEF ReportSuccess, Downstream
    <3> QED
      BY <1>6, <3>2, <3>3, <3>4 DEF Handled, Downstream
  <2>3. CASE ~Heartbeat(w) /\ ~ReportSuccess(w)
    <3>1. responseQ' = responseQ
      BY <2>3 DEF WorkerStart, ReceiveTask, InferenceSucceeds, mqVars
    <3> QED
      BY <1>6, <3>1 DEF Handled, Downstream
  <2> QED
    BY <2>1, <2>2, <2>3
<1>7. CASE \E v \in bound' : r \in Unreported(v)'
  <2>1. PICK v \in bound' : r \in Unreported(v)'
    BY <1>7
  <2>2. v \in Workers /\ (v \in bound \/ v = w)
    BY <1>1, <2>1 DEF WorkerStart, DeclareAndBind, Heartbeat, ReceiveTask,
       InferenceSucceeds, ReportSuccess, mqVars
  <2>3. CASE v # w
    <3>1. workerQ'[v] = workerQ[v] /\ worker'[v] = worker[v]
      BY <1>1, <2>2, <2>3 DEF WorkerStart, DeclareAndBind, Heartbeat, ReceiveTask,
         InferenceSucceeds, ReportSuccess, Finish, mqVars, llmVars
    <3> QED
      BY <2>1, <2>2, <2>3, <3>1 DEF Handled, Downstream, Unreported
  <2>4. CASE v = w /\ WorkerStart(w)
    <3>1. w \notin bound /\ worker'[w].step = "idle"
      BY <1>1, <1>2, <2>4 DEF WorkerStart, BoundInv, Consuming, WorkerRecord
    <3>2. workerQ'[w] = << >>
      BY <2>4, <3>1 DEF WorkerStart, DeclareAndBind, BoundInv
    <3> QED
      BY <2>1, <2>4, <3>1, <3>2, HeldEmpty DEF Unreported
  <2>5. CASE v = w /\ ReceiveTask(w)
    <3>1. /\ w \in bound /\ workerQ[w] # << >>
          /\ workerQ'[w] = Tail(workerQ[w])
          /\ worker'[w].task = Head(workerQ[w])
      BY <1>1, <1>2, <2>5 DEF ReceiveTask, BoundInv, WorkerRecord
    <3>2. Held(workerQ[w]) = {Head(workerQ[w])} \cup Held(Tail(workerQ[w]))
      BY <1>1, <3>1, HeldTail
    <3>3. r \in Held(workerQ[w])
      BY <2>1, <2>5, <3>1, <3>2 DEF Unreported
    <3> QED
      BY <3>1, <3>3 DEF Handled, Downstream, Unreported
  <2>6. CASE v = w /\ (Heartbeat(w) \/ InferenceSucceeds(w) \/ ReportSuccess(w))
    <3>1. /\ workerQ' = workerQ /\ w \in bound
          /\ worker'[w].step # "idle" =>
               worker[w].step # "idle" /\ worker'[w].task = worker[w].task
      <4>1. CASE Heartbeat(w)
        BY <2>1, <2>6, <4>1 DEF Heartbeat, llmVars
      <4>2. CASE InferenceSucceeds(w)
        BY <1>1, <1>2, <2>1, <2>6, <4>2 DEF InferenceSucceeds, mqVars, WorkerRecord
      <4>3. CASE ReportSuccess(w)
        <5>1. worker'[w] = Idle(worker[w].state)
          BY <1>1, <4>3 DEF ReportSuccess, Finish
        <5> QED
          BY <2>1, <2>6, <4>3, <5>1 DEF ReportSuccess, Idle
      <4> QED
        BY <2>6, <4>1, <4>2, <4>3
    <3> QED
      BY <2>1, <2>6, <3>1 DEF Handled, Downstream, Unreported
  <2> QED
    BY <2>3, <2>4, <2>5, <2>6
<1> QED
  BY <1>4, <1>5, <1>6, <1>7 DEF Handled, Downstream

(* In an undisturbed step only a dispatch makes a request a handled one.   *)
LEMMA HandledStep ==
  ASSUME TypeOK, BoundInv, CalmNext, NEW r \in Requests, Handled(r)'
  PROVE  Handled(r) \/ HandedOut(r)
<1>1. /\ bound \subseteq Workers
      /\ responseQ \in Seq(Response)
      /\ pending_requests \in Seq(Requests)
      /\ reqH \in {ReqIdle} \cup [step : {"publish", "ack"}, request : Requests]
      /\ rspH \in {RspIdle} \cup
           [step : {"update", "callback", "drain", "ack"}, msg : TaskResponse,
            idx : Nat \ {0}]
  BY DEF TypeOK, RabbitMQTypeOK, BrokerTypeOK
<1>2. ASSUME UNCHANGED << bound, llmVars >>, Held(responseQ') \subseteq Held(responseQ),
             rspH'.step = "update" => \/ rspH' = rspH
                                      \/ rspH'.msg \in Held(responseQ),
             \A w \in bound : r \in Unreported(w)' => r \in Unreported(w) \/ HandedOut(r)
      PROVE  Handled(r) \/ HandedOut(r)
  BY <1>2 DEF Handled, Downstream, llmVars
<1>3. UNCHANGED << workerQ, worker >> => \A w : Unreported(w)' = Unreported(w)
  BY DEF Unreported
<1>4. CASE UNCHANGED << bound, workerQ, llmVars, responseQ, rspH >>
  BY <1>2, <1>3, <1>4 DEF llmVars
<1>5. CASE ReceiveResponse /\ UNCHANGED llmVars
  <2>1. Held(responseQ) = {Head(responseQ)} \cup Held(responseQ')
    BY <1>1, <1>5, HeldTail DEF ReceiveResponse
  <2>2. rspH'.step = "update" => rspH'.msg = Head(responseQ)
    BY <1>5 DEF ReceiveResponse, RspIdle
  <2> QED
    BY <1>2, <1>3, <1>5, <2>1, <2>2 DEF ReceiveResponse, llmVars
<1>6. CASE /\ UpdateTask \/ PublishCallback \/ DrainEnds \/ AckResponse
           /\ UNCHANGED llmVars
  <2>1. rspH'.step # "update"
    BY <1>1, <1>6 DEF UpdateTask, AfterUpdate, PublishCallback, DrainEnds, AckResponse,
       RspIdle
  <2>2. UNCHANGED << bound, workerQ, responseQ >>
    BY <1>6 DEF UpdateTask, PublishCallback, DrainEnds, AckResponse, mqVars
  <2> QED
    BY <1>2, <1>3, <1>6, <2>1, <2>2 DEF llmVars
<1>7. CASE DispatchRequest /\ UNCHANGED llmVars
  <2>1. reqH.request \in Requests /\ Route(reqH.request)
    BY <1>1, <1>7 DEF DispatchRequest, ReqIdle
  <2>2. \A w \in Workers : r \in Unreported(w)' => r \in Unreported(w) \/ HandedOut(r)
    BY <1>7, <2>1, RouteAddsOnly DEF HandedOut, llmVars
  <2> QED
    BY <1>1, <1>2, <1>7, <2>2 DEF DispatchRequest
<1>8. CASE DrainDispatch /\ UNCHANGED llmVars
  <2>1. pending_requests[rspH.idx] \in Requests /\ Route(pending_requests[rspH.idx])
    BY <1>1, <1>8 DEF DrainDispatch, Draining, RspIdle
  <2>2. \A w \in Workers : r \in Unreported(w)' => r \in Unreported(w) \/ HandedOut(r)
    BY <1>8, <2>1, RouteAddsOnly DEF HandedOut, llmVars
  <2>3. rspH'.step # "update"
    BY <1>1, <1>8 DEF DrainDispatch, Draining, RspIdle
  <2>4. UNCHANGED << bound, responseQ >>
    BY <1>8 DEF DrainDispatch
  <2> QED
    BY <1>1, <1>2, <1>8, <2>2, <2>3, <2>4
<1>9. CASE /\ ReceiveRequest \/ AckRequest \/ StartBroker
           /\ UNCHANGED llmVars
  BY <1>4, <1>9 DEF ReceiveRequest, AckRequest, StartBroker, mqVars
<1>10. CASE /\ \E q \in Requests : SubmitTask(q) \/ InsertTask(q)
            /\ UNCHANGED << brokerVars, llmVars >>
  BY <1>4, <1>10 DEF SubmitTask, InsertTask, mqVars, brokerVars
<1>11. CASE /\ \E w \in Workers :
                 \/ WorkerStart(w) \/ Heartbeat(w) \/ ReceiveTask(w)
                 \/ InferenceSucceeds(w) \/ ReportSuccess(w)
            /\ UNCHANGED << api, tasks, brokerVars >>
  BY <1>11, WorkerAddsOnly DEF brokerVars
<1>12. CASE (\E w \in Workers : MissHeartbeats(w)) \/ UNCHANGED vars
  BY <1>4, <1>12, SilenceFrame DEF mqVars
<1> QED
  BY <1>5, <1>6, <1>7, <1>8, <1>9, <1>10, <1>11, <1>12 DEF CalmNext

(* A request that was never published is nowhere.                          *)
LEMMA UnissuedIsNowhere ==
  ASSUME TypeOK, Provenance, NEW r \in Requests, r \notin Issued
  PROVE  ~Handled(r) /\ ~HandedOut(r)
<1>1. /\ bound \subseteq Workers
      /\ workerQ \in [Workers -> Seq(Issued)]
      /\ \A w \in Workers : worker[w].step # "idle" => worker[w].task \in Issued
      /\ answered[r] = {}
      /\ reqH.step # "idle" => reqH.request \in Issued
      /\ pending_requests \in Seq(Issued)
      /\ responseQ \in Seq(Results \cup PresenceMessage)
      /\ rspH.step # "idle" => rspH.msg \in Results
      /\ rspH.idx \in Nat \ {0}
  BY DEF TypeOK, RabbitMQTypeOK, BrokerTypeOK, RspIdle, Provenance, RequestProvenance,
     ResultProvenance
<1>2. ASSUME NEW w \in bound
      PROVE  r \notin Unreported(w)
  <2>1. workerQ[w] \in Seq(Issued)
    BY <1>1
  <2>2. Held(workerQ[w]) \subseteq Issued
    BY <2>1, HeldByIndex
  <2> QED
    BY <1>1, <2>2 DEF Unreported
<1>3. ASSUME NEW m \in Held(responseQ)
      PROVE  m.request # r
  <2>1. m \in Results \cup PresenceMessage
    BY <1>1, HeldByIndex
  <2> QED
    BY <1>1, <2>1, EnvironmentAssumption DEF Results, PresenceMessage
<1>4. rspH.step = "update" => rspH.msg.request # r
  BY <1>1 DEF Results
<1>5. ~HandedOut(r)
  BY <1>1 DEF HandedOut, DispatchRequest, DrainDispatch, Draining
<1> QED
  BY <1>1, <1>2, <1>3, <1>4, <1>5 DEF Handled, Downstream

OnceInv == DispatchedOnce /\ (disruptions = 0 => OneCopy)

LEMMA OnceInvInit == Init => OnceInv
<1>1. Init => OneCopy
  BY DEF Init, RabbitMQInit, BrokerInit, RspIdle, ReqIdle, OneCopy, Once, From, Held
<1>2. Init => \A r : ~Dispatching(r)
  <2>1. Init => Held(requestQ) = {} /\ Line = {} /\ reqH.step = "idle"
    BY HeldEmpty DEF Init, RabbitMQInit, BrokerInit, RspIdle, ReqIdle, Line, Rest, From
  <2> QED
    BY <2>1, DispatchingMeans
<1> QED
  BY <1>1, <1>2 DEF OnceInv, DispatchedOnce

LEMMA OnceInvStep ==
  TypeOK /\ Provenance /\ BrokerInv /\ BoundInv /\ CalmInv /\ OnceInv /\ [Next]_vars
    => OnceInv'
<1> SUFFICES ASSUME TypeOK, Provenance, BrokerInv, BoundInv, CalmInv, OnceInv,
                    [Next]_vars, disruptions' = 0
             PROVE  /\ OneCopy'
                    /\ \A r \in Requests :
                         Dispatching(r)' => ~Downstream(r)' /\ answered'[r] = {}
  BY DEF OnceInv, DispatchedOnce
<1>1. disruptions = 0 /\ CalmNext
  BY StaysCalm
<1>2. OneCopy /\ \A r \in Requests : Dispatching(r) => ~Handled(r)
  BY <1>1 DEF OnceInv, DispatchedOnce, Handled
<1>3. /\ OneCopy'
      /\ \A r \in Requests :
           Dispatching(r)' => (Dispatching(r) /\ ~HandedOut(r)) \/ r \notin Issued
  BY <1>1, <1>2, LineStep
<1>4. ASSUME NEW r \in Requests, Dispatching(r)'
      PROVE  ~Handled(r)'
  <2>1. ~Handled(r) /\ ~HandedOut(r)
    BY <1>2, <1>3, <1>4, UnissuedIsNowhere
  <2> QED
    BY <1>1, <2>1, HandledStep
<1> QED
  BY <1>3, <1>4 DEF Handled

LEMMA OnceInvCorrect == Spec => []OnceInv
  BY OnceInvInit, OnceInvStep, TypeCorrect, ProvenanceCorrect, BrokerInvCorrect,
     BoundInvCorrect, CalmInvCorrect, PTL DEF Spec

(* As long as nothing is disrupted, the broker hands out each request once,*)
(* for any number of requests and workers: neither the drain of the list   *)
(* nor the request handler publishes what the other has published, and     *)
(* what is with a worker, or answered, is not in line again.               *)
THEOREM NoneIsHandedOutTwice == Spec => []DispatchedOnce
<1>1. OnceInv => DispatchedOnce
  BY DEF OnceInv
<1> QED
  BY <1>1, OnceInvCorrect, PTL

(*------------------------ what a client can expect ---------------------*)

(* Every queue is empty and every handler idle.                            *)
Quiet ==
  /\ requestQ = << >> /\ responseQ = << >> /\ pending_requests = << >>
  /\ reqH = ReqIdle /\ rspH = RspIdle
  /\ \A w \in Workers : workerQ[w] = << >> /\ worker[w].step = "idle"

(* Undisturbed and at rest, the pipeline has served every request that was *)
(* published: its row is ready, or what came before the row was wasted;    *)
(* and what a ready row says was called back, to those who asked for it.   *)
QuietIsServed ==
  disruptions = 0 /\ Quiet =>
    \A r \in Requests :
      /\ Published(r) => tasks[r].status = "ready" \/ lost[r] = {"no_row"}
      /\ r \in WithCallback /\ tasks[r].status = "ready" =>
           tasks[r].result \in callbackQ[r].texts

LEMMA QuietHoldsNothing ==
  ASSUME TypeOK, BrokerInv, CalmInv, disruptions = 0, Quiet, NEW r \in Requests
  PROVE  ~Upstream(r) /\ ~Downstream(r)
<1>1. broker # "requeuing"
  BY DEF CalmInv
<1>2. InMemory = {}
  BY <1>1, InMemoryIsPending, HeldEmpty DEF Quiet
<1>3. Held(requestQ) = {} /\ Held(responseQ) = {}
  BY HeldEmpty DEF Quiet
<1>4. \A w \in Workers : Unreported(w) = {}
  BY HeldEmpty DEF Quiet, Unreported
<1>5. bound \subseteq Workers
  BY DEF TypeOK, RabbitMQTypeOK
<1>6. reqH.request # r /\ rspH.step # "update"
  BY EnvironmentAssumption DEF Quiet, ReqIdle, RspIdle
<1> QED
  BY <1>2, <1>3, <1>4, <1>5, <1>6 DEF Upstream, Downstream

(* The promise of the pipeline to its clients, for any number of them.     *)
THEOREM UndisturbedPipelineDelivers == Spec => []QuietIsServed
<1>1. TypeOK /\ BrokerInv /\ CalmInv /\ Provenance /\ NothingVanishes
        /\ ReadyIsCalledBack /\ UndisturbedLosesNothing
      => QuietIsServed
  <2> SUFFICES ASSUME TypeOK, BrokerInv, CalmInv, Provenance, NothingVanishes,
                      ReadyIsCalledBack, UndisturbedLosesNothing,
                      disruptions = 0, Quiet, NEW r \in Requests
               PROVE  /\ Published(r) =>
                           tasks[r].status = "ready" \/ lost[r] = {"no_row"}
                      /\ r \in WithCallback /\ tasks[r].status = "ready" =>
                           tasks[r].result \in callbackQ[r].texts
    BY DEF QuietIsServed
  <2>1. ~Upstream(r) /\ ~Downstream(r)
    BY QuietHoldsNothing
  <2>2. lost[r] \subseteq {"no_row"}
    BY DEF UndisturbedLosesNothing
  <2>3. tasks[r].status # "failed"
    BY DEF Provenance, RowProvenance
  <2>4. Published(r) => Settled(r)
    BY <2>1 DEF NothingVanishes
  <2>5. Published(r) => tasks[r].status = "ready" \/ lost[r] = {"no_row"}
    BY <2>2, <2>3, <2>4 DEF Settled
  <2>6. rspH.step = "idle" /\ responseQ = << >>
    BY DEF Quiet, RspIdle
  <2>7. lost[r] \cap {"callback_publish", "db_update"} = {}
    BY <2>2
  <2>8. r \in WithCallback /\ tasks[r].status = "ready" =>
          tasks[r].result \in callbackQ[r].texts
    BY <2>6, <2>7 DEF ReadyIsCalledBack, CalledBack
  <2> QED
    BY <2>5, <2>8
<1> QED
  BY <1>1, TypeCorrect, BrokerInvCorrect, CalmInvCorrect, ProvenanceCorrect,
     NoRequestVanishes, ReadyRowsAreCalledBack, CalmRunsLoseNothing, PTL

(*---------------------- once per worker, at most -----------------------*)

(* Where worker w, or its answer, is with request r.                       *)
Queued(w, r) == r \in Held(workerQ[w])

InHand(w, r) == worker[w].step # "idle" /\ worker[w].task = r

Answering(w, r) == \E m \in Held(responseQ) : m.worker = w /\ m.request = r

Recording(w, r) ==
  /\ rspH.step \in {"update", "callback"}
  /\ rspH.msg.worker = w /\ rspH.msg.request = r

Serving(w, r) == Queued(w, r) \/ InHand(w, r) \/ Answering(w, r) \/ Recording(w, r)

OnePlace(w, r) ==
  /\ Queued(w, r) => ~InHand(w, r) /\ ~Answering(w, r) /\ ~Recording(w, r)
  /\ InHand(w, r) => ~Answering(w, r) /\ ~Recording(w, r)
  /\ Answering(w, r) => ~Recording(w, r)

OneAnswerEach ==
  \A m, n \in Held(responseQ) :
    m.request \in Requests /\ n.request = m.request /\ n.worker = m.worker => n = m

(* Every worker serves a request once: no queue holds it twice, and it is  *)
(* at one stage at a time.                                                 *)
ServedOnce ==
  /\ Once(responseQ, 1)
  /\ OneAnswerEach
  /\ \A w \in Workers : Once(workerQ[w], 1)
  /\ \A w \in Workers, r \in Requests : OnePlace(w, r)

(* Every callback was caused by a worker of its own, which is through.     *)
CausedByAWorkerEach(r) ==
  \E S \in SUBSET Workers :
    /\ IsFiniteSet(S)
    /\ callbackQ[r].copies <= Cardinality(S)
    /\ \A w \in S : ~Serving(w, r)

ServedOnceStep ==
  /\ ServedOnce'
  /\ \A w \in Workers, r \in Requests :
       Serving(w, r)' => Serving(w, r) \/ HandedOut(r)

(* Stages that only end keep it.                                           *)
LEMMA ServedOnceKept ==
  ASSUME ServedOnce, UNCHANGED << responseQ, workerQ >>,
         \A w \in Workers, r \in Requests :
           /\ InHand(w, r)' => InHand(w, r)
           /\ Recording(w, r)' => Recording(w, r)
  PROVE  ServedOnceStep
<1>1. \A w \in Workers, r \in Requests :
        /\ Queued(w, r)' = Queued(w, r)
        /\ Answering(w, r)' = Answering(w, r)
  BY DEF Queued, Answering
<1>2. ServedOnce'
  BY <1>1 DEF ServedOnce, OnePlace, OneAnswerEach, Once
<1>3. \A w \in Workers, r \in Requests : Serving(w, r)' => Serving(w, r)
  BY <1>1 DEF Serving
<1> QED
  BY <1>2, <1>3 DEF ServedOnceStep

(* A dispatch puts the request in every queue once, for it was in none.    *)
LEMMA ServedOnceRouted ==
  ASSUME TypeOK, ServedOnce, NEW q \in Requests, Route(q), HandedOut(q),
         UNCHANGED << responseQ, worker >>,
         \A w \in Workers : ~Serving(w, q),
         \A w \in Workers, r \in Requests : Recording(w, r)' => Recording(w, r)
  PROVE  ServedOnceStep
<1>1. \A w \in Workers, r \in Requests :
        /\ InHand(w, r)' = InHand(w, r)
        /\ Answering(w, r)' = Answering(w, r)
  BY DEF InHand, Answering
<1>2. ASSUME NEW w \in Workers
      PROVE  Once(workerQ'[w], 1) /\ \A r : Queued(w, r)' => Queued(w, r) \/ r = q
  <2>1. /\ workerQ[w] \in Seq(Requests) /\ Once(workerQ[w], 1)
        /\ workerQ'[w] = workerQ[w] \/ workerQ'[w] = Append(workerQ[w], q)
    BY DEF Route, TypeOK, RabbitMQTypeOK, ServedOnce
  <2>2. Held(workerQ[w]) = Rest(workerQ[w], 1) /\ q \notin Held(workerQ[w])
    BY <2>1, HeldIsRest DEF Serving, Queued
  <2>3. 1 \in Nat \ {0} /\ 1 <= Len(workerQ[w]) + 1
    BY <2>1
  <2>4. Once(Append(workerQ[w], q), 1)
    BY <2>1, <2>2, <2>3, RestAppend
  <2>5. Held(Append(workerQ[w], q)) = Held(workerQ[w]) \cup {q}
    BY <2>1, HeldAppend
  <2> QED
    BY <2>1, <2>4, <2>5 DEF Queued
<1>3. ASSUME NEW w \in Workers, NEW r \in Requests
      PROVE  OnePlace(w, r)' /\ (Serving(w, r)' => Serving(w, r) \/ HandedOut(r))
  <2>1. CASE r = q
    BY <1>1, <2>1 DEF OnePlace, Serving
  <2>2. CASE r # q
    BY <1>1, <1>2, <2>2 DEF ServedOnce, OnePlace, Serving
  <2> QED
    BY <2>1, <2>2
<1>4. Once(responseQ', 1) /\ OneAnswerEach'
  BY DEF ServedOnce, OneAnswerEach, Once
<1>5. ServedOnce'
  BY <1>2, <1>3, <1>4 DEF ServedOnce
<1> QED
  BY <1>3, <1>5 DEF ServedOnceStep

(* The next answer goes from the queue to the handler; there was one only. *)
LEMMA ServedOnceReceived ==
  ASSUME TypeOK, Provenance, ServedOnce, ReceiveResponse, UNCHANGED worker
  PROVE  ServedOnceStep
<1> DEFINE m == Head(responseQ)
<1>1. /\ responseQ \in Seq(Results \cup PresenceMessage) /\ responseQ # << >>
      /\ responseQ' = Tail(responseQ) /\ Once(responseQ, 1)
      /\ UNCHANGED workerQ
  BY DEF Provenance, ResultProvenance, ReceiveResponse, ServedOnce
<1>2. /\ Held(responseQ) = {m} \cup Held(responseQ')
      /\ Held(responseQ) \subseteq Results \cup PresenceMessage
      /\ m \notin Held(responseQ') /\ Once(responseQ', 1)
  BY <1>1, HeldTail, HeldByIndex, OnceTail
<1>3. \A w \in Workers, r \in Requests :
        /\ Queued(w, r)' = Queued(w, r) /\ InHand(w, r)' = InHand(w, r)
        /\ Answering(w, r)' => Answering(w, r)
  BY <1>1, <1>2 DEF Queued, InHand, Answering
<1>4. ASSUME NEW w \in Workers, NEW r \in Requests, Recording(w, r)'
      PROVE  Answering(w, r) /\ ~Answering(w, r)'
  <2>1. m.worker = w /\ m.request = r
    BY <1>4 DEF Recording, ReceiveResponse, RspIdle
  <2>2. ASSUME NEW n \in Held(responseQ), n.worker = w, n.request = r
        PROVE  n = m
    <3>1. m \in Held(responseQ)
      BY <1>2
    <3> HIDE DEF m
    <3> QED
      BY <2>1, <2>2, <3>1 DEF ServedOnce, OneAnswerEach
  <2> QED
    BY <1>2, <2>1, <2>2 DEF Answering
<1>5. \A w \in Workers, r \in Requests :
        OnePlace(w, r)' /\ (Serving(w, r)' => Serving(w, r))
  BY <1>3, <1>4 DEF ServedOnce, OnePlace, Serving
<1>6. OneAnswerEach'
  BY <1>2 DEF ServedOnce, OneAnswerEach
<1>7. ServedOnce'
  BY <1>1, <1>2, <1>5, <1>6 DEF ServedOnce
<1> QED
  BY <1>5, <1>7 DEF ServedOnceStep

LEMMA ServedOnceHeartbeat ==
  ASSUME TypeOK, ServedOnce, NEW v \in Workers, Heartbeat(v), UNCHANGED rspH
  PROVE  ServedOnceStep
<1> DEFINE m == Presence("heartbeat", v)
<1>1. /\ responseQ \in Seq(Response) /\ m \in Response
      /\ responseQ' = Append(responseQ, m) /\ UNCHANGED << workerQ, worker >>
  BY DEF TypeOK, RabbitMQTypeOK, Heartbeat, Respond, Presence, Msg, Response,
     PresenceMessage, llmVars
<1>2. m \notin Held(responseQ)
  BY DEF Heartbeat, Registering, Presence, Msg
<1>3. Held(responseQ) = Rest(responseQ, 1) /\ 1 \in Nat \ {0} /\ 1 <= Len(responseQ) + 1
  BY <1>1, HeldIsRest
<1>4. Once(responseQ', 1)
  BY <1>1, <1>2, <1>3, RestAppend DEF ServedOnce
<1>5. Held(responseQ') = Held(responseQ) \cup {m}
  BY <1>1, HeldAppend
<1>6. m.request \notin Requests
  BY EnvironmentAssumption DEF Presence, Msg
<1>7. \A w \in Workers, r \in Requests :
        /\ Queued(w, r)' = Queued(w, r) /\ InHand(w, r)' = InHand(w, r)
        /\ Recording(w, r)' = Recording(w, r)
        /\ Answering(w, r)' => Answering(w, r)
  BY <1>1, <1>5, <1>6 DEF Queued, InHand, Recording, Answering
<1>8. OneAnswerEach'
  BY <1>5, <1>6 DEF ServedOnce, OneAnswerEach
<1>9. ServedOnce'
  BY <1>1, <1>4, <1>7, <1>8 DEF ServedOnce, OnePlace, Once
<1> QED
  BY <1>7, <1>9 DEF ServedOnceStep, Serving

LEMMA ServedOnceTaken ==
  ASSUME TypeOK, ServedOnce, NEW v \in Workers, ReceiveTask(v), UNCHANGED rspH
  PROVE  ServedOnceStep
<1> DEFINE h == Head(workerQ[v])
<1>1. /\ workerQ \in [Workers -> Seq(Requests)] /\ worker \in [Workers -> WorkerRecord]
      /\ workerQ[v] # << >> /\ worker[v].step = "idle" /\ responseQ' = responseQ
      /\ workerQ'[v] = Tail(workerQ[v])
      /\ \A w \in Workers : w # v => workerQ'[w] = workerQ[w] /\ worker'[w] = worker[w]
      /\ worker'[v].task = h
  BY DEF TypeOK, RabbitMQTypeOK, LLMWorkerTypeOK, ReceiveTask, WorkerRecord
<1>2. /\ Held(workerQ[v]) = {h} \cup Held(workerQ'[v])
      /\ h \notin Held(workerQ'[v]) /\ Once(workerQ'[v], 1)
  <2>1. workerQ[v] \in Seq(Requests) /\ Once(workerQ[v], 1)
    BY <1>1 DEF ServedOnce
  <2> QED
    BY <1>1, <2>1, HeldTail, OnceTail
<1>3. \A w \in Workers : Once(workerQ'[w], 1)
  BY <1>1, <1>2 DEF ServedOnce
<1>4. \A w \in Workers, r \in Requests :
        /\ Answering(w, r)' = Answering(w, r) /\ Recording(w, r)' = Recording(w, r)
        /\ w # v => Queued(w, r)' = Queued(w, r) /\ InHand(w, r)' = InHand(w, r)
  BY <1>1 DEF Answering, Recording, Queued, InHand
<1>5. \A r \in Requests :
        /\ Queued(v, r)' => Queued(v, r) /\ r # h
        /\ InHand(v, r)' => Queued(v, r) /\ r = h
  BY <1>1, <1>2 DEF Queued, InHand
<1>6. \A w \in Workers, r \in Requests :
        OnePlace(w, r)' /\ (Serving(w, r)' => Serving(w, r))
  BY <1>4, <1>5 DEF ServedOnce, OnePlace, Serving
<1>7. ServedOnce'
  BY <1>1, <1>3, <1>6 DEF ServedOnce, OneAnswerEach, Once
<1> QED
  BY <1>6, <1>7 DEF ServedOnceStep

LEMMA ServedOnceReported ==
  ASSUME TypeOK, ServedOnce, NEW v \in Workers, ReportSuccess(v), UNCHANGED rspH
  PROVE  ServedOnceStep
<1> DEFINE t == worker[v].task
           m == Msg("success", v, t, worker[v].result)
<1>1. /\ worker \in [Workers -> WorkerRecord] /\ worker[v] \in WorkerRecord
      /\ responseQ \in Seq(Response) /\ workerQ' = workerQ
      /\ t \in Requests /\ worker[v].result \in Texts /\ worker[v].step # "idle"
  BY DEF TypeOK, RabbitMQTypeOK, LLMWorkerTypeOK, ReportSuccess, WorkerRecord
<1>2. m \in Response /\ m.worker = v /\ m.request = t /\ responseQ' = Append(responseQ, m)
  BY <1>1 DEF ReportSuccess, Respond, Msg, Response, TaskResponse
<1>3. /\ worker'[v].step = "idle"
      /\ \A w \in Workers : w # v => worker'[w] = worker[w]
  <2>1. worker'[v] = Idle(worker[v].state)
    BY <1>1 DEF ReportSuccess, Finish
  <2>2. worker'[v].step = "idle"
    BY <2>1 DEF Idle
  <2> QED
    BY <1>1, <2>2 DEF ReportSuccess, Finish
<1>4. InHand(v, t) /\ OnePlace(v, t)
  BY <1>1 DEF InHand, ServedOnce
<1>5. \A n \in Held(responseQ) : ~(n.worker = m.worker /\ n.request = m.request)
  BY <1>2, <1>4 DEF OnePlace, Answering
<1> HIDE DEF m, t
<1>6. Held(responseQ) = Rest(responseQ, 1) /\ 1 \in Nat \ {0} /\ 1 <= Len(responseQ) + 1
  BY <1>1, HeldIsRest
<1>7. Once(responseQ', 1)
  BY <1>1, <1>2, <1>5, <1>6, RestAppend DEF ServedOnce
<1>8. Held(responseQ') = Held(responseQ) \cup {m}
  BY <1>1, <1>2, HeldAppend
<1>9. \A w \in Workers, r \in Requests :
        /\ Queued(w, r)' = Queued(w, r) /\ Recording(w, r)' = Recording(w, r)
        /\ InHand(w, r)' => InHand(w, r) /\ w # v
        /\ Answering(w, r)' => Answering(w, r) \/ (w = v /\ r = t)
  BY <1>1, <1>2, <1>3, <1>8 DEF Queued, Recording, InHand, Answering
<1>10. \A w \in Workers, r \in Requests :
         OnePlace(w, r)' /\ (Serving(w, r)' => Serving(w, r))
  BY <1>4, <1>9 DEF ServedOnce, OnePlace, Serving
<1>11. OneAnswerEach'
  BY <1>5, <1>8 DEF ServedOnce, OneAnswerEach
<1>12. ServedOnce'
  BY <1>1, <1>7, <1>10, <1>11 DEF ServedOnce, Once
<1> QED
  BY <1>10, <1>12 DEF ServedOnceStep

(* The copies of a callback have a text.                                   *)
CopiesCarryText ==
  \A r \in Requests : callbackQ[r].texts = {} => callbackQ[r].copies = 0

LEMMA CopiesCarryTextStep ==
  TypeOK /\ CopiesCarryText /\ [Next]_vars => CopiesCarryText'
<1> SUFFICES ASSUME TypeOK, CopiesCarryText, [Next]_vars
             PROVE  CopiesCarryText'
  OBVIOUS
<1>1. CASE callbackQ' = callbackQ
  BY <1>1 DEF CopiesCarryText
<1>2. CASE callbackQ' # callbackQ
  <2>1. ResponseHandlerNext
    BY <1>2, ApiFrame, RequestHandlerFrame, BrokerProcessFrame, LLMWorkerFrame,
       SilenceFrame DEF Next, mqVars
  <2>2. QueueCallback(rspH.msg)
    BY <1>2, <2>1 DEF ResponseHandlerNext, ReceiveResponse, UpdateTask, UpdateTaskFails,
       PublishCallback, PublishCallbackFails, DrainDispatch, DrainFails, DrainEnds,
       AckResponse, mqVars
  <2> QED
    BY <2>2 DEF QueueCallback, CopiesCarryText, TypeOK, RabbitMQTypeOK
<1> QED
  BY <1>1, <1>2

LEMMA CopiesCarryTextCorrect == Spec => []CopiesCarryText
<1>1. Init => CopiesCarryText
  BY DEF Init, RabbitMQInit, CopiesCarryText
<1> QED
  BY <1>1, CopiesCarryTextStep, TypeCorrect, PTL DEF Spec

(* What is about to be dispatched is with no worker, and not called back.  *)
LEMMA HandedOutIsNew ==
  ASSUME TypeOK, Provenance, CopiesCarryText, BoundInv, OnceInv, disruptions = 0,
         NEW r \in Requests, Dispatching(r)
  PROVE  callbackQ[r].copies = 0 /\ \A w \in Workers : ~Serving(w, r)
<1>1. ~Downstream(r) /\ answered[r] = {}
  BY DEF OnceInv, DispatchedOnce
<1>2. callbackQ[r].copies = 0
  BY <1>1 DEF Provenance, ResultProvenance, CopiesCarryText
<1>3. ASSUME NEW w \in Workers
      PROVE  ~Serving(w, r)
  <2>1. ~Queued(w, r)
    <3>1. CASE w \in bound
      BY <1>1, <3>1 DEF Downstream, Unreported, Queued
    <3>2. CASE w \notin bound
      BY <3>2, HeldEmpty DEF BoundInv, Queued
    <3> QED
      BY <3>1, <3>2
  <2>2. ~InHand(w, r)
    <3>1. worker[w].step # "idle" => w \in bound
      BY DEF BoundInv, Consuming, TypeOK, LLMWorkerTypeOK, WorkerRecord
    <3> QED
      BY <1>1, <3>1 DEF Downstream, Unreported, InHand
  <2>3. ~Answering(w, r)
    BY <1>1 DEF Downstream, Answering
  <2>4. ~Recording(w, r)
    <3>1. rspH.step # "idle" => answered[rspH.msg.request] # {}
      BY DEF Provenance, ResultProvenance, Results
    <3> QED
      BY <1>1, <3>1 DEF Recording
  <2> QED
    BY <2>1, <2>2, <2>3, <2>4 DEF Serving
<1> QED
  BY <1>2, <1>3

LEMMA ServedOnceCalm ==
  ASSUME TypeOK, Provenance, CopiesCarryText, BoundInv, OnceInv, disruptions = 0,
         ServedOnce, CalmNext
  PROVE  ServedOnceStep
<1>1. /\ worker \in [Workers -> WorkerRecord]
      /\ reqH \in {ReqIdle} \cup [step : {"publish", "ack"}, request : Requests]
      /\ rspH \in {RspIdle} \cup
           [step : {"update", "callback", "drain", "ack"}, msg : TaskResponse,
            idx : Nat \ {0}]
  BY DEF TypeOK, LLMWorkerTypeOK, BrokerTypeOK
<1>2. UNCHANGED << responseQ, workerQ, worker, rspH >> => ServedOnceStep
  BY ServedOnceKept DEF InHand, Recording
<1>3. CASE /\ \E q \in Requests : SubmitTask(q) \/ InsertTask(q)
           /\ UNCHANGED << brokerVars, llmVars >>
  BY <1>2, <1>3 DEF SubmitTask, InsertTask, mqVars, brokerVars, llmVars
<1>4. CASE (ReceiveRequest \/ AckRequest \/ StartBroker) /\ UNCHANGED llmVars
  BY <1>2, <1>4 DEF ReceiveRequest, AckRequest, StartBroker, mqVars, llmVars
<1>5. CASE /\ UpdateTask \/ PublishCallback \/ DrainEnds \/ AckResponse
           /\ UNCHANGED llmVars
  <2>1. UNCHANGED << responseQ, workerQ, worker >>
    BY <1>5 DEF UpdateTask, PublishCallback, DrainEnds, AckResponse, mqVars, llmVars
  <2>2. rspH'.step \in {"update", "callback"} =>
          rspH.step \in {"update", "callback"} /\ rspH'.msg = rspH.msg
    BY <1>1, <1>5 DEF UpdateTask, AfterUpdate, PublishCallback, DrainEnds, AckResponse,
       RspIdle
  <2> QED
    BY <2>1, <2>2, ServedOnceKept DEF InHand, Recording
<1>6. CASE DispatchRequest /\ UNCHANGED llmVars
  <2> DEFINE q == reqH.request
  <2>1. q \in Requests /\ Route(q) /\ HandedOut(q) /\ Dispatching(q)
    BY <1>1, <1>6 DEF DispatchRequest, ReqIdle, HandedOut, Dispatching
  <2>2. \A w \in Workers : ~Serving(w, q)
    BY <2>1, HandedOutIsNew
  <2>3. UNCHANGED << responseQ, worker, rspH >>
    BY <1>6 DEF DispatchRequest, llmVars
  <2>4. \A w \in Workers, r \in Requests : Recording(w, r)' => Recording(w, r)
    BY <2>3 DEF Recording
  <2> QED
    BY <2>1, <2>2, <2>3, <2>4, ServedOnceRouted
<1>7. CASE DrainDispatch /\ UNCHANGED llmVars
  <2> DEFINE q == pending_requests[rspH.idx]
  <2>1. rspH.step = "drain" /\ rspH.idx \in 1 .. Len(pending_requests)
        /\ pending_requests \in Seq(Requests)
    BY <1>1, <1>7 DEF DrainDispatch, Draining, RspIdle, TypeOK, BrokerTypeOK
  <2>2. q \in Requests /\ Route(q) /\ HandedOut(q) /\ Dispatching(q)
    BY <1>7, <2>1 DEF DrainDispatch, HandedOut, Dispatching
  <2>3. \A w \in Workers : ~Serving(w, q)
    BY <2>2, HandedOutIsNew
  <2>4. UNCHANGED << responseQ, worker >> /\ rspH'.step = "drain"
    BY <1>1, <1>7, <2>1 DEF DrainDispatch, llmVars, RspIdle
  <2>5. \A w \in Workers, r \in Requests : Recording(w, r)' => Recording(w, r)
    BY <2>4 DEF Recording
  <2> QED
    BY <2>2, <2>3, <2>4, <2>5, ServedOnceRouted
<1>8. CASE ReceiveResponse /\ UNCHANGED llmVars
  BY <1>8, ServedOnceReceived DEF llmVars
<1>9. ASSUME NEW w \in Workers, UNCHANGED brokerVars,
             \/ WorkerStart(w) \/ Heartbeat(w) \/ ReceiveTask(w)
             \/ InferenceSucceeds(w) \/ ReportSuccess(w)
      PROVE  ServedOnceStep
  <2>1. UNCHANGED rspH
    BY <1>9 DEF brokerVars
  <2>2. CASE WorkerStart(w) \/ InferenceSucceeds(w)
    <3>1. UNCHANGED << responseQ, workerQ >>
      BY <2>2 DEF WorkerStart, DeclareAndBind, InferenceSucceeds, mqVars
    <3>2. ASSUME NEW v \in Workers
          PROVE  /\ worker'[v].task = worker[v].task
                 /\ worker[v].step = "idle" => worker'[v].step = "idle"
      BY <1>1, <2>2 DEF WorkerStart, InferenceSucceeds, WorkerRecord
    <3> QED
      BY <2>1, <3>1, <3>2, ServedOnceKept DEF InHand, Recording
  <2> QED
    BY <1>9, <2>1, <2>2, ServedOnceHeartbeat, ServedOnceTaken, ServedOnceReported
<1>10. CASE (\E w \in Workers : MissHeartbeats(w)) \/ UNCHANGED vars
  BY <1>2, <1>10, SilenceFrame DEF mqVars, llmVars
<1> QED
  BY <1>3, <1>4, <1>5, <1>6, <1>7, <1>8, <1>9, <1>10 DEF CalmNext

(* A callback ends the service of the worker whose answer caused it.       *)
LEMMA CallbackEndsService ==
  ASSUME TypeOK, ServedOnce, CalmNext, NEW r \in Requests
  PROVE  \/ callbackQ'[r].copies = callbackQ[r].copies
         \/ \E w \in Workers : /\ callbackQ'[r].copies = callbackQ[r].copies + 1
                               /\ Serving(w, r) /\ ~Serving(w, r)'
<1>1. CASE PublishCallback /\ UNCHANGED llmVars
  <2>1. PICK v \in Workers, q \in Requests :
          /\ rspH.msg.worker = v /\ rspH.msg.request = q
          /\ rspH.step = "callback" /\ rspH'.step = "drain"
    BY <1>1 DEF PublishCallback, TypeOK, BrokerTypeOK, RspIdle, TaskResponse
  <2>2. /\ callbackQ \in [Requests -> Callbacks]
        /\ QueueCallback(rspH.msg)
        /\ UNCHANGED << responseQ, workerQ, worker >>
    BY <1>1 DEF PublishCallback, TypeOK, RabbitMQTypeOK, llmVars
  <2>3. Recording(v, q) /\ OnePlace(v, q) /\ ~Recording(v, q)'
    BY <2>1 DEF Recording, ServedOnce
  <2>4. Serving(v, q) /\ ~Serving(v, q)'
    BY <2>2, <2>3 DEF OnePlace, Serving, Queued, InHand, Answering
  <2>5. callbackQ'[r].copies = IF r = q THEN callbackQ[r].copies + 1 ELSE callbackQ[r].copies
    BY <2>1, <2>2 DEF QueueCallback
  <2> QED
    BY <2>4, <2>5
<1>2. CASE ~PublishCallback
  <2>1. callbackQ' = callbackQ
    BY <1>2, SilenceFrame DEF CalmNext, SubmitTask, InsertTask, ReceiveRequest,
       DispatchRequest, AckRequest, ReceiveResponse, UpdateTask, DrainDispatch,
       DrainEnds, AckResponse, StartBroker, WorkerStart, Heartbeat, ReceiveTask,
       InferenceSucceeds, ReportSuccess, mqVars
  <2> QED
    BY <2>1
<1>3. PublishCallback => UNCHANGED llmVars
  <2>1. PublishCallback => rspH' # rspH
    BY DEF PublishCallback, TypeOK, BrokerTypeOK, RspIdle
  <2>2. rspH' # rspH => UNCHANGED llmVars
    BY DEF CalmNext, MissHeartbeats, brokerVars, vars
  <2> QED
    BY <2>1, <2>2
<1> QED
  BY <1>1, <1>2, <1>3

ServedInv ==
  disruptions = 0 => ServedOnce /\ \A r \in Requests : CausedByAWorkerEach(r)

LEMMA ServedInvInit == Init => ServedInv
<1> SUFFICES ASSUME Init
             PROVE  ServedOnce /\ \A r \in Requests : CausedByAWorkerEach(r)
  BY DEF ServedInv
<1>1. /\ \A w \in Workers : workerQ[w] = << >> /\ worker[w].step = "idle"
      /\ responseQ = << >> /\ rspH.step = "idle"
      /\ \A r \in Requests : callbackQ[r].copies = 0
  BY DEF Init, RabbitMQInit, BrokerInit, LLMWorkerInit, Idle, RspIdle
<1>2. \A w \in Workers, r \in Requests : ~Serving(w, r)
  BY <1>1, HeldEmpty DEF Serving, Queued, InHand, Answering, Recording
<1>3. ServedOnce
  BY <1>1, <1>2, HeldEmpty DEF ServedOnce, OnePlace, OneAnswerEach, Serving, Once
<1>4. ASSUME NEW r \in Requests
      PROVE  CausedByAWorkerEach(r)
  <2>1. IsFiniteSet({}) /\ callbackQ[r].copies <= Cardinality({})
    BY <1>1, FS_EmptySet
  <2> QED
    BY <2>1 DEF CausedByAWorkerEach
<1> QED
  BY <1>3, <1>4

LEMMA CausedStep ==
  ASSUME TypeOK, Provenance, CopiesCarryText, BoundInv, OnceInv, disruptions = 0,
         ServedOnce, CalmNext, NEW r \in Requests, CausedByAWorkerEach(r)
  PROVE  CausedByAWorkerEach(r)'
<1>1. \A w \in Workers : Serving(w, r)' => Serving(w, r) \/ HandedOut(r)
  BY ServedOnceCalm DEF ServedOnceStep
<1>2. CASE HandedOut(r)
  <2>1. Dispatching(r)
    BY <1>2 DEF HandedOut, DispatchRequest, DrainDispatch, Draining, Dispatching,
       TypeOK, BrokerTypeOK, RspIdle
  <2>2. callbackQ[r].copies = 0 /\ \A w \in Workers : ~Serving(w, r)
    BY <2>1, HandedOutIsNew
  <2>3. callbackQ'[r].copies = 0
    BY <2>2, CallbackEndsService
  <2> QED
    BY <2>3, FS_EmptySet DEF CausedByAWorkerEach
<1>3. CASE ~HandedOut(r)
  <2>1. PICK S \in SUBSET Workers :
          /\ IsFiniteSet(S) /\ callbackQ[r].copies <= Cardinality(S)
          /\ \A w \in S : ~Serving(w, r)
    BY DEF CausedByAWorkerEach
  <2>2. \A w \in S : ~Serving(w, r)'
    BY <1>1, <1>3, <2>1
  <2>3. CASE callbackQ'[r].copies = callbackQ[r].copies
    BY <2>1, <2>2, <2>3 DEF CausedByAWorkerEach
  <2>4. CASE callbackQ'[r].copies # callbackQ[r].copies
    <3>1. PICK w \in Workers : /\ callbackQ'[r].copies = callbackQ[r].copies + 1
                               /\ Serving(w, r) /\ ~Serving(w, r)'
      BY <2>4, CallbackEndsService
    <3>2. w \notin S
      BY <2>1, <3>1
    <3>3. /\ IsFiniteSet(S \cup {w}) /\ Cardinality(S) \in Nat
          /\ Cardinality(S \cup {w}) = Cardinality(S) + 1
      BY <2>1, <3>2, FS_AddElement, FS_CardinalityType
    <3>4. callbackQ[r].copies \in Nat
      BY DEF TypeOK, RabbitMQTypeOK, Callbacks
    <3>5. callbackQ'[r].copies <= Cardinality(S \cup {w})
      BY <2>1, <3>1, <3>3, <3>4
    <3> QED
      BY <2>1, <2>2, <3>1, <3>3, <3>5 DEF CausedByAWorkerEach
  <2> QED
    BY <2>3, <2>4
<1> QED
  BY <1>2, <1>3

LEMMA ServedInvCorrect == Spec => []ServedInv
<1>1. TypeOK /\ Provenance /\ CopiesCarryText /\ BoundInv /\ CalmInv /\ OnceInv
        /\ ServedInv /\ [Next]_vars => ServedInv'
  <2> SUFFICES ASSUME TypeOK, Provenance, CopiesCarryText, BoundInv, CalmInv, OnceInv,
                      ServedInv, [Next]_vars, disruptions' = 0
               PROVE  ServedOnce' /\ \A r \in Requests : CausedByAWorkerEach(r)'
    BY DEF ServedInv
  <2>1. disruptions = 0 /\ CalmNext
    BY StaysCalm
  <2>2. ServedOnce /\ \A r \in Requests : CausedByAWorkerEach(r)
    BY <2>1 DEF ServedInv
  <2>3. ServedOnce'
    BY <2>1, <2>2, ServedOnceCalm DEF ServedOnceStep
  <2>4. \A r \in Requests : CausedByAWorkerEach(r)'
    BY <2>1, <2>2, CausedStep
  <2> QED
    BY <2>3, <2>4
<1> QED
  BY <1>1, ServedInvInit, TypeCorrect, ProvenanceCorrect, CopiesCarryTextCorrect,
     BoundInvCorrect, CalmInvCorrect, OnceInvCorrect, PTL DEF Spec

(* All workers bind their queue with the same key, so each that is there   *)
(* when a request is dispatched serves it, and its client is called back   *)
(* for every answer: undisturbed, no more often than there are workers.    *)
OneCallbackPerWorker ==
  disruptions = 0 => \A r \in Requests : callbackQ[r].copies <= Cardinality(Workers)

(* No worker ever causes a second callback for the same request, however   *)
(* the queues, the drain and the two handlers of the broker interleave.    *)
THEOREM CallbacksAreBounded ==
  ASSUME IsFiniteSet(Workers)
  PROVE  Spec => []OneCallbackPerWorker
<1>1. TypeOK /\ ServedInv => OneCallbackPerWorker
  <2> SUFFICES ASSUME TypeOK, ServedInv, disruptions = 0, NEW r \in Requests
               PROVE  callbackQ[r].copies <= Cardinality(Workers)
    BY DEF OneCallbackPerWorker
  <2>1. PICK S \in SUBSET Workers : IsFiniteSet(S) /\ callbackQ[r].copies <= Cardinality(S)
    BY DEF ServedInv, CausedByAWorkerEach
  <2>2. /\ Cardinality(S) <= Cardinality(Workers)
        /\ Cardinality(S) \in Nat /\ Cardinality(Workers) \in Nat
    BY FS_Subset, FS_CardinalityType
  <2>3. callbackQ[r].copies \in Nat
    BY DEF TypeOK, RabbitMQTypeOK, Callbacks
  <2> QED
    BY <2>1, <2>2, <2>3
<1> QED
  BY <1>1, TypeCorrect, ServedInvCorrect, PTL
===============================================================================
