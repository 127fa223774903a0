-------------------------- MODULE TaskDeliveryProofs --------------------------
(***************************************************************************)
(* What becomes of a request, for any numbers of requests, workers and     *)
(* disruptions: once published none vanishes, once dispatched it stays so, *)
(* a shutdown leaves none in memory, and a row that is ready is called     *)
(* back.                                                                   *)
(***************************************************************************)
EXTENDS TaskSystemProofs

(*------------------------- what a queue holds --------------------------*)

LEMMA HeldByIndex ==
  ASSUME NEW S, NEW s \in Seq(S)
  PROVE  Held(s) = { s[i] : i \in 1 .. Len(s) } /\ Held(s) \subseteq S
  BY DEF Held

LEMMA HeldEmpty == Held(<< >>) = {}
  BY DEF Held

LEMMA HeldAppend ==
  ASSUME NEW S, NEW s \in Seq(S), NEW e \in S
  PROVE  Held(Append(s, e)) = Held(s) \cup {e}
<1> DEFINE t == Append(s, e)
<1>1. /\ t \in Seq(S) /\ Len(t) = Len(s) + 1
      /\ \A i \in 1 .. Len(s) : t[i] = s[i]
      /\ t[Len(s) + 1] = e
  OBVIOUS
<1>2. Held(s) = { s[i] : i \in 1 .. Len(s) }
  BY HeldByIndex
<1>3. Held(t) = { t[i] : i \in 1 .. Len(s) + 1 }
  BY <1>1, HeldByIndex
<1>4. Len(s) \in Nat
  OBVIOUS
<1> HIDE DEF t
<1>5. Held(t) = Held(s) \cup {e}
  BY <1>1, <1>2, <1>3, <1>4
<1> QED
  BY <1>5 DEF t

LEMMA HeldTail ==
  ASSUME NEW S, NEW s \in Seq(S), s # << >>
  PROVE  Held(s) = {Head(s)} \cup Held(Tail(s)) /\ Head(s) \in S /\ Tail(s) \in Seq(S)
<1> DEFINE t == Tail(s)
<1>1. /\ t \in Seq(S) /\ Len(t) = Len(s) - 1 /\ Len(s) \in Nat \ {0}
      /\ \A i \in 1 .. Len(s) - 1 : t[i] = s[i + 1]
      /\ Head(s) = s[1] /\ s[1] \in S
  OBVIOUS
<1>2. Held(s) = { s[i] : i \in 1 .. Len(s) }
  BY HeldByIndex
<1>3. Held(t) = { t[i] : i \in 1 .. Len(s) - 1 }
  BY <1>1, HeldByIndex
<1> HIDE DEF t
<1>4. Held(s) \subseteq {s[1]} \cup Held(t)
  <2> SUFFICES ASSUME NEW i \in 1 .. Len(s), i # 1
               PROVE  s[i] \in Held(t)
    BY <1>2
  <2>1. i - 1 \in 1 .. Len(s) - 1 /\ (i - 1) + 1 = i
    BY <1>1
  <2>2. t[i - 1] = s[i]
    BY <1>1, <2>1
  <2> QED
    BY <1>3, <2>1, <2>2
<1>5. {s[1]} \cup Held(t) \subseteq Held(s)
  <2>1. \A i \in 1 .. Len(s) - 1 : i + 1 \in 1 .. Len(s)
    BY <1>1
  <2> QED
    BY <1>1, <1>2, <1>3, <2>1
<1> QED
  BY <1>1, <1>4, <1>5 DEF t

LEMMA HeldPutBack ==
  ASSUME NEW S, NEW s \in Seq(S), NEW e \in S
  PROVE  Held(<< e >> \o s) = {e} \cup Held(s)
<1> DEFINE t == << e >> \o s
<1>1. /\ t \in Seq(S) /\ Len(t) = Len(s) + 1 /\ Len(s) \in Nat
      /\ t[1] = e
      /\ \A i \in 1 .. Len(s) : t[i + 1] = s[i]
  OBVIOUS
<1>2. Held(s) = { s[i] : i \in 1 .. Len(s) }
  BY HeldByIndex
<1>3. Held(t) = { t[i] : i \in 1 .. Len(s) + 1 }
  BY <1>1, HeldByIndex
<1> HIDE DEF t
<1>4. {e} \cup Held(s) \subseteq Held(t)
  <2>1. \A i \in 1 .. Len(s) : i + 1 \in 1 .. Len(s) + 1
    BY <1>1
  <2> QED
    BY <1>1, <1>2, <1>3, <2>1
<1>5. Held(t) \subseteq {e} \cup Held(s)
  <2> SUFFICES ASSUME NEW i \in 1 .. Len(s) + 1, i # 1
               PROVE  t[i] \in Held(s)
    BY <1>1, <1>3
  <2>1. i - 1 \in 1 .. Len(s) /\ (i - 1) + 1 = i
    BY <1>1
  <2> QED
    BY <1>1, <1>2, <2>1
<1> QED
  BY <1>4, <1>5 DEF t

LEMMA SuffixOfSeq ==
  ASSUME NEW S, NEW s \in Seq(S), NEW m \in Nat \ {0}
  PROVE  /\ SubSeq(s, m, Len(s)) \in Seq(S)
         /\ m <= Len(s) + 1 => Len(SubSeq(s, m, Len(s))) = Len(s) - m + 1
         /\ \A i \in 1 .. Len(s) - m + 1 : SubSeq(s, m, Len(s))[i] = s[m + i - 1]
  OBVIOUS

(*--------------------- what each process leaves alone ------------------*)

LEMMA ApiFrame ==
  ApiNext => UNCHANGED << responseQ, callbackQ, workerQ, bound, brokerVars, llmVars >>
  BY DEF ApiNext, SubmitTask, SubmitPublishFails, InsertTask, InsertTaskFails, mqVars

LEMMA RequestHandlerFrame ==
  RequestHandlerNext =>
    UNCHANGED << responseQ, callbackQ, bound, tasks, api, broker, rspH, exitH, llmVars >>
  BY DEF RequestHandlerNext, ReceiveRequest, DispatchRequest, DispatchFails,
     AckRequest, mqVars

LEMMA ResponseHandlerFrame ==
  ResponseHandlerNext => UNCHANGED << requestQ, bound, api, broker, reqH, llmVars >>
  BY DEF ResponseHandlerNext, ReceiveResponse, UpdateTask, UpdateTaskFails,
     PublishCallback, PublishCallbackFails, DrainDispatch, DrainFails, DrainEnds,
     AckResponse, mqVars

LEMMA BrokerProcessFrame ==
  BrokerProcessNext => UNCHANGED << callbackQ, workerQ, bound, tasks, api, llmVars >>
  BY DEF BrokerProcessNext, StartBroker, StopBroker, RequeueOne, RequeueFails,
     RequeueEnds, CloseBroker, BrokerCrash, Exit, mqVars

LEMMA LLMWorkerFrame ==
  LLMWorkerNext => UNCHANGED << requestQ, callbackQ, tasks, api, brokerVars >>
  BY DEF LLMWorkerNext, WorkerStart, Heartbeat, ReceiveTask, InferenceSucceeds,
     InferenceFails, ReportSuccess, ReportFails, SendShutdown, CloseWorker,
     WorkerCrash, Disconnect, mqVars

LEMMA SilenceFrame ==
  (\E w \in Workers : MissHeartbeats(w)) \/ UNCHANGED vars =>
    UNCHANGED << lost, mqVars, tasks, api, broker, available_workers,
                 pending_requests, reqH, rspH, exitH, llmVars >>
  BY DEF MissHeartbeats, vars, envVars, brokerVars

(*------------------- requeue_pending_on_exit and drain -----------------*)

(* The shutdown has a list of its own only while it is requeuing; the      *)
(* drain starts at the first element and stays inside the list until the   *)
(* list is cleared under it.                                               *)
DrainInRange ==
  /\ broker # "requeuing" => exitH = ExitIdle
  /\ rspH.step \in {"update", "callback"} => rspH.idx = 1
  /\ rspH.step = "drain" /\ broker # "closing" =>
       rspH.idx <= Len(pending_requests) + 1

BrokerInv == ExitEmptiesMemory /\ DrainInRange

LEMMA BrokerInvInit == Init => BrokerInv
  BY DEF Init, BrokerInit, BrokerInv, ExitEmptiesMemory, DrainInRange, RspIdle

LEMMA BrokerInvStep == TypeOK /\ BrokerInv /\ [Next]_vars => BrokerInv'
<1> SUFFICES ASSUME TypeOK, BrokerInv, [Next]_vars
             PROVE  BrokerInv'
  OBVIOUS
<1> USE DEF BrokerInv
<1>1. /\ pending_requests \in Seq(Requests)
      /\ rspH.idx \in Nat \ {0}
      /\ rspH \in {RspIdle} \cup
           [step : {"update", "callback", "drain", "ack"}, msg : TaskResponse,
            idx : Nat \ {0}]
  BY DEF TypeOK, BrokerTypeOK, RspIdle
<1>2. UNCHANGED << broker, pending_requests, rspH, exitH >> => BrokerInv'
  BY DEF ExitEmptiesMemory, DrainInRange
<1>3. CASE ApiNext \/ LLMWorkerNext
  BY <1>2, <1>3, ApiFrame, LLMWorkerFrame DEF brokerVars
<1>4. CASE RequestHandlerNext
  <2>1. CASE ReceiveRequest
    <3>1. broker = "up" /\ Head(requestQ) \in Requests
      BY <2>1 DEF ReceiveRequest, Accepting, TypeOK, RabbitMQTypeOK
    <3>2. \/ pending_requests' = pending_requests
          \/ pending_requests' = Append(pending_requests, Head(requestQ))
      BY <2>1 DEF ReceiveRequest, KeepOrPublish
    <3>3. Len(pending_requests') >= Len(pending_requests)
      BY <1>1, <3>1, <3>2
    <3> QED
      BY <1>1, <1>4, <3>1, <3>3, RequestHandlerFrame DEF ExitEmptiesMemory, DrainInRange
  <2>2. CASE ~ReceiveRequest
    <3>1. pending_requests' = pending_requests
      BY <1>4, <2>2 DEF RequestHandlerNext, DispatchRequest, DispatchFails, AckRequest
    <3> QED
      BY <1>2, <1>4, <3>1, RequestHandlerFrame
  <2> QED
    BY <2>1, <2>2
<1>5. CASE ResponseHandlerNext
  <2>1. CASE DrainEnds
    <3>1. pending_requests = << >> => pending_requests' = << >>
      BY <1>1, <2>1 DEF DrainEnds, Remaining
    <3>2. broker # "requeuing" => exitH' = exitH
      BY <2>1 DEF DrainEnds
    <3>3. rspH'.step = "ack"
      BY <1>1, <2>1 DEF DrainEnds, RspIdle
    <3> QED
      BY <1>5, <3>1, <3>2, <3>3, ResponseHandlerFrame DEF ExitEmptiesMemory, DrainInRange
  <2>2. CASE ~DrainEnds
    <3>1. UNCHANGED << broker, pending_requests, exitH >>
      BY <1>5, <2>2 DEF ResponseHandlerNext, ReceiveResponse, UpdateTask,
         UpdateTaskFails, PublishCallback, PublishCallbackFails, DrainDispatch,
         DrainFails, AckResponse
    <3>2. ExitEmptiesMemory' /\ (broker' # "requeuing" => exitH' = ExitIdle)
      BY <3>1 DEF ExitEmptiesMemory, DrainInRange
    <3>3. /\ rspH'.step \in {"update", "callback"} => rspH'.idx = 1
          /\ rspH'.step = "drain" /\ broker # "closing" =>
               rspH'.idx <= Len(pending_requests) + 1
      <4>1. CASE ReceiveResponse
        BY <4>1 DEF ReceiveResponse, RspIdle
      <4>2. CASE UpdateTask \/ PublishCallback
        <5>1. rspH.idx = 1 /\ rspH.step # "idle" /\ Len(pending_requests) \in Nat
          BY <1>1, <4>2 DEF UpdateTask, PublishCallback, DrainInRange
        <5>2. rspH'.idx = rspH.idx
          BY <1>1, <4>2, <5>1 DEF UpdateTask, PublishCallback, RspIdle
        <5> QED
          BY <5>1, <5>2
      <4>3. CASE UpdateTaskFails \/ PublishCallbackFails \/ DrainFails \/ AckResponse
        BY <1>1, <4>3 DEF UpdateTaskFails, PublishCallbackFails, DrainFails,
           AckResponse, RspIdle
      <4>4. CASE DrainDispatch
        BY <1>1, <4>4 DEF DrainDispatch, Draining
      <4> QED
        BY <1>5, <2>2, <4>1, <4>2, <4>3, <4>4 DEF ResponseHandlerNext
    <3> QED
      BY <3>1, <3>2, <3>3 DEF DrainInRange
  <2> QED
    BY <2>1, <2>2
<1>6. CASE BrokerProcessNext
  <2>1. CASE CloseBroker \/ BrokerCrash
    BY <2>1 DEF CloseBroker, BrokerCrash, Exit, RspIdle, ExitEmptiesMemory, DrainInRange
  <2>2. CASE StartBroker \/ StopBroker \/ RequeueEnds
    BY <1>1, <2>2 DEF StartBroker, StopBroker, RequeueEnds, ExitEmptiesMemory,
       DrainInRange
  <2>3. CASE RequeueOne \/ RequeueFails
    BY <2>3 DEF RequeueOne, RequeueFails, ExitEmptiesMemory, DrainInRange
  <2> QED
    BY <1>6, <2>1, <2>2, <2>3 DEF BrokerProcessNext
<1>7. CASE (\E w \in Workers : MissHeartbeats(w)) \/ UNCHANGED vars
  BY <1>2, <1>7, SilenceFrame
<1> QED
  BY <1>3, <1>4, <1>5, <1>6, <1>7 DEF Next

LEMMA BrokerInvCorrect == Spec => []BrokerInv
  BY TypeCorrect, BrokerInvInit, BrokerInvStep, PTL DEF Spec

(* When the requeue on exit is over, clear() has nothing left to destroy,  *)
(* whatever the response handler drained meanwhile.                        *)
THEOREM ExitLeavesNothing == Spec => []ExitEmptiesMemory
<1>1. BrokerInv => ExitEmptiesMemory
  BY DEF BrokerInv
<1> QED
  BY <1>1, BrokerInvCorrect, PTL

(*---------------------- once dispatched, for good ----------------------*)

Dispatched(r) == Downstream(r) \/ Settled(r)

LEMMA LostOnlyGrows ==
  ASSUME TypeOK, [Next]_vars, NEW r \in Requests
  PROVE  lost[r] \subseteq lost'[r]
<1>1. lost \in [Requests -> SUBSET LossPoints]
  BY DEF TypeOK, EnvTypeOK
<1>2. UNCHANGED lost => lost[r] \subseteq lost'[r]
  OBVIOUS
<1>3. ASSUME NEW S, NEW point, GiveUp(S, point)
      PROVE  lost[r] \subseteq lost'[r]
  BY <1>3 DEF GiveUp
<1>4. CASE ApiNext
  BY <1>2, <1>4 DEF ApiNext, SubmitTask, SubmitPublishFails, InsertTask,
     InsertTaskFails, envVars
<1>5. CASE RequestHandlerNext
  BY <1>2, <1>3, <1>5 DEF RequestHandlerNext, ReceiveRequest, DispatchRequest,
     NotRouted, DispatchFails, AckRequest, envVars
<1>6. CASE ResponseHandlerNext
  BY <1>2, <1>3, <1>6 DEF ResponseHandlerNext, ReceiveResponse, UpdateTask,
     UpdateTaskFails, PublishCallback, PublishCallbackFails, DrainDispatch,
     NotRouted, DrainFails, DrainEnds, AckResponse, envVars
<1>7. CASE BrokerProcessNext
  BY <1>2, <1>3, <1>7 DEF BrokerProcessNext, StartBroker, StopBroker, RequeueOne,
     RequeueFails, RequeueEnds, CloseBroker, BrokerCrash, Exit, envVars
<1>8. CASE LLMWorkerNext
  BY <1>2, <1>3, <1>8 DEF LLMWorkerNext, WorkerStart, Heartbeat, ReceiveTask,
     InferenceSucceeds, InferenceFails, ReportSuccess, ReportFails, SendShutdown,
     CloseWorker, WorkerCrash, Disconnect, envVars
<1>9. CASE (\E w \in Workers : MissHeartbeats(w)) \/ UNCHANGED vars
  BY <1>2, <1>9, SilenceFrame
<1> QED
  BY <1>4, <1>5, <1>6, <1>7, <1>8, <1>9 DEF Next

(* The two ways a row comes to differ: the api inserts it, or the broker   *)
(* records a success in it, be it the first or not.                        *)
LEMMA RowStep ==
  ASSUME TypeOK, Provenance, [Next]_vars, NEW r \in Requests, tasks'[r] # tasks[r]
  PROVE  \/ /\ ApiNext
            /\ ~HasRow(r)
            /\ tasks'[r] = [status |-> "waiting", result |-> NoText]
         \/ /\ UpdateTask \/ UpdateTaskFails
            /\ HasRow(r)
            /\ rspH.msg.request = r
            /\ tasks'[r] = [status |-> "ready", result |-> rspH.msg.result]
<1>1. tasks \in [Requests -> Row]
  BY DEF TypeOK, TaskServiceTypeOK
<1>2. CASE ApiNext
  <2>1. PICK q \in Requests :
          /\ api[q] = "inserting"
          /\ tasks' = [tasks EXCEPT ![q] = [status |-> "waiting", result |-> NoText]]
    BY <1>2 DEF ApiNext, SubmitTask, SubmitPublishFails, InsertTask, InsertTaskFails,
       insert_task
  <2>2. q = r /\ tasks'[r] = [status |-> "waiting", result |-> NoText]
    BY <1>1, <2>1
  <2>3. ~HasRow(r)
    BY <2>1, <2>2 DEF Provenance, RowProvenance
  <2> QED
    BY <1>2, <2>2, <2>3
<1>3. CASE ResponseHandlerNext
  <2>1. (UpdateTask \/ UpdateTaskFails) /\ RecordOutcome(rspH.msg)
    BY <1>3 DEF ResponseHandlerNext, ReceiveResponse, UpdateTask, UpdateTaskFails,
       PublishCallback, PublishCallbackFails, DrainDispatch, DrainFails, DrainEnds,
       AckResponse
  <2>2. rspH.msg \in Results
    BY <2>1 DEF UpdateTask, UpdateTaskFails, Provenance, ResultProvenance
  <2>3. update_task(rspH.msg.request, "ready", rspH.msg.result)
    BY <2>1, <2>2 DEF RecordOutcome, Results
  <2>4. HasRow(rspH.msg.request) /\ rspH.msg.request = r
    BY <1>1, <2>3 DEF update_task
  <2>5. tasks'[r] = [status |-> "ready", result |-> rspH.msg.result]
    BY <1>1, <2>3, <2>4 DEF update_task, Written
  <2> QED
    BY <2>1, <2>4, <2>5
<1> QED
  BY <1>2, <1>3, RequestHandlerFrame, BrokerProcessFrame, LLMWorkerFrame, SilenceFrame
     DEF Next

LEMMA SettledForGood ==
  ASSUME TypeOK, Provenance, [Next]_vars, NEW r \in Requests, Settled(r)
  PROVE  Settled(r)'
<1>1. lost[r] # {} => lost'[r] # {}
  BY LostOnlyGrows
<1>2. tasks[r].status = "ready" => tasks'[r].status = "ready"
  BY RowStep DEF HasRow
<1>3. tasks[r].status # "failed"
  BY DEF Provenance, RowProvenance
<1> QED
  BY <1>1, <1>2, <1>3 DEF Settled

(* A publish on the exchange reaches some worker, or is recorded as lost.  *)
LEMMA RoutedIsDispatched ==
  ASSUME TypeOK, NEW r \in Requests, Route(r), NotRouted(r), UNCHANGED << bound, worker >>
  PROVE  Dispatched(r)'
<1>1. CASE bound = {}
  BY <1>1 DEF NotRouted, GiveUp, Dispatched, Settled
<1>2. CASE bound # {}
  <2>1. PICK w \in bound : w \in Workers
    BY <1>2 DEF TypeOK, RabbitMQTypeOK
  <2>2. workerQ[w] \in Seq(Requests) /\ workerQ'[w] = Append(workerQ[w], r)
    BY <2>1 DEF Route, TypeOK, RabbitMQTypeOK
  <2>3. r \in Held(workerQ'[w])
    BY <2>2, HeldAppend
  <2> QED
    BY <2>1, <2>3 DEF Dispatched, Downstream, Unreported
<1> QED
  BY <1>1, <1>2

(* What a worker has to report stays with it when more is routed to it.    *)
LEMMA RouteKeeps ==
  ASSUME TypeOK, NEW r \in Requests, NEW q \in Requests, Route(q), NEW w \in Workers,
         UNCHANGED worker, r \in Unreported(w)
  PROVE  r \in Unreported(w)'
<1>1. workerQ[w] \in Seq(Requests)
      /\ (workerQ'[w] = workerQ[w] \/ workerQ'[w] = Append(workerQ[w], q))
  BY DEF Route, TypeOK, RabbitMQTypeOK
<1>2. Held(workerQ[w]) \subseteq Held(workerQ'[w])
  <2>1. Held(Append(workerQ[w], q)) = Held(workerQ[w]) \cup {q}
    BY <1>1, HeldAppend
  <2> QED
    BY <1>1, <2>1
<1>3. worker'[w] = worker[w]
  OBVIOUS
<1>4. CASE r \in Held(workerQ[w])
  BY <1>2, <1>4 DEF Unreported
<1>5. CASE worker[w].step # "idle" /\ r = worker[w].task
  BY <1>3, <1>5 DEF Unreported
<1> QED
  BY <1>4, <1>5 DEF Unreported

(* Workers add to the response queue, and take nothing from it.            *)
LEMMA WorkersOnlyRespond ==
  ASSUME TypeOK, LLMWorkerNext
  PROVE  Held(responseQ) \subseteq Held(responseQ')
<1> PICK w \in Workers :
      \/ WorkerStart(w) \/ Heartbeat(w) \/ ReceiveTask(w)
      \/ InferenceSucceeds(w) \/ InferenceFails(w)
      \/ ReportSuccess(w) \/ ReportFails(w)
      \/ SendShutdown(w) \/ CloseWorker(w) \/ WorkerCrash(w)
  BY DEF LLMWorkerNext
<1>1. /\ responseQ \in Seq(Response)
      /\ worker[w].step # "idle" => worker[w].task \in Requests
  BY DEF TypeOK, RabbitMQTypeOK, LLMWorkerTypeOK, WorkerRecord
<1>2. CASE Heartbeat(w) \/ ReportSuccess(w) \/ SendShutdown(w)
  <2>1. PICK m \in Response : responseQ' = Append(responseQ, m)
    <3>1. worker[w].step = "report" => worker[w].result \in Texts
      BY DEF TypeOK, LLMWorkerTypeOK, WorkerRecord
    <3> QED
      BY <1>1, <1>2, <3>1 DEF Heartbeat, ReportSuccess, SendShutdown, Respond, Presence,
         Msg, Response, TaskResponse, PresenceMessage
  <2> QED
    BY <1>1, <2>1, HeldAppend
<1>3. CASE ~(Heartbeat(w) \/ ReportSuccess(w) \/ SendShutdown(w))
  BY <1>3 DEF WorkerStart, ReceiveTask, InferenceSucceeds, InferenceFails,
     ReportFails, CloseWorker, WorkerCrash, Disconnect, mqVars
<1> QED
  BY <1>2, <1>3

(* One step of an llm worker hands what it has to report to the response   *)
(* queue, records it as lost, or keeps it.                                 *)
LEMMA WorkerKeeps ==
  ASSUME TypeOK, LLMWorkerNext, NEW r \in Requests, Downstream(r)
  PROVE  Dispatched(r)'
<1> PICK w \in Workers :
      \/ WorkerStart(w) \/ Heartbeat(w) \/ ReceiveTask(w)
      \/ InferenceSucceeds(w) \/ InferenceFails(w)
      \/ ReportSuccess(w) \/ ReportFails(w)
      \/ SendShutdown(w) \/ CloseWorker(w) \/ WorkerCrash(w)
  BY DEF LLMWorkerNext
<1>1. /\ worker \in [Workers -> WorkerRecord]
      /\ workerQ \in [Workers -> Seq(Requests)]
      /\ bound \subseteq Workers
      /\ responseQ \in Seq(Response)
      /\ lost \in [Requests -> SUBSET LossPoints]
  BY DEF TypeOK, LLMWorkerTypeOK, RabbitMQTypeOK, EnvTypeOK
<1>2. UNCHANGED rspH
  BY LLMWorkerFrame DEF brokerVars
<1>3. worker[w].step # "idle" => worker[w].task \in Requests
  BY <1>1 DEF WorkerRecord
<1>4. Held(responseQ) \subseteq Held(responseQ')
  BY WorkersOnlyRespond
<1>5. CASE \/ \E m \in Held(responseQ) : m.request = r
           \/ rspH.step = "update" /\ rspH.msg.request = r
  BY <1>2, <1>4, <1>5 DEF Dispatched, Downstream
<1>6. CASE \E v \in bound : r \in Unreported(v)
  <2>1. PICK v \in bound : v \in Workers /\ r \in Unreported(v)
    BY <1>1, <1>6
  <2>2. CASE v # w
    <3>1. workerQ'[v] = workerQ[v] /\ v \in bound'
      BY <1>1, <2>1, <2>2 DEF WorkerStart, DeclareAndBind, Heartbeat, ReceiveTask,
         InferenceSucceeds, InferenceFails, ReportSuccess, ReportFails, SendShutdown,
         CloseWorker, WorkerCrash, Disconnect, DeleteExclusive, mqVars
    <3>2. worker'[v] = worker[v]
      BY <1>1, <2>1, <2>2 DEF WorkerStart, Heartbeat, ReceiveTask, InferenceSucceeds,
         InferenceFails, ReportSuccess, ReportFails, Finish, SendShutdown,
         CloseWorker, WorkerCrash, Disconnect, llmVars
    <3> QED
      BY <2>1, <3>1, <3>2 DEF Dispatched, Downstream, Unreported
  <2>3. CASE v = w /\ (CloseWorker(w) \/ WorkerCrash(w))
    <3>1. "worker_queue" \in lost'[r]
      BY <2>1, <2>3 DEF CloseWorker, WorkerCrash, Disconnect, GiveUp
    <3> QED
      BY <3>1 DEF Dispatched, Settled
  <2>4. CASE v = w /\ ReceiveTask(w)
    <3>1. w \in bound' /\ worker[w].step = "idle" /\ r \in Held(workerQ[w])
      BY <2>1, <2>4 DEF ReceiveTask, Unreported
    <3>2. worker'[w].step = "inference" /\ worker'[w].task = Head(workerQ[w])
      BY <1>1, <2>4 DEF ReceiveTask, WorkerRecord
    <3>3. workerQ'[w] = Tail(workerQ[w]) /\ workerQ[w] # << >>
      BY <1>1, <2>4 DEF ReceiveTask
    <3>4. r = Head(workerQ[w]) \/ r \in Held(workerQ'[w])
      BY <1>1, <3>1, <3>3, HeldTail
    <3> QED
      BY <3>1, <3>2, <3>4 DEF Dispatched, Downstream, Unreported
  <2>5. CASE v = w /\ (InferenceFails(w) \/ ReportSuccess(w) \/ ReportFails(w))
    <3>1. w \in bound' /\ workerQ' = workerQ /\ worker[w].step # "idle"
      BY <2>1, <2>5 DEF InferenceFails, ReportSuccess, ReportFails, mqVars
    <3>2. CASE r \in Held(workerQ[w])
      BY <3>1, <3>2 DEF Dispatched, Downstream, Unreported
    <3>3. CASE r = worker[w].task /\ ReportSuccess(w)
      <4> DEFINE m == Msg("success", w, r, worker[w].result)
      <4>1. worker[w].result \in Texts
        BY <1>1, <3>3 DEF ReportSuccess, WorkerRecord
      <4>2. m \in Response /\ m.request = r
        BY <4>1 DEF Msg, Response, TaskResponse
      <4>3. responseQ' = Append(responseQ, m)
        BY <3>3 DEF ReportSuccess, Respond
      <4> HIDE DEF m
      <4>4. m \in Held(responseQ')
        BY <1>1, <4>2, <4>3, HeldAppend
      <4> QED
        BY <4>2, <4>4 DEF Dispatched, Downstream
    <3>4. CASE r = worker[w].task /\ ~ReportSuccess(w)
      <4>1. lost'[r] # {}
        BY <2>5, <3>4 DEF InferenceFails, ReportFails, GiveUp
      <4> QED
        BY <4>1 DEF Dispatched, Settled
    <3> QED
      BY <2>1, <2>5, <3>2, <3>3, <3>4 DEF Unreported
  <2>6. CASE /\ v = w
             /\ WorkerStart(w) \/ Heartbeat(w) \/ InferenceSucceeds(w) \/ SendShutdown(w)
    <3>1. w \in bound' /\ workerQ' = workerQ
      BY <2>1, <2>6 DEF WorkerStart, DeclareAndBind, Heartbeat, InferenceSucceeds,
         SendShutdown, mqVars
    <3>2. /\ worker'[w].task = worker[w].task
          /\ worker[w].step # "idle" => worker'[w].step # "idle"
      BY <1>1, <2>6 DEF WorkerStart, Heartbeat, InferenceSucceeds, SendShutdown,
         llmVars, WorkerRecord
    <3> QED
      BY <2>1, <2>6, <3>1, <3>2 DEF Dispatched, Downstream, Unreported
  <2> QED
    BY <2>2, <2>3, <2>4, <2>5, <2>6
<1> QED
  BY <1>5, <1>6 DEF Downstream

(* The response handler takes a result off the queue to write the row, and *)
(* writes it or gives it up; a drain only adds to the workers' queues.     *)
LEMMA ResponseHandlerKeeps ==
  ASSUME TypeOK, Provenance, ResponseHandlerNext, NEW r \in Requests, Downstream(r)
  PROVE  Dispatched(r)'
<1>1. UNCHANGED << bound, worker, answered >>
  BY ResponseHandlerFrame DEF llmVars
<1>2. /\ bound \subseteq Workers
      /\ responseQ \in Seq(Response)
      /\ pending_requests \in Seq(Requests)
      /\ tasks \in [Requests -> Row]
      /\ rspH \in {RspIdle} \cup
           [step : {"update", "callback", "drain", "ack"}, msg : TaskResponse,
            idx : Nat \ {0}]
  BY DEF TypeOK, RabbitMQTypeOK, BrokerTypeOK, TaskServiceTypeOK
<1>3. CASE \E w \in bound : r \in Unreported(w)
  <2>1. PICK w \in bound : w \in Workers /\ r \in Unreported(w)
    BY <1>2, <1>3
  <2>2. r \in Unreported(w)'
    <3>1. CASE workerQ' # workerQ
      <4>1. Draining /\ Route(pending_requests[rspH.idx])
        BY <3>1 DEF ResponseHandlerNext, ReceiveResponse, UpdateTask, UpdateTaskFails,
           PublishCallback, PublishCallbackFails, DrainDispatch, DrainFails, DrainEnds,
           AckResponse, mqVars
      <4>2. pending_requests[rspH.idx] \in Requests
        BY <1>2, <4>1 DEF Draining, RspIdle
      <4> QED
        BY <1>1, <2>1, <4>1, <4>2, RouteKeeps
    <3>2. CASE workerQ' = workerQ
      <4>1. UNCHANGED << worker, workerQ >>
        BY <1>1, <3>2
      <4> QED
        BY <1>1, <2>1, <4>1 DEF Unreported
    <3> QED
      BY <3>1, <3>2
  <2> QED
    BY <1>1, <2>1, <2>2 DEF Dispatched, Downstream
<1>4. CASE \E m \in Held(responseQ) : m.request = r
  <2>1. PICK m \in Held(responseQ) : m.request = r
    BY <1>4
  <2>2. CASE m \in Held(responseQ')
    BY <2>1, <2>2 DEF Dispatched, Downstream
  <2>3. CASE m \notin Held(responseQ')
    <3>1. ReceiveResponse
      BY <2>1, <2>3 DEF ResponseHandlerNext, UpdateTask, UpdateTaskFails,
         PublishCallback, PublishCallbackFails, DrainDispatch, DrainFails, DrainEnds,
         AckResponse, mqVars
    <3>2. m = Head(responseQ) /\ m \in Response
      BY <1>2, <2>1, <2>3, <3>1, HeldTail DEF ReceiveResponse
    <3>3. m.status \in {"success", "failed_task"}
      BY <2>1, <3>2, EnvironmentAssumption DEF Response, TaskResponse, PresenceMessage
    <3>4. rspH'.step = "update" /\ rspH'.msg = m
      BY <3>1, <3>2, <3>3 DEF ReceiveResponse
    <3> QED
      BY <2>1, <3>4 DEF Dispatched, Downstream
  <2> QED
    BY <2>2, <2>3
<1>5. CASE rspH.step = "update" /\ rspH.msg.request = r
  <2>1. UpdateTask \/ UpdateTaskFails
    BY <1>5 DEF ResponseHandlerNext, ReceiveResponse, PublishCallback,
       PublishCallbackFails, DrainDispatch, DrainFails, Draining, DrainEnds, AckResponse
  <2>2. CASE UpdateTask /\ HasRow(r)
    <3>1. tasks'[r].status \in {"ready", "failed"}
      BY <1>2, <1>5, <2>2 DEF UpdateTask, RecordOutcome, update_task, Written
    <3> QED
      BY <3>1 DEF Dispatched, Settled
  <2>3. CASE (UpdateTask /\ ~HasRow(r)) \/ UpdateTaskFails
    <3>1. lost'[r] # {}
      BY <1>5, <2>3 DEF UpdateTask, UpdateTaskFails, GiveUp
    <3> QED
      BY <3>1 DEF Dispatched, Settled
  <2> QED
    BY <2>1, <2>2, <2>3
<1> QED
  BY <1>3, <1>4, <1>5 DEF Downstream

(* The broker's process leaves the results where they are, and a dead      *)
(* broker's unacknowledged response goes back to its queue.                *)
LEMMA BrokerProcessKeeps ==
  ASSUME TypeOK, BrokerProcessNext, NEW r \in Requests, Downstream(r)
  PROVE  Downstream(r)'
<1>1. UNCHANGED << bound, workerQ, worker >>
  BY BrokerProcessFrame DEF llmVars
<1>2. \A w : Unreported(w)' = Unreported(w)
  BY <1>1 DEF Unreported
<1>3. CASE Exit
  <2>1. /\ responseQ \in Seq(Response)
        /\ rspH.step = "update" => rspH.msg \in Response
    BY DEF TypeOK, RabbitMQTypeOK, BrokerTypeOK, RspIdle, Response
  <2>2. Held(responseQ) \subseteq Held(responseQ')
        /\ (rspH.step = "update" => rspH.msg \in Held(responseQ'))
    <3>1. CASE rspH.step = "idle"
      BY <1>3, <3>1 DEF Exit, Redelivered
    <3>2. CASE rspH.step # "idle"
      <4>1. rspH.msg \in Response /\ responseQ' = << rspH.msg >> \o responseQ
        BY <1>3, <3>2 DEF Exit, Redelivered, TypeOK, BrokerTypeOK, RspIdle, Response
      <4> QED
        BY <2>1, <4>1, HeldPutBack
    <3> QED
      BY <3>1, <3>2
  <2> QED
    BY <1>1, <1>2, <2>2 DEF Downstream
<1>4. CASE ~Exit
  <2>1. UNCHANGED << responseQ, rspH >>
    BY <1>4 DEF BrokerProcessNext, StartBroker, StopBroker, RequeueOne, RequeueFails,
       RequeueEnds, CloseBroker, BrokerCrash, mqVars
  <2> QED
    BY <1>1, <1>2, <2>1 DEF Downstream
<1> QED
  BY <1>3, <1>4

LEMMA RequestHandlerKeeps ==
  ASSUME TypeOK, RequestHandlerNext, NEW r \in Requests, Downstream(r)
  PROVE  Downstream(r)'
<1>1. UNCHANGED << responseQ, rspH, bound, worker >> /\ bound \subseteq Workers
  BY RequestHandlerFrame DEF llmVars, TypeOK, RabbitMQTypeOK
<1>2. ASSUME NEW w \in bound, r \in Unreported(w)
      PROVE  r \in Unreported(w)'
  <2>1. CASE DispatchRequest
    <3>1. reqH.request \in Requests
      BY <2>1 DEF DispatchRequest, TypeOK, BrokerTypeOK, ReqIdle
    <3> QED
      BY <1>1, <1>2, <2>1, <3>1, RouteKeeps DEF DispatchRequest
  <2>2. CASE ~DispatchRequest
    <3>1. workerQ' = workerQ
      BY <2>2 DEF RequestHandlerNext, ReceiveRequest, DispatchFails, AckRequest, mqVars
    <3> QED
      BY <1>1, <1>2, <3>1 DEF Unreported
  <2> QED
    BY <2>1, <2>2
<1> QED
  BY <1>1, <1>2 DEF Downstream

LEMMA DispatchedStep ==
  ASSUME TypeOK, Provenance, [Next]_vars, NEW r \in Requests, Dispatched(r)
  PROVE  Dispatched(r)'
<1>1. CASE Settled(r)
  BY <1>1, SettledForGood DEF Dispatched
<1>2. CASE Downstream(r)
  <2>1. CASE ApiNext \/ (\E w \in Workers : MissHeartbeats(w)) \/ UNCHANGED vars
    <3>1. UNCHANGED << responseQ, rspH, bound, worker, workerQ >>
      BY <2>1, ApiFrame, SilenceFrame DEF mqVars, brokerVars, llmVars
    <3> QED
      BY <1>2, <3>1 DEF Dispatched, Downstream, Unreported
  <2> QED
    BY <1>2, <2>1, RequestHandlerKeeps, ResponseHandlerKeeps, BrokerProcessKeeps,
       WorkerKeeps DEF Next, Dispatched
<1> QED
  BY <1>1, <1>2 DEF Dispatched

(* A request that has been dispatched needs the broker's list no more: for *)
(* good it is with a worker, or its result is on its way to the row, or it *)
(* is settled, whichever process stops, crashes or fails afterwards.       *)
THEOREM DispatchedForGood ==
  ASSUME NEW r \in Requests
  PROVE  Spec => [](Dispatched(r) => []Dispatched(r))
<1>1. TypeOK /\ Provenance /\ [Next]_vars /\ Dispatched(r) => Dispatched(r)'
  BY DispatchedStep
<1> QED
  BY <1>1, TypeCorrect, ProvenanceCorrect, PTL DEF Spec

(*-------------------------- nothing vanishes ---------------------------*)

(* Like Upstream, but a request that is merely being acknowledged does not *)
(* count: by then it must be somewhere else.                               *)
Waiting(r) ==
  \/ r \in Held(requestQ)
  \/ reqH.step = "publish" /\ reqH.request = r
  \/ r \in InMemory

Accounted == \A r \in Requests : Published(r) => Waiting(r) \/ Dispatched(r)

(* What the drain has passed was dispatched: the assignment at its end     *)
(* drops it from the list, and nothing else.                               *)
DrainedIsDispatched ==
  rspH.step = "drain" =>
    \A i \in 1 .. Len(pending_requests) :
      i < rspH.idx => Dispatched(pending_requests[i])

DeliveryInv == BrokerInv /\ Accounted /\ DrainedIsDispatched

LEMMA DeliveryInvInit == Init => DeliveryInv
<1>1. Init => Accounted /\ DrainedIsDispatched
  BY DEF Init, ApiInit, BrokerInit, RspIdle, Accounted, DrainedIsDispatched, Published
<1> QED
  BY <1>1, BrokerInvInit DEF DeliveryInv

LEMMA InMemoryIsPending ==
  TypeOK /\ BrokerInv /\ broker # "requeuing" => InMemory = Held(pending_requests)
<1> SUFFICES ASSUME TypeOK, BrokerInv, broker # "requeuing"
             PROVE  InMemory = Held(pending_requests)
  OBVIOUS
<1>1. RequeueList = pending_requests
  BY DEF BrokerInv, DrainInRange, RequeueList, ExitIdle
<1>2. Held(pending_requests) = { pending_requests[i] : i \in 1 .. Len(pending_requests) }
  BY HeldByIndex DEF TypeOK, BrokerTypeOK
<1> QED
  BY <1>1, <1>2 DEF InMemory

LEMMA InMemoryIsPendingNext ==
  (TypeOK /\ BrokerInv /\ broker # "requeuing" => InMemory = Held(pending_requests))'
  BY InMemoryIsPending, PTL

(* The request handler passes a request on to the workers or the list.     *)
LEMMA RequestHandlerAccounts ==
  ASSUME TypeOK, Provenance, BrokerInv, TypeOK', BrokerInv', RequestHandlerNext,
         NEW r \in Requests, Waiting(r)
  PROVE  Waiting(r)' \/ Dispatched(r)'
<1>1. UNCHANGED << bound, broker, exitH, worker >>
  BY RequestHandlerFrame DEF llmVars
<1>2. /\ requestQ \in Seq(Requests)
      /\ pending_requests \in Seq(Requests)
      /\ reqH \in {ReqIdle} \cup [step : {"publish", "ack"}, request : Requests]
  BY DEF TypeOK, RabbitMQTypeOK, BrokerTypeOK
<1>3. CASE ReceiveRequest
  <2>1. broker # "requeuing" /\ reqH.step # "publish" /\ requestQ # << >>
        /\ requestQ' = Tail(requestQ)
    BY <1>3 DEF ReceiveRequest, Accepting
  <2>2. InMemory = Held(pending_requests) /\ InMemory' = Held(pending_requests')
    BY <1>1, <2>1, InMemoryIsPending, InMemoryIsPendingNext
  <2>3. Held(requestQ) = {Head(requestQ)} \cup Held(requestQ')
        /\ Head(requestQ) \in Requests
    BY <1>2, <2>1, HeldTail
  <2>4. \/ /\ pending_requests' = Append(pending_requests, Head(requestQ))
        \/ /\ reqH'.step = "publish" /\ reqH'.request = Head(requestQ)
           /\ pending_requests' = pending_requests
    BY <1>3 DEF ReceiveRequest, KeepOrPublish
  <2>5. Held(Append(pending_requests, Head(requestQ))) =
          Held(pending_requests) \cup {Head(requestQ)}
    BY <1>2, <2>3, HeldAppend
  <2> QED
    BY <2>1, <2>2, <2>3, <2>4, <2>5 DEF Waiting
<1>4. CASE ~ReceiveRequest
  <2>1. UNCHANGED << requestQ, pending_requests >>
    BY <1>4 DEF RequestHandlerNext, DispatchRequest, DispatchFails, AckRequest, mqVars
  <2>2. InMemory' = InMemory
    BY <1>1, <2>1 DEF InMemory, RequeueList
  <2>3. CASE r \in Held(requestQ) \/ r \in InMemory
    BY <2>1, <2>2, <2>3 DEF Waiting
  <2>4. CASE reqH.step = "publish" /\ reqH.request = r
    <3>1. CASE DispatchRequest
      BY <1>1, <2>4, <3>1, RoutedIsDispatched DEF DispatchRequest
    <3>2. CASE DispatchFails
      <4>1. lost'[r] # {}
        BY <2>4, <3>2 DEF DispatchFails, GiveUp
      <4> QED
        BY <4>1 DEF Dispatched, Settled
    <3> QED
      BY <1>4, <2>4, <3>1, <3>2 DEF RequestHandlerNext, AckRequest
  <2> QED
    BY <2>3, <2>4 DEF Waiting
<1> QED
  BY <1>3, <1>4

(* The drain drops from the list what it has dispatched, also when it      *)
(* replaces the list that a shutdown is requeuing.                         *)
LEMMA ResponseHandlerAccounts ==
  ASSUME TypeOK, Provenance, DeliveryInv, TypeOK', BrokerInv', ResponseHandlerNext,
         NEW r \in Requests, Waiting(r)
  PROVE  Waiting(r)' \/ Dispatched(r)'
<1>1. UNCHANGED << requestQ, reqH, broker >>
  BY ResponseHandlerFrame
<1>2. SUFFICES ASSUME r \in InMemory
               PROVE  r \in InMemory' \/ Dispatched(r)'
  BY <1>1 DEF Waiting
<1>3. CASE ~DrainEnds
  <2>1. UNCHANGED << pending_requests, exitH >>
    BY <1>3 DEF ResponseHandlerNext, ReceiveResponse, UpdateTask, UpdateTaskFails,
       PublishCallback, PublishCallbackFails, DrainDispatch, DrainFails, AckResponse
  <2> QED
    BY <1>1, <1>2, <2>1 DEF InMemory, RequeueList
<1>4. CASE DrainEnds /\ broker = "requeuing"
  <2>1. exitH \in [idx : Nat \ {0}, detached : BOOLEAN, list : Seq(Requests)]
    BY DEF TypeOK, BrokerTypeOK
  <2>2. RequeueList' = RequeueList /\ exitH'.idx = exitH.idx
    BY <1>4, <2>1 DEF DrainEnds, RequeueList
  <2> QED
    BY <1>1, <1>2, <2>2 DEF InMemory
<1>5. CASE DrainEnds /\ broker # "requeuing"
  <2>1. InMemory = Held(pending_requests) /\ InMemory' = Held(pending_requests')
    BY <1>1, <1>5, InMemoryIsPending, InMemoryIsPendingNext DEF DeliveryInv
  <2>2. pending_requests \in Seq(Requests) /\ rspH.idx \in Nat \ {0}
    BY DEF TypeOK, BrokerTypeOK, RspIdle
  <2>3. PICK i \in 1 .. Len(pending_requests) : pending_requests[i] = r
    BY <1>2, <2>1, <2>2, HeldByIndex
  <2>4. CASE i < rspH.idx
    <3>1. Dispatched(r)
      BY <1>5, <2>3, <2>4 DEF DrainEnds, DeliveryInv, DrainedIsDispatched
    <3>2. [Next]_vars
      BY DEF Next
    <3> QED
      BY <3>1, <3>2, DispatchedStep
  <2>5. CASE i >= rspH.idx
    <3> DEFINE n == Len(pending_requests)
    <3>1. /\ n \in Nat /\ i \in Nat /\ i <= n /\ rspH.idx <= i
          /\ i - rspH.idx + 1 \in 1 .. n - rspH.idx + 1
          /\ rspH.idx + (i - rspH.idx + 1) - 1 = i
      BY <2>2, <2>3, <2>5
    <3>2. pending_requests' = SubSeq(pending_requests, rspH.idx, n)
      BY <1>5 DEF DrainEnds, Remaining
    <3> DEFINE rest == SubSeq(pending_requests, rspH.idx, n)
    <3>a. /\ rest \in Seq(Requests)
          /\ rspH.idx <= n + 1 => Len(rest) = n - rspH.idx + 1
          /\ \A j \in 1 .. n - rspH.idx + 1 : rest[j] = pending_requests[rspH.idx + j - 1]
      BY <2>2, SuffixOfSeq
    <3>b. rspH.idx <= n + 1
      BY <2>2, <3>1
    <3>c. rest[i - rspH.idx + 1] = pending_requests[i]
      <4> HIDE DEF rest, n
      <4> QED
        BY <3>1, <3>a
    <3>3. /\ pending_requests' \in Seq(Requests)
          /\ Len(pending_requests') = n - rspH.idx + 1
          /\ pending_requests'[i - rspH.idx + 1] = pending_requests[i]
      <4> HIDE DEF rest, n
      <4>1. pending_requests' = rest
        BY <3>2 DEF rest
      <4> QED
        BY <3>a, <3>b, <3>c, <4>1
    <3>4. r \in Held(pending_requests')
      BY <2>3, <3>1, <3>3, HeldByIndex
    <3> QED
      BY <2>1, <3>4
  <2> QED
    BY <2>2, <2>3, <2>4, <2>5
<1> QED
  BY <1>3, <1>4, <1>5

(* A process that ends gives up its memory on record, and what it has not  *)
(* acknowledged goes back to the request queue.                            *)
LEMMA ExitAccounts ==
  ASSUME TypeOK, Exit, NEW r \in Requests, Waiting(r)
  PROVE  Waiting(r)' \/ Dispatched(r)'
<1>1. requestQ \in Seq(Requests)
  BY DEF TypeOK, RabbitMQTypeOK
<1>2. CASE r \in InMemory
  <2>1. lost'[r] # {}
    BY <1>2 DEF Exit, GiveUp
  <2> QED
    BY <2>1 DEF Dispatched, Settled
<1>3. CASE reqH.step = "idle"
  BY <1>2, <1>3 DEF Exit, Redelivered, Waiting
<1>4. CASE reqH.step # "idle"
  <2>1. reqH.request \in Requests
    BY <1>4 DEF TypeOK, BrokerTypeOK, ReqIdle
  <2>2. requestQ' = << reqH.request >> \o requestQ
    BY <1>4 DEF Exit, Redelivered
  <2>3. Held(requestQ') = {reqH.request} \cup Held(requestQ)
    BY <1>1, <2>1, <2>2, HeldPutBack
  <2> QED
    BY <1>2, <2>3 DEF Waiting
<1> QED
  BY <1>3, <1>4

(* A shutdown moves what is in memory to the request queue, one by one.    *)
LEMMA BrokerProcessAccounts ==
  ASSUME TypeOK, BrokerInv, TypeOK', BrokerInv', BrokerProcessNext,
         NEW r \in Requests, Waiting(r)
  PROVE  Waiting(r)' \/ Dispatched(r)'
<1>1. CASE CloseBroker \/ BrokerCrash
  BY <1>1, ExitAccounts DEF CloseBroker, BrokerCrash
<1>2. CASE StartBroker \/ StopBroker
  <2>1. UNCHANGED << requestQ, reqH, pending_requests, exitH >> /\ broker # "requeuing"
    BY <1>2 DEF StartBroker, StopBroker, mqVars
  <2>2. exitH = ExitIdle
    BY <2>1 DEF BrokerInv, DrainInRange
  <2>3. InMemory' = InMemory
    BY <2>1, <2>2 DEF InMemory, RequeueList, ExitIdle
  <2> QED
    BY <2>1, <2>3 DEF Waiting
<1>3. CASE RequeueOne \/ RequeueFails
  <2>1. UNCHANGED << reqH, pending_requests, broker >> /\ broker = "requeuing"
    BY <1>3 DEF RequeueOne, RequeueFails
  <2>2. exitH \in [idx : Nat \ {0}, detached : BOOLEAN, list : Seq(Requests)]
    BY DEF TypeOK, BrokerTypeOK
  <2>3. RequeueList' = RequeueList /\ exitH'.idx = exitH.idx + 1
    BY <1>3, <2>1, <2>2 DEF RequeueOne, RequeueFails, RequeueList
  <2>4. RequeueList \in Seq(Requests) /\ exitH.idx \in 1 .. Len(RequeueList)
    BY <1>3, <2>2 DEF RequeueOne, RequeueFails, RequeueList, TypeOK, BrokerTypeOK
  <2>5. RequeueList[exitH.idx] \in Requests /\ requestQ \in Seq(Requests)
    BY <2>4 DEF TypeOK, RabbitMQTypeOK
  <2>6. \/ requestQ' = requestQ
        \/ requestQ' = Append(requestQ, RequeueList[exitH.idx])
    BY <1>3 DEF RequeueOne, RequeueFails, mqVars
  <2>7. Held(Append(requestQ, RequeueList[exitH.idx])) =
          Held(requestQ) \cup {RequeueList[exitH.idx]}
    BY <2>5, HeldAppend
  <2>8. CASE r \in InMemory
    <3>1. PICK i \in exitH.idx .. Len(RequeueList) : RequeueList[i] = r
      BY <2>1, <2>8 DEF InMemory
    <3>2. CASE i = exitH.idx /\ RequeueOne
      BY <2>7, <3>1, <3>2 DEF RequeueOne, Waiting
    <3>3. CASE i = exitH.idx /\ RequeueFails
      <4>1. lost'[r] # {}
        BY <3>1, <3>3 DEF RequeueFails, GiveUp
      <4> QED
        BY <4>1 DEF Dispatched, Settled
    <3>4. CASE i # exitH.idx
      <4>1. i \in exitH'.idx .. Len(RequeueList')
        BY <2>3, <2>4, <3>1, <3>4
      <4>2. r \in InMemory'
        BY <2>1, <2>3, <3>1, <4>1 DEF InMemory
      <4> QED
        BY <4>2 DEF Waiting
    <3> QED
      BY <1>3, <3>2, <3>3, <3>4
  <2>9. CASE r \notin InMemory
    BY <2>1, <2>6, <2>7, <2>9 DEF Waiting
  <2> QED
    BY <2>8, <2>9
<1>4. CASE RequeueEnds
  <2>1. UNCHANGED << requestQ, reqH >> /\ broker = "requeuing"
        /\ exitH.idx > Len(RequeueList)
    BY <1>4 DEF RequeueEnds, mqVars
  <2>2. exitH.idx \in Nat /\ Len(RequeueList) \in Nat
    BY DEF RequeueList, TypeOK, BrokerTypeOK
  <2>3. InMemory = {}
    BY <2>1, <2>2 DEF InMemory
  <2> QED
    BY <2>1, <2>3 DEF Waiting
<1> QED
  BY <1>1, <1>2, <1>3, <1>4 DEF BrokerProcessNext

LEMMA ApiAccounts ==
  ASSUME TypeOK, ApiNext, NEW r \in Requests
  PROVE  /\ Waiting(r) => Waiting(r)'
         /\ ~Published(r) /\ Published(r)' => Waiting(r)'
<1> PICK q \in Requests :
      \/ SubmitTask(q) \/ SubmitPublishFails(q) \/ InsertTask(q) \/ InsertTaskFails(q)
  BY DEF ApiNext
<1>1. requestQ \in Seq(Requests) /\ api \in [Requests -> ApiState]
  BY DEF TypeOK, RabbitMQTypeOK, ApiTypeOK
<1>2. UNCHANGED reqH /\ InMemory' = InMemory
  BY ApiFrame DEF brokerVars, InMemory, RequeueList
<1>3. CASE requestQ' # requestQ
  <2>1. /\ SubmitTask(q) \/ SubmitPublishFails(q)
        /\ requestQ' = Append(requestQ, q)
    BY <1>3 DEF SubmitTask, SubmitPublishFails, InsertTask, InsertTaskFails, mqVars
  <2>2. Held(requestQ') = Held(requestQ) \cup {q}
    BY <1>1, <2>1, HeldAppend
  <2>3. r # q => (Published(r)' <=> Published(r))
    BY <1>1, <2>1 DEF SubmitTask, SubmitPublishFails, Published
  <2> QED
    BY <1>2, <2>2, <2>3 DEF Waiting
<1>4. CASE requestQ' = requestQ
  <2>1. Waiting(r)' <=> Waiting(r)
    BY <1>2, <1>4 DEF Waiting
  <2>2. CASE SubmitTask(q) \/ SubmitPublishFails(q)
    <3>1. SubmitTask(q) => requestQ' # requestQ
      BY <1>1 DEF SubmitTask
    <3>2. Append(requestQ, q) # requestQ
      BY <1>1
    <3>3. SubmitPublishFails(q) /\ api' = [api EXCEPT ![q] = "unsent"]
      BY <1>4, <2>2, <3>1, <3>2 DEF SubmitPublishFails
    <3>4. Published(r)' => Published(r)
      BY <1>1, <3>3 DEF Published
    <3> QED
      BY <2>1, <3>4
  <2>3. CASE InsertTask(q) \/ InsertTaskFails(q)
    <3>1. Published(r)' <=> Published(r)
      BY <1>1, <2>3 DEF InsertTask, InsertTaskFails, Published
    <3> QED
      BY <2>1, <3>1
  <2> QED
    BY <2>2, <2>3
<1> QED
  BY <1>3, <1>4

LEMMA AccountedStep ==
  ASSUME TypeOK, Provenance, DeliveryInv, [Next]_vars, TypeOK', BrokerInv'
  PROVE  Accounted'
<1> SUFFICES ASSUME NEW r \in Requests, Published(r)'
             PROVE  Waiting(r)' \/ Dispatched(r)'
  BY DEF Accounted
<1>1. CASE ~Published(r)
  <2>1. api' # api
    BY <1>1 DEF Published
  <2>2. ApiNext
    BY <2>1, RequestHandlerFrame, ResponseHandlerFrame, BrokerProcessFrame,
       LLMWorkerFrame, SilenceFrame DEF Next
  <2> QED
    BY <1>1, <2>2, ApiAccounts
<1>2. CASE Dispatched(r)
  BY <1>2, DispatchedStep
<1>3. CASE Published(r) /\ ~Dispatched(r)
  <2>1. Waiting(r)
    BY <1>3 DEF DeliveryInv, Accounted
  <2>2. CASE LLMWorkerNext \/ (\E w \in Workers : MissHeartbeats(w)) \/ UNCHANGED vars
    <3>1. UNCHANGED << requestQ, reqH, broker, pending_requests, exitH >>
      BY <2>2, LLMWorkerFrame, SilenceFrame DEF mqVars, brokerVars
    <3> QED
      BY <2>1, <3>1 DEF Waiting, InMemory, RequeueList
  <2> QED
    BY <2>1, <2>2, ApiAccounts, RequestHandlerAccounts, ResponseHandlerAccounts,
       BrokerProcessAccounts DEF Next, DeliveryInv
<1> QED
  BY <1>1, <1>2, <1>3

LEMMA DrainedStep ==
  ASSUME TypeOK, Provenance, DeliveryInv, [Next]_vars
  PROVE  DrainedIsDispatched'
<1> SUFFICES ASSUME rspH'.step = "drain", NEW i \in 1 .. Len(pending_requests'),
                    i < rspH'.idx
             PROVE  Dispatched(pending_requests[i])'
  BY DEF DrainedIsDispatched
<1>1. /\ pending_requests \in Seq(Requests)
      /\ rspH \in {RspIdle} \cup
           [step : {"update", "callback", "drain", "ack"}, msg : TaskResponse,
            idx : Nat \ {0}]
  BY DEF TypeOK, BrokerTypeOK
<1>2. ASSUME i \in 1 .. Len(pending_requests),
             pending_requests'[i] = pending_requests[i],
             Dispatched(pending_requests[i])
      PROVE  Dispatched(pending_requests[i])'
  <2>1. PICK q \in Requests : q = pending_requests[i]
    BY <1>1, <1>2
  <2>2. Dispatched(q)'
    BY <1>2, <2>1, DispatchedStep
  <2> QED
    BY <1>2, <2>1, <2>2 DEF Dispatched, Downstream, Settled
<1>3. UNCHANGED << pending_requests, rspH >> => Dispatched(pending_requests[i])'
  BY <1>2 DEF DeliveryInv, DrainedIsDispatched
<1>4. CASE \/ ApiNext \/ LLMWorkerNext
           \/ (\E w \in Workers : MissHeartbeats(w)) \/ UNCHANGED vars
  BY <1>3, <1>4, ApiFrame, LLMWorkerFrame, SilenceFrame DEF brokerVars
<1>5. CASE RequestHandlerNext
  <2>1. rspH' = rspH
    BY <1>5, RequestHandlerFrame
  <2>2. CASE ReceiveRequest
    <3>1. broker = "up" /\ Head(requestQ) \in Requests
      BY <2>2 DEF ReceiveRequest, Accepting, TypeOK, RabbitMQTypeOK
    <3>2. rspH.idx <= Len(pending_requests) + 1 /\ rspH.idx \in Nat
      BY <1>1, <2>1, <3>1 DEF DeliveryInv, BrokerInv, DrainInRange, RspIdle
    <3>3. \/ pending_requests' = pending_requests
          \/ pending_requests' = Append(pending_requests, Head(requestQ))
      BY <2>2 DEF ReceiveRequest, KeepOrPublish
    <3>4. i \in 1 .. Len(pending_requests)
      BY <1>1, <2>1, <3>1, <3>2, <3>3
    <3>5. pending_requests'[i] = pending_requests[i]
      BY <1>1, <3>1, <3>3, <3>4
    <3> QED
      BY <1>2, <2>1, <3>4, <3>5 DEF DeliveryInv, DrainedIsDispatched
  <2>3. CASE ~ReceiveRequest
    <3>1. pending_requests' = pending_requests
      BY <1>5, <2>3 DEF RequestHandlerNext, DispatchRequest, DispatchFails, AckRequest
    <3> QED
      BY <1>3, <2>1, <3>1
  <2> QED
    BY <2>2, <2>3
<1>6. CASE ResponseHandlerNext
  <2>1. UpdateTask \/ PublishCallback \/ DrainDispatch
    BY <1>1, <1>6 DEF ResponseHandlerNext, ReceiveResponse, UpdateTaskFails,
       PublishCallbackFails, DrainFails, Draining, DrainEnds, AckResponse, RspIdle
  <2>2. UNCHANGED pending_requests
    BY <2>1 DEF UpdateTask, PublishCallback, DrainDispatch
  <2>3. CASE UpdateTask \/ PublishCallback
    <3>1. rspH'.idx = 1
      <4>1. rspH.idx = 1 /\ rspH.step # "idle"
        BY <2>3 DEF UpdateTask, PublishCallback, DeliveryInv, BrokerInv, DrainInRange
      <4> QED
        BY <1>1, <2>3, <4>1 DEF UpdateTask, PublishCallback, RspIdle
    <3> QED
      BY <3>1
  <2>4. CASE DrainDispatch
    <3>1. rspH.step = "drain" /\ rspH.idx \in Nat \ {0} /\ rspH'.idx = rspH.idx + 1
      BY <1>1, <2>4 DEF DrainDispatch, Draining, RspIdle
    <3>2. CASE i < rspH.idx
      BY <1>2, <2>2, <3>1, <3>2 DEF DeliveryInv, DrainedIsDispatched
    <3>3. CASE i = rspH.idx
      <4>1. PICK q \in Requests : q = pending_requests[i]
        BY <1>1, <2>2
      <4>2. UNCHANGED << bound, worker >>
        BY <1>6, ResponseHandlerFrame DEF llmVars
      <4>3. Dispatched(q)'
        BY <2>4, <3>3, <4>1, <4>2, RoutedIsDispatched DEF DrainDispatch
      <4> QED
        BY <2>2, <4>1, <4>3 DEF Dispatched, Downstream, Settled
    <3> QED
      BY <3>1, <3>2, <3>3
  <2> QED
    BY <2>1, <2>3, <2>4
<1>7. CASE BrokerProcessNext
  <2>1. ~CloseBroker /\ ~BrokerCrash
    BY DEF CloseBroker, BrokerCrash, Exit, RspIdle
  <2>2. CASE RequeueEnds
    BY <2>2 DEF RequeueEnds
  <2>3. CASE ~RequeueEnds
    BY <1>3, <1>7, <2>1, <2>3 DEF BrokerProcessNext, StartBroker, StopBroker,
       RequeueOne, RequeueFails
  <2> QED
    BY <2>2, <2>3
<1> QED
  BY <1>4, <1>5, <1>6, <1>7 DEF Next

LEMMA DeliveryInvCorrect == Spec => []DeliveryInv
<1>1. TypeOK /\ Provenance /\ DeliveryInv /\ [Next]_vars /\ TypeOK' /\ BrokerInv'
        => DeliveryInv'
  BY AccountedStep, DrainedStep DEF DeliveryInv
<1> QED
  BY <1>1, TypeCorrect, ProvenanceCorrect, BrokerInvCorrect, DeliveryInvInit, PTL
     DEF Spec

(* No request disappears, for any number of requests and workers and with  *)
(* any disruptions: whatever crashes, stops or overlaps, every published   *)
(* request is in a queue, with a handler or in the broker's list, or its   *)
(* row carries the outcome, or one of the named loss points has it.        *)
THEOREM NoRequestVanishes == Spec => []NothingVanishes
<1>1. DeliveryInv => NothingVanishes
  BY DEF DeliveryInv, Accounted, Waiting, Dispatched, NothingVanishes, Upstream
<1> QED
  BY <1>1, DeliveryInvCorrect, PTL

(*------------------------------ callbacks ------------------------------*)

(* The answer of r's row is with the response handler, or next in line.    *)
AboutToCallBack(r) ==
  \/ rspH.step \in {"update", "callback"} /\ Answers(rspH.msg, r)
  \/ /\ rspH.step = "idle"
     /\ responseQ # << >>
     /\ Answers(Head(responseQ), r)

(* A callback that was sent, or given up, stays so while the row stays.    *)
LEMMA CalledBackForGood ==
  ASSUME TypeOK, Provenance, [Next]_vars, NEW r \in Requests,
         tasks'[r] = tasks[r], CalledBack(r)
  PROVE  CalledBack(r)'
<1>1. lost[r] \subseteq lost'[r]
  BY LostOnlyGrows
<1>2. callbackQ[r].texts \subseteq callbackQ'[r].texts
  <2>1. CASE ResponseHandlerNext
    <3>1. callbackQ' = callbackQ \/ QueueCallback(rspH.msg)
      BY <2>1 DEF ResponseHandlerNext, ReceiveResponse, UpdateTask, UpdateTaskFails,
         PublishCallback, PublishCallbackFails, DrainDispatch, DrainFails, DrainEnds,
         AckResponse, mqVars
    <3> QED
      BY <3>1 DEF QueueCallback, TypeOK, RabbitMQTypeOK
  <2>2. CASE ~ResponseHandlerNext
    <3>1. callbackQ' = callbackQ
      BY <2>2, ApiFrame, RequestHandlerFrame, BrokerProcessFrame, LLMWorkerFrame,
         SilenceFrame DEF Next, mqVars
    <3> QED
      BY <3>1
  <2> QED
    BY <2>1, <2>2
<1> QED
  BY <1>1, <1>2 DEF CalledBack

(* The answer goes from the queue to the handler, and from there to the    *)
(* callback queue, or the handler gives up.                                *)
LEMMA ResponseHandlerCallsBack ==
  ASSUME TypeOK, Provenance, ResponseHandlerNext, NEW r \in WithCallback,
         tasks'[r] = tasks[r], AboutToCallBack(r)
  PROVE  CalledBack(r)' \/ AboutToCallBack(r)'
<1>1. /\ r \in Requests
      /\ callbackQ \in [Requests -> Callbacks]
      /\ rspH \in {RspIdle} \cup
           [step : {"update", "callback", "drain", "ack"}, msg : TaskResponse,
            idx : Nat \ {0}]
  BY EnvironmentAssumption DEF TypeOK, RabbitMQTypeOK, BrokerTypeOK
<1>2. CASE rspH.step = "idle"
  <2>1. ReceiveResponse
    BY <1>2 DEF ResponseHandlerNext, UpdateTask, UpdateTaskFails, PublishCallback,
       PublishCallbackFails, DrainDispatch, DrainFails, Draining, DrainEnds,
       AckResponse
  <2>2. Answers(Head(responseQ), r) /\ Head(responseQ).status = "success"
    BY <1>2 DEF AboutToCallBack, Answers
  <2>3. rspH'.step = "update" /\ rspH'.msg = Head(responseQ)
    BY <2>1, <2>2 DEF ReceiveResponse
  <2> QED
    BY <2>2, <2>3 DEF AboutToCallBack, Answers
<1>3. CASE rspH.step \in {"update", "callback"}
  <2>1. /\ Answers(rspH.msg, r)
        /\ rspH.msg.request = r
        /\ rspH.msg.status = "success"
        /\ rspH.msg.result = tasks'[r].result
    BY <1>3 DEF AboutToCallBack, Answers
  <2>2. UpdateTask \/ UpdateTaskFails \/ PublishCallback \/ PublishCallbackFails
    BY <1>3 DEF ResponseHandlerNext, ReceiveResponse, DrainDispatch, DrainFails,
       Draining, DrainEnds, AckResponse
  <2>3. CASE UpdateTask
    <3>1. rspH' = [rspH EXCEPT !.step = "callback"]
      BY <2>1, <2>3 DEF UpdateTask, AfterUpdate
    <3>2. rspH'.step = "callback" /\ rspH'.msg = rspH.msg
      BY <1>1, <1>3, <3>1 DEF RspIdle
    <3> QED
      BY <2>1, <3>2 DEF AboutToCallBack, Answers
  <2>4. CASE UpdateTaskFails
    <3>1. "db_update" \in lost'[r]
      BY <1>1, <2>1, <2>4 DEF UpdateTaskFails, GiveUp
    <3> QED
      BY <3>1 DEF CalledBack
  <2>5. CASE QueueCallback(rspH.msg)
    <3>1. rspH.msg.result \in callbackQ'[r].texts
      BY <1>1, <2>1, <2>5 DEF QueueCallback
    <3> QED
      BY <2>1, <3>1 DEF CalledBack
  <2>6. CASE GiveUp({rspH.msg.request}, "callback_publish")
    <3>1. "callback_publish" \in lost'[r]
      BY <1>1, <2>1, <2>6 DEF GiveUp
    <3> QED
      BY <3>1 DEF CalledBack
  <2> QED
    BY <2>2, <2>3, <2>4, <2>5, <2>6 DEF PublishCallback, PublishCallbackFails
<1> QED
  BY <1>2, <1>3 DEF AboutToCallBack

(* The next response stays the next: workers only append, and a broker     *)
(* that ends puts the one it was working on in front of it.                *)
LEMMA NextInLine ==
  ASSUME TypeOK, Provenance, [Next]_vars, ~ResponseHandlerNext, NEW r \in Requests,
         tasks'[r] = tasks[r], AboutToCallBack(r)
  PROVE  AboutToCallBack(r)'
<1>1. responseQ \in Seq(Response)
  BY DEF TypeOK, RabbitMQTypeOK
<1>2. CASE UNCHANGED << rspH, responseQ >>
  BY <1>2 DEF AboutToCallBack, Answers
<1>3. CASE LLMWorkerNext
  <2>1. rspH' = rspH
    BY <1>3, LLMWorkerFrame DEF brokerVars
  <2>2. responseQ # << >> =>
          responseQ' # << >> /\ Head(responseQ') = Head(responseQ)
    <3>1. responseQ' = responseQ \/ \E m : responseQ' = Append(responseQ, m)
      BY <1>3 DEF LLMWorkerNext, WorkerStart, Heartbeat, ReceiveTask,
         InferenceSucceeds, InferenceFails, ReportSuccess, ReportFails, Respond,
         SendShutdown, CloseWorker, WorkerCrash, Disconnect, mqVars
    <3>2. ASSUME NEW m, responseQ # << >>
          PROVE  Append(responseQ, m) # << >>
                 /\ Head(Append(responseQ, m)) = Head(responseQ)
      <4>1. responseQ \in Seq(Response \cup {m})
        BY <1>1, SeqMonotone
      <4> QED
        BY <3>2, <4>1
    <3> QED
      BY <3>1, <3>2
  <2> QED
    BY <2>1, <2>2 DEF AboutToCallBack, Answers
<1>4. CASE Exit
  <2>1. rspH'.step = "idle"
    BY <1>4 DEF Exit, RspIdle
  <2>2. CASE rspH.step = "idle"
    BY <1>4, <2>1, <2>2 DEF Exit, Redelivered, AboutToCallBack, Answers
  <2>3. CASE rspH.step # "idle"
    <3>1. rspH.msg \in Response
      BY <2>3 DEF TypeOK, BrokerTypeOK, RspIdle, Response
    <3>2. responseQ' = << rspH.msg >> \o responseQ
      BY <1>4, <2>3 DEF Exit, Redelivered
    <3>3. responseQ' # << >> /\ Head(responseQ') = rspH.msg
      BY <1>1, <3>1, <3>2
    <3> QED
      BY <2>1, <2>3, <3>3 DEF AboutToCallBack, Answers
  <2> QED
    BY <2>2, <2>3
<1>5. CASE BrokerProcessNext /\ ~Exit
  <2>1. UNCHANGED << rspH, responseQ >>
    BY <1>5 DEF BrokerProcessNext, StartBroker, StopBroker, RequeueOne, RequeueFails,
       RequeueEnds, CloseBroker, BrokerCrash, mqVars
  <2> QED
    BY <1>2, <2>1
<1>6. CASE \/ ApiNext \/ RequestHandlerNext
           \/ (\E w \in Workers : MissHeartbeats(w)) \/ UNCHANGED vars
  <2>1. UNCHANGED << rspH, responseQ >>
    BY <1>6, ApiFrame, RequestHandlerFrame, SilenceFrame DEF mqVars, brokerVars
  <2> QED
    BY <1>2, <2>1
<1> QED
  BY <1>3, <1>4, <1>5, <1>6 DEF Next

(* An answer that is recorded is with the handler that calls back next.    *)
LEMMA RecordedCallsBack ==
  ASSUME TypeOK, Provenance, [Next]_vars, NEW r \in WithCallback,
         tasks'[r] # tasks[r], tasks'[r].status = "ready"
  PROVE  CalledBack(r)' \/ AboutToCallBack(r)'
<1>1. r \in Requests
  BY EnvironmentAssumption
<1>2. /\ UpdateTask \/ UpdateTaskFails
      /\ rspH.msg.request = r
      /\ rspH.msg.result = tasks'[r].result
  BY <1>1, RowStep
<1>3. CASE UpdateTask
  <2>1. rspH.msg.status = "success" /\ rspH.step = "update"
    BY <1>3 DEF UpdateTask, Provenance, ResultProvenance, Results
  <2>2. rspH' = [rspH EXCEPT !.step = "callback"]
    BY <1>2, <1>3, <2>1 DEF UpdateTask, AfterUpdate
  <2>3. rspH'.step = "callback" /\ rspH'.msg = rspH.msg
    BY <2>1, <2>2 DEF TypeOK, BrokerTypeOK, RspIdle
  <2> QED
    BY <1>2, <2>1, <2>3 DEF AboutToCallBack, Answers
<1>4. CASE UpdateTaskFails
  <2>1. "db_update" \in lost'[r]
    BY <1>1, <1>2, <1>4 DEF UpdateTaskFails, GiveUp
  <2> QED
    BY <2>1 DEF CalledBack
<1> QED
  BY <1>2, <1>3, <1>4

LEMMA CalledBackStep ==
  TypeOK /\ Provenance /\ ReadyIsCalledBack /\ [Next]_vars => ReadyIsCalledBack'
<1> SUFFICES ASSUME TypeOK, Provenance, ReadyIsCalledBack, [Next]_vars,
                    NEW r \in WithCallback, tasks'[r].status = "ready"
             PROVE  CalledBack(r)' \/ AboutToCallBack(r)'
  BY DEF ReadyIsCalledBack, AboutToCallBack
<1>1. r \in Requests
  BY EnvironmentAssumption
<1>2. CASE tasks'[r] = tasks[r]
  <2>1. CalledBack(r) \/ AboutToCallBack(r)
    BY <1>2 DEF ReadyIsCalledBack, AboutToCallBack
  <2> QED
    BY <1>1, <1>2, <2>1, CalledBackForGood, ResponseHandlerCallsBack, NextInLine
<1> QED
  BY <1>2, RecordedCallsBack

(* A client that asked for a callback gets one for the answer its row      *)
(* shows, for any number of requests, workers and disruptions: before a    *)
(* second answer can replace it, the callback is queued or given up on an  *)
(* exception that was logged.                                              *)
THEOREM ReadyRowsAreCalledBack == Spec => []ReadyIsCalledBack
<1>1. Init => ReadyIsCalledBack
  BY EnvironmentAssumption DEF Init, TaskServiceInit, NoRow, ReadyIsCalledBack
<1> QED
  BY <1>1, CalledBackStep, TypeCorrect, ProvenanceCorrect, PTL DEF Spec
===============================================================================
