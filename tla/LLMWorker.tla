------------------------------ MODULE LLMWorker ------------------------------
(***************************************************************************)
(* The llm worker processes.  A worker declares and binds its private      *)
(* queue, sends heartbeats from a background task, and handles one request *)
(* at a time (prefetch_count=1): inference, then the report, with an await *)
(* between the two.  The ack that follows has no step of its own: nobody   *)
(* but the worker ever sees its exclusive queue.  A SIGTERM makes it       *)
(* announce `shutdown' while its consumer and its heartbeat task still     *)
(* run; the connection is closed afterwards.                               *)
(*                                                                         *)
(* A heartbeat is left out while the response queue still holds a message  *)
(* that registers the same worker: it would only renew that registration.  *)
(***************************************************************************)
EXTENDS RabbitMQ

VARIABLES
  worker,     \* per worker: its process state and its message handler
  answered    \* history: per request, the texts inferences answered it with

llmVars == << worker, answered >>

WorkerState == { "off", "up", "stopping", "gone" }

WorkerRecord ==
  [state : WorkerState, step : {"idle"}, task : {NoRequest}, result : {NoText}]
    \cup
  [state : {"up", "stopping"}, step : {"inference"}, task : Requests,
   result : {NoText}]
    \cup
  [state : {"up", "stopping"}, step : {"report"}, task : Requests,
   result : Texts]

Idle(state) ==
  [state |-> state, step |-> "idle", task |-> NoRequest, result |-> NoText]

LLMWorkerTypeOK ==
  /\ worker \in [Workers -> WorkerRecord]
  /\ answered \in [Requests -> SUBSET Texts]

LLMWorkerInit ==
  /\ worker = [w \in Workers |-> Idle("off")]
  /\ answered = [r \in Requests |-> {}]

Consuming(w) == worker[w].state \in {"up", "stopping"}

Finish(w) ==
  worker' = [worker EXCEPT ![w] = Idle(worker[w].state)]

WorkerStart(w) ==
  /\ worker[w].state = "off"
  /\ worker' = [worker EXCEPT ![w].state = "up"]
  /\ DeclareAndBind(w)
  /\ UNCHANGED << envVars, requestQ, responseQ, callbackQ, answered >>

Registering(w) ==
  \E m \in Held(responseQ) : m.worker = w /\ m.status # "shutdown"

(* The heartbeat task is cancelled only after `shutdown' was sent.         *)
Heartbeat(w) ==
  /\ Consuming(w)
  /\ ~Registering(w)
  /\ Respond(Presence("heartbeat", w))
  /\ UNCHANGED << envVars, requestQ, callbackQ, workerQ, bound, llmVars >>

ReceiveTask(w) ==
  /\ Consuming(w)
  /\ worker[w].step = "idle"
  /\ workerQ[w] # << >>
  /\ worker' = [worker EXCEPT ![w].step = "inference",
                              ![w].task = Head(workerQ[w])]
  /\ workerQ' = [workerQ EXCEPT ![w] = Tail(@)]
  /\ UNCHANGED << envVars, requestQ, responseQ, callbackQ, bound, answered >>

(* Any text may come out, and another one for the same request next time.  *)
InferenceSucceeds(w) ==
  /\ worker[w].step = "inference"
  /\ \E t \in Texts :
       /\ answered' = [answered EXCEPT ![worker[w].task] = @ \cup {t}]
       /\ worker' = [worker EXCEPT ![w].step = "report", ![w].result = t]
  /\ UNCHANGED << envVars, mqVars >>

(* Mutant: a failed inference is reported like a result.                   *)
InferenceFailsUnnoticed(w) ==
  /\ worker[w].step = "inference"
  /\ Disrupt("inference_fails")
  /\ \E t \in Texts :
       worker' = [worker EXCEPT ![w].step = "report", ![w].result = t]
  /\ UNCHANGED << lost, mqVars, answered >>

(* The except branch reads result_data, which is unbound when inference    *)
(* raised: send_status(failed_task) is never reached, and the second       *)
(* exception makes message.process() reject the message without requeue.   *)
InferenceFails(w) ==
  /\ worker[w].step = "inference"
  /\ Disrupt("inference_fails")
  /\ GiveUp({worker[w].task}, "inference")
  /\ Finish(w)
  /\ UNCHANGED << mqVars, answered >>

ReportSuccess(w) ==
  /\ worker[w].step = "report"
  /\ Respond(Msg("success", w, worker[w].task, worker[w].result))
  /\ Finish(w)
  /\ UNCHANGED << envVars, requestQ, callbackQ, workerQ, bound, answered >>

(* send_status swallows the exception, so the request is acknowledged.  If *)
(* the server took the message all the same, this is ReportSuccess.        *)
ReportFails(w) ==
  /\ worker[w].step = "report"
  /\ Disrupt("publish_fails")
  /\ GiveUp({worker[w].task}, "report_publish")
  /\ Finish(w)
  /\ UNCHANGED << mqVars, answered >>

SendShutdown(w) ==
  /\ worker[w].state = "up"
  /\ Disrupt("worker_stop")
  /\ worker' = [worker EXCEPT ![w].state = "stopping"]
  /\ Respond(Presence("shutdown", w))
  /\ UNCHANGED << lost, requestQ, callbackQ, workerQ, bound, answered >>

(* What only this worker holds: its queue, and its task until reported.    *)
Unreported(w) ==
  Held(workerQ[w]) \cup
  (IF worker[w].step # "idle" THEN {worker[w].task} ELSE {})

Disconnect(w) ==
  /\ worker' = [worker EXCEPT ![w] = Idle("gone")]
  /\ DeleteExclusive(w)
  /\ GiveUp(Unreported(w), "worker_queue")
  /\ UNCHANGED << requestQ, responseQ, callbackQ, answered >>

CloseWorker(w) ==
  /\ worker[w].state = "stopping"
  /\ Disconnect(w)
  /\ UNCHANGED disruptions

WorkerCrash(w) ==
  /\ Consuming(w)
  /\ Disrupt("worker_crash")
  /\ Disconnect(w)
==============================================================================
