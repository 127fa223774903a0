------------------------------- MODULE RabbitMQ -------------------------------
(***************************************************************************)
(* The RabbitMQ server as the workers use it: the durable queues for       *)
(* requests, responses and callbacks, the direct exchange, and the private *)
(* exclusive queue of every llm worker.  All workers bind their queue with *)
(* the same routing key, so one publish reaches every bound queue.         *)
(*                                                                         *)
(* The server is assumed not to lose durable queues.  A message that is    *)
(* not acknowledged goes back to the head of its queue when its consumer's *)
(* connection closes; an exclusive queue disappears with its owner.  The   *)
(* callback queue keeps no order: its consumer works on ten messages at a  *)
(* time, so what a reader of it can rely on is how many copies a request   *)
(* has there, and with which texts.                                        *)
(***************************************************************************)
EXTENDS Environment, Sequences

VARIABLES
  requestQ,   \* REQUEST_QUEUE
  responseQ,  \* RESPONSE_QUEUE
  callbackQ,  \* CALLBACK_QUEUE, per request its copies and their texts
  workerQ,    \* queue.<WORKER_ID>, one per worker
  bound       \* workers whose private queue exists and is bound

mqVars == << requestQ, responseQ, callbackQ, workerQ, bound >>

TaskResponse ==
  [status : {"success"}, worker : Workers, request : Requests, result : Texts]
    \cup
  [status : {"failed_task"}, worker : Workers, request : Requests,
   result : {NoText}]

PresenceMessage ==
  [status : {"heartbeat", "shutdown"}, worker : Workers,
   request : {NoRequest}, result : {NoText}]

Response == TaskResponse \cup PresenceMessage

Callbacks == [copies : Nat, texts : SUBSET (Texts \cup {NoText})]

RabbitMQTypeOK ==
  /\ requestQ \in Seq(Requests)
  /\ responseQ \in Seq(Response)
  /\ callbackQ \in [Requests -> Callbacks]
  /\ workerQ \in [Workers -> Seq(Requests)]
  /\ bound \subseteq Workers

RabbitMQInit ==
  /\ requestQ = << >>
  /\ responseQ = << >>
  /\ callbackQ = [r \in Requests |-> [copies |-> 0, texts |-> {}]]
  /\ workerQ = [w \in Workers |-> << >>]
  /\ bound = {}

Msg(status, w, r, t) ==
  [status |-> status, worker |-> w, request |-> r, result |-> t]

Presence(status, w) == Msg(status, w, NoRequest, NoText)

(* exchange.publish(routing_key = "worker.llm"): fan-out to all bindings.  *)
Route(r) ==
  workerQ' = [w \in Workers |->
                IF w \in bound THEN Append(workerQ[w], r) ELSE workerQ[w]]

Respond(m) == responseQ' = Append(responseQ, m)

(* Mutant: the queue is declared, and not bound to the exchange.           *)
DeclareOnly(w) == UNCHANGED << bound, workerQ >>

DeclareAndBind(w) ==
  /\ bound' = bound \cup {w}
  /\ UNCHANGED workerQ

DeleteExclusive(w) ==
  /\ bound' = bound \ {w}
  /\ workerQ' = [workerQ EXCEPT ![w] = << >>]

(* The messages a sequence holds.                                          *)
Held(s) == { s[i] : i \in DOMAIN s }
===============================================================================
