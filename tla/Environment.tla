----------------------------- MODULE Environment -----------------------------
(***************************************************************************)
(* What surrounds the services: the requests clients submit, the           *)
(* disruptions that can hit a run (a process killed or stopped, an         *)
(* operation that raises), and the bookkeeping of what a disruption made   *)
(* the services give up.  `disruptions' and `lost' are history variables:  *)
(* no action of a service reads `lost', and `disruptions' only bounds a    *)
(* run.                                                                    *)
(***************************************************************************)
EXTENDS Naturals

CONSTANTS
  Requests,        \* task_uuids handed out by the api
  Workers,         \* WORKER_IDs; a restarted llm worker is a new member
  NoRequest,       \* the request of a message that carries none
  Texts,           \* the texts an inference may answer a request with
  NoText,          \* the text of a message or a row that carries none
  WithCallback,    \* the requests submitted with a non-blank callback_url
  Disruptive,      \* the kinds of disruption that may happen
  MaxDisruptions   \* how many of them a run may contain

DisruptionKinds ==
  { "worker_stop", "worker_crash", "broker_stop", "broker_crash", "stall",
    "inference_fails", "publish_fails", "db_fails" }

ASSUME EnvironmentAssumption ==
  /\ NoRequest \notin Requests
  /\ NoText \notin Texts
  /\ WithCallback \subseteq Requests
  /\ Disruptive \subseteq DisruptionKinds
  /\ MaxDisruptions \in Nat

VARIABLES
  disruptions,     \* how many disruptions have happened
  lost             \* per request, the places where a copy of it was given up

envVars == << disruptions, lost >>

LossPoints ==
  { "broker_memory", "broker_publish", "requeue_publish", "no_binding",
    "worker_queue", "inference", "report_publish", "no_row", "db_update",
    "callback_publish" }

EnvTypeOK ==
  /\ disruptions \in Nat
  /\ lost \in [Requests -> SUBSET LossPoints]

EnvInit ==
  /\ disruptions = 0
  /\ lost = [r \in Requests |-> {}]

Disrupt(kind) ==
  /\ kind \in Disruptive
  /\ disruptions < MaxDisruptions
  /\ disruptions' = disruptions + 1

GiveUp(S, point) ==
  lost' = [r \in Requests |-> IF r \in S THEN lost[r] \cup {point} ELSE lost[r]]
==============================================================================
