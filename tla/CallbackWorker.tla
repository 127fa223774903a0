---------------------------- MODULE CallbackWorker ----------------------------
(***************************************************************************)
(* The callback worker: it takes up to ten messages of the callback queue  *)
(* at a time, each in a task of its own that posts the result to the       *)
(* client's URL, retries after a backoff, and then acknowledges.  On       *)
(* SIGTERM the HTTP client is closed first and the RabbitMQ connection     *)
(* second, while the tasks still run.                                      *)
(*                                                                         *)
(* The server gives a message that is not acknowledged back to the queue   *)
(* when the connection ends.  The connection also ends without the         *)
(* process: connect_robust connects again and consumes again, while the    *)
(* tasks of the earlier deliveries post on, until their acknowledgement    *)
(* raises on the closed channel.                                           *)
(***************************************************************************)
EXTENDS Naturals, Sequences, FiniteSets

CONSTANTS
  Callbacks,     \* messages of CALLBACK_QUEUE, all in the durable queue
  Relative,      \* those whose callback_url is empty, or neither http(s) nor local
  Malformed,     \* those whose callback_url is, and httpx cannot parse it
  PrefetchCount, \* 10 in the code
  MaxTries,      \* 3 in the code
  MaxExits,      \* bound on SIGTERMs and crashes of a run
  MaxDrops       \* bound on connections lost by a process that lives on

ASSUME CallbackAssumption ==
  /\ Relative \subseteq Callbacks
  /\ Malformed \subseteq Callbacks \ Relative
  /\ PrefetchCount \in Nat \ {0}
  /\ MaxTries \in Nat \ {0}
  /\ MaxExits \in Nat
  /\ MaxDrops \in Nat

(* Those a POST can be sent for.                                           *)
Usable == Callbacks \ (Relative \cup Malformed)

VARIABLES
  process,   \* "up", "client_closed" (aclose done), "down"
  message,   \* at the server; "acked": the acknowledgement is on its way
  tasks,     \* per message, one task per delivery, oldest first
  exits,     \* SIGTERMs and crashes so far
  drops      \* connections lost so far

vars == << process, message, tasks, exits, drops >>

(* posts and failures are history: POSTs that reached the client, and      *)
(* attempts that failed.                                                   *)
TaskState ==
  [ step     : { "post", "backoff", "ack", "over" },
    attempt  : 1..MaxTries,
    posts    : Nat,
    failures : 0..MaxTries,
    outcome  : { "none", "delivered", "gave_up", "unusable", "rejected",
                 "client_closed" } ]

Deliveries(c) == DOMAIN tasks[c]

(* No attempt beyond MaxTries, no step or outcome the worker does not know,*)
(* and a message that has left the queue has been delivered.               *)
TypeOK ==
  /\ process \in { "up", "client_closed", "down" }
  /\ message \in [Callbacks -> { "queued", "taken", "acked", "done" }]
  /\ tasks \in [Callbacks -> Seq(TaskState)]
  /\ \A c \in Callbacks : message[c] # "queued" => tasks[c] # << >>
  /\ exits \in 0..MaxExits
  /\ drops \in 0..MaxDrops

Init ==
  /\ process = "up"
  /\ message = [c \in Callbacks |-> "queued"]
  /\ tasks = [c \in Callbacks |-> << >>]
  /\ exits = 0
  /\ drops = 0

(* What the server counts against the prefetch.                            *)
Unacknowledged == { c \in Callbacks : message[c] \in { "taken", "acked" } }

Conclude(task, why) == [task EXCEPT !.step = "ack", !.outcome = why]

Becomes(c, n, task) == tasks' = [tasks EXCEPT ![c] = [@ EXCEPT ![n] = task]]

(* A URL that is neither absolute nor local is not posted to at all.  One  *)
(* that the prefix test lets through and httpx cannot parse, like a port   *)
(* that is no number, raises InvalidURL before the client is even asked:   *)
(* that is not an httpx.RequestError, so the outer handler logs it and     *)
(* nothing is retried.  The consumer stays active while the HTTP client is *)
(* closed.                                                                 *)
NewTask(c) ==
  LET start == [ step |-> "post", attempt |-> 1, posts |-> 0, failures |-> 0,
                 outcome |-> "none" ]
  IN  CASE c \in Relative -> Conclude(start, "unusable")
        [] c \in Malformed -> Conclude(start, "rejected")
        [] c \in Usable /\ process = "up" -> start
        [] OTHER -> Conclude(start, "client_closed")

ProcessCallback(c) ==
  /\ process # "down"
  /\ message[c] = "queued"
  /\ Cardinality(Unacknowledged) < PrefetchCount
  /\ message' = [message EXCEPT ![c] = "taken"]
  /\ tasks' = [tasks EXCEPT ![c] = Append(@, NewTask(c))]
  /\ UNCHANGED << process, exits, drops >>

PostSucceeds(c, n) ==
  LET task == tasks[c][n] IN
  /\ process = "up"
  /\ task.step = "post"
  /\ Becomes(c, n, Conclude([task EXCEPT !.posts = @ + 1], "delivered"))
  /\ UNCHANGED << process, message, exits, drops >>

(* Mutants: one attempt too many, and one too few.                         *)
RetryOnceMore(task) == task.attempt <= MaxTries
RetryOnceLess(task) == task.attempt + 1 < MaxTries

Retry(task) == task.attempt < MaxTries

(* An httpx error: a refused connection or an error status, a timeout      *)
(* after the client has received the POST, or the HTTP client closed under *)
(* the request.  Retried, or given up.                                     *)
PostFails(c, n) ==
  LET task == tasks[c][n] IN
  /\ process # "down"
  /\ task.step = "post"
  /\ \E received \in {0, 1} :
       LET failed == [task EXCEPT !.posts = @ + received, !.failures = @ + 1]
       IN  Becomes(c, n, IF Retry(task) THEN [failed EXCEPT !.step = "backoff"]
                                        ELSE Conclude(failed, "gave_up"))
  /\ UNCHANGED << process, message, exits, drops >>

BackoffEnds(c, n) ==
  LET task == tasks[c][n] IN
  /\ process = "up"
  /\ task.step = "backoff"
  /\ Becomes(c, n, [task EXCEPT !.step = "post", !.attempt = @ + 1])
  /\ UNCHANGED << process, message, exits, drops >>

(* A new post on a closed client raises a RuntimeError, which is not an    *)
(* httpx error: no retry, logged by the outer handler, and the message is  *)
(* acknowledged.                                                           *)
PostOnClosedClient(c, n) ==
  LET task == tasks[c][n] IN
  /\ process = "client_closed"
  /\ task.step = "backoff"
  /\ Becomes(c, n, Conclude(task, "client_closed"))
  /\ UNCHANGED << process, message, exits, drops >>

(* The channel a delivery came on still is the consumer's.                 *)
Current(c, n) == n = Len(tasks[c]) /\ message[c] = "taken"

Ends(c, n) ==
  /\ Becomes(c, n, [tasks[c][n] EXCEPT !.step = "over"])
  /\ IF Current(c, n)
       THEN message' = [message EXCEPT ![c] = "acked"]
       ELSE UNCHANGED message
  /\ UNCHANGED << process, exits, drops >>

(* Mutant: the message is acknowledged while its task still posts.         *)
AckEarly(c, n) == tasks[c][n].step \in { "post", "ack" } /\ Ends(c, n)

(* Mutant: an early return of the handler skips the acknowledgement.       *)
AckUnlessReturned(c, n) ==
  /\ tasks[c][n].step = "ack"
  /\ tasks[c][n].outcome # "unusable"
  /\ Ends(c, n)

(* On the channel the delivery came on.  When that is closed the           *)
(* acknowledgement raises in a task nobody awaits.                         *)
Ack(c, n) == tasks[c][n].step = "ack" /\ Ends(c, n)

AckArrives(c) ==
  /\ process # "down"
  /\ message[c] = "acked"
  /\ message' = [message EXCEPT ![c] = "done"]
  /\ UNCHANGED << process, tasks, exits, drops >>

(* The server gives back what is not acknowledged.                         *)
GiveBack(unacknowledged) ==
  message' = [c \in Callbacks |->
                IF message[c] \in unacknowledged THEN "queued" ELSE message[c]]

(* Only the server's side of the deliveries ends.                          *)
DropConnection ==
  /\ process # "down"
  /\ drops < MaxDrops
  /\ drops' = drops + 1
  /\ GiveBack({ "taken", "acked" })
  /\ UNCHANGED << process, tasks, exits >>

CloseClient ==
  /\ process = "up"
  /\ exits < MaxExits
  /\ exits' = exits + 1
  /\ process' = "client_closed"
  /\ UNCHANGED << message, tasks, drops >>

ProcessEnds ==
  /\ process' = "down"
  /\ tasks' = [c \in Callbacks |->
                 [n \in Deliveries(c) |-> [tasks[c][n] EXCEPT !.step = "over"]]]

(* A connection that is closed in order has sent its acknowledgements.     *)
CloseConnection ==
  /\ process = "client_closed"
  /\ ProcessEnds
  /\ message' = [c \in Callbacks |-> CASE message[c] = "taken" -> "queued"
                                       [] message[c] = "acked" -> "done"
                                       [] OTHER -> message[c]]
  /\ UNCHANGED << exits, drops >>

Crash ==
  /\ process # "down"
  /\ exits < MaxExits
  /\ exits' = exits + 1
  /\ ProcessEnds
  /\ GiveBack({ "taken", "acked" })
  /\ UNCHANGED drops

Restart ==
  /\ process = "down"
  /\ process' = "up"
  /\ UNCHANGED << message, tasks, exits, drops >>

RunTask(c, n) ==
  \/ PostSucceeds(c, n) \/ PostFails(c, n) \/ BackoffEnds(c, n)
  \/ PostOnClosedClient(c, n) \/ Ack(c, n)

Handle(c) ==
  \/ ProcessCallback(c)
  \/ AckArrives(c)
  \/ \E n \in Deliveries(c) : RunTask(c, n)

Next ==
  \/ \E c \in Callbacks : Handle(c)
  \/ DropConnection \/ CloseClient \/ CloseConnection \/ Crash \/ Restart

Spec == Init /\ [][Next]_vars

(* A task is carried on by the event loop and a service is restarted; no   *)
(* post has to succeed, and no exit has to happen.                         *)
FairSpec ==
  /\ Spec
  /\ \A c \in Callbacks : WF_vars(Handle(c))
  /\ WF_vars(CloseConnection)
  /\ WF_vars(Restart)

(*------------------------------ properties -----------------------------*)

(* A message is given up only after MaxTries failed attempts of one        *)
(* delivery, and reported delivered only if the client received it in that *)
(* delivery: none inherits the attempts of another, whichever runs beside. *)
OutcomeIsEarned ==
  \A c \in Callbacks : \A n \in Deliveries(c) :
    LET task == tasks[c][n] IN
    /\ task.outcome = "gave_up" => task.failures = MaxTries
    /\ task.outcome = "delivered" => task.posts > 0 /\ task.failures < MaxTries

(* The server forgets a message only when its last delivery is over (an    *)
(* acknowledgement of an earlier delivery does not count), and one with a  *)
(* usable URL, if no POST was received, only after MaxTries failures or    *)
(* because the HTTP client had been closed under it.  One with another URL *)
(* is forgotten untried: that is not known before it is to be delivered.   *)
NothingDroppedSilently ==
  \A c \in Callbacks :
    message[c] \in { "acked", "done" } =>
      LET last == tasks[c][Len(tasks[c])] IN
      /\ last.step = "over"
      /\ \/ last.posts > 0
         \/ last.outcome \in { "gave_up", "client_closed" }
         \/ c \notin Usable

(* A client sees each callback at most MaxTries times per delivery, and    *)
(* there is at most one delivery more than there were exits of the worker  *)
(* and lost connections.                                                   *)
BoundedPosts ==
  \A c \in Callbacks :
    /\ Len(tasks[c]) <= exits + drops + 1
    /\ \A n \in Deliveries(c) : tasks[c][n].posts <= MaxTries

(* Every message is finished with in the end: it does not retry forever,   *)
(* nor occupy a prefetch slot forever, however its acknowledgements fail.  *)
EveryCallbackFinishes == \A c \in Callbacks : <>(message[c] = "done")
===============================================================================
