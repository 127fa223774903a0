-------------------------- MODULE CallbackWorkerProofs --------------------------
(***************************************************************************)
(* Safety of the callback worker, for any number of callbacks, retries,    *)
(* exits and lost connections.  The inductive invariant ties the history   *)
(* of a delivery to the step its task is at (Sound), says that only the    *)
(* last delivery is ever acknowledged (MessageInv), and counts deliveries  *)
(* against exits and lost connections (BudgetInv).                         *)
(***************************************************************************)
EXTENDS CallbackWorker, TLAPS

Sound(c, task) ==
  /\ task.step = "post" => task.failures = task.attempt - 1
  /\ task.step = "backoff" => task.failures = task.attempt /\ task.attempt < MaxTries
  /\ task.step \in { "post", "backoff" } => task.outcome = "none"
  /\ task.step = "ack" => task.outcome # "none"
  /\ task.outcome = "unusable" => c \in Relative
  /\ task.outcome = "rejected" => c \in Malformed
  /\ task.outcome = "gave_up" => task.failures = MaxTries
  /\ task.outcome = "delivered" => task.posts > 0 /\ task.failures < MaxTries
  /\ task.outcome # "delivered" => task.posts <= task.failures
  /\ task.posts <= task.failures + 1

SoundInv == \A c \in Callbacks : \A n \in Deliveries(c) : Sound(c, tasks[c][n])

LastTask(c) == tasks[c][Len(tasks[c])]

MessageInv ==
  \A c \in Callbacks :
    message[c] \in { "acked", "done" } =>
      LastTask(c).step = "over" /\ LastTask(c).outcome # "none"

(* The exits that are over; a SIGTERM is not before its disconnect.        *)
Ended == IF process = "client_closed" THEN exits - 1 ELSE exits

Out(c) == IF message[c] = "queued" THEN 0 ELSE 1

BudgetInv ==
  /\ process = "client_closed" => exits > 0
  /\ \A c \in Callbacks : Len(tasks[c]) <= Ended + drops + Out(c)

IInv == TypeOK /\ SoundInv /\ MessageInv /\ BudgetInv

LEMMA InvInit == Init => IInv
<1> SUFFICES ASSUME Init PROVE IInv
  OBVIOUS
<1> USE CallbackAssumption
<1>1. tasks \in [Callbacks -> Seq(TaskState)]
  <2> HIDE DEF TaskState
  <2> QED
    BY DEF Init
<1>2. TypeOK
  BY <1>1 DEF Init, TypeOK
<1>3. SoundInv /\ MessageInv
  BY DEF Init, SoundInv, MessageInv, Deliveries
<1>4. BudgetInv
  BY DEF Init, BudgetInv, Ended, Out
<1> QED
  BY <1>2, <1>3, <1>4 DEF IInv

(* The tasks of a message, as TypeOK says.                                 *)
LEMMA TaskTypes ==
  ASSUME TypeOK, NEW c \in Callbacks
  PROVE  /\ tasks[c] \in Seq(TaskState) /\ Len(tasks[c]) \in Nat
         /\ Deliveries(c) = 1..Len(tasks[c])
         /\ \A n \in Deliveries(c) : tasks[c][n] \in TaskState
<1>1. tasks[c] \in Seq(TaskState)
  BY DEF TypeOK
<1> HIDE DEF TaskState
<1> QED
  BY <1>1 DEF Deliveries

(* One task of one message moves, the others stay.                         *)
LEMMA OneTaskMoves ==
  ASSUME TypeOK, NEW c \in Callbacks, NEW n \in Deliveries(c),
         NEW task \in TaskState, Becomes(c, n, task)
  PROVE  /\ tasks' \in [Callbacks -> Seq(TaskState)]
         /\ tasks'[c][n] = task
         /\ \A d \in Callbacks :
              /\ Deliveries(d)' = Deliveries(d)
              /\ Len(tasks'[d]) = Len(tasks[d])
              /\ \A m \in Deliveries(d) :
                   d # c \/ m # n => tasks'[d][m] = tasks[d][m]
<1>1. tasks[c] \in Seq(TaskState) /\ Deliveries(c) = 1..Len(tasks[c])
  BY TaskTypes
<1> DEFINE moved == [tasks[c] EXCEPT ![n] = task]
<1>2. tasks' = [tasks EXCEPT ![c] = moved] /\ tasks \in [Callbacks -> Seq(TaskState)]
  BY DEF Becomes, TypeOK
<1>3. /\ moved \in Seq(TaskState) /\ Len(moved) = Len(tasks[c])
      /\ DOMAIN moved = DOMAIN tasks[c] /\ moved[n] = task
      /\ \A m \in DOMAIN tasks[c] : m # n => moved[m] = tasks[c][m]
  <2> HIDE DEF TaskState
  <2> QED
    BY <1>1
<1> QED
  <2> HIDE DEF TaskState, moved
  <2> QED
    BY <1>1, <1>2, <1>3 DEF Deliveries

(* A concluded task keeps its history.                                     *)
LEMMA Concluded ==
  ASSUME NEW task \in TaskState,
         NEW why \in { "delivered", "gave_up", "unusable", "rejected",
                      "client_closed" }
  PROVE  /\ Conclude(task, why) \in TaskState
         /\ Conclude(task, why).step = "ack"
         /\ Conclude(task, why).outcome = why
         /\ Conclude(task, why).posts = task.posts
         /\ Conclude(task, why).failures = task.failures
  BY DEF Conclude, TaskState

(* The other changes of a task's fields.                                   *)
LEMMA Received ==
  ASSUME NEW task \in TaskState, NEW p \in Nat
  PROVE  /\ [task EXCEPT !.posts = p] \in TaskState
         /\ [task EXCEPT !.posts = p].posts = p
         /\ [task EXCEPT !.posts = p].failures = task.failures
  BY DEF TaskState

LEMMA Resumed ==
  ASSUME NEW task \in TaskState, NEW k \in 1..MaxTries
  PROVE  /\ [task EXCEPT !.step = "post", !.attempt = k] \in TaskState
         /\ [task EXCEPT !.step = "post", !.attempt = k].step = "post"
         /\ [task EXCEPT !.step = "post", !.attempt = k].attempt = k
         /\ [task EXCEPT !.step = "post", !.attempt = k].posts = task.posts
         /\ [task EXCEPT !.step = "post", !.attempt = k].failures = task.failures
         /\ [task EXCEPT !.step = "post", !.attempt = k].outcome = task.outcome
  BY DEF TaskState

(* A step of a running task: it stays sound, and if it ends the message is *)
(* acknowledged at most when the task is that of the last delivery.        *)
LEMMA TaskStep ==
  ASSUME IInv, NEW c \in Callbacks, NEW n \in Deliveries(c), RunTask(c, n)
  PROVE  \E task \in TaskState :
           /\ Becomes(c, n, task) /\ Sound(c, task)
           /\ tasks[c][n].step # "over"
           /\ \/ UNCHANGED message
              \/ /\ message' = [message EXCEPT ![c] = "acked"]
                 /\ message[c] = "taken" /\ n = Len(tasks[c])
                 /\ task.step = "over" /\ task.outcome # "none"
<1> USE CallbackAssumption
<1> DEFINE task == tasks[c][n]
<1>1. task \in TaskState /\ Sound(c, task)
  BY TaskTypes DEF IInv, SoundInv
<1>2. CASE PostSucceeds(c, n)
  <2> DEFINE received == [task EXCEPT !.posts = @ + 1]
             next == Conclude(received, "delivered")
  <2>1. next \in TaskState /\ Sound(c, next)
    <3>2. /\ task.attempt \in 1..MaxTries /\ task.posts \in Nat
          /\ task.failures \in 0..MaxTries /\ task.failures = task.attempt - 1
          /\ task.posts <= task.failures
      BY <1>1, <1>2 DEF PostSucceeds, TaskState, Sound
    <3>1. /\ received \in TaskState
          /\ received.posts = task.posts + 1 /\ received.failures = task.failures
      <4>1. task.posts + 1 \in Nat
        BY <3>2
      <4> QED
        BY <1>1, <4>1, Received
    <3> HIDE DEF received
    <3>3. /\ next \in TaskState /\ next.step = "ack" /\ next.outcome = "delivered"
          /\ next.posts = task.posts + 1 /\ next.failures = task.failures
      BY <3>1, Concluded
    <3> QED
      BY <3>2, <3>3 DEF Sound
  <2>2. Becomes(c, n, next) /\ task.step = "post" /\ UNCHANGED message
    BY <1>2 DEF PostSucceeds
  <2> HIDE DEF next
  <2> QED
    BY <2>1, <2>2
<1>3. CASE PostFails(c, n)
  <2>1. PICK received \in {0, 1} :
          LET failed == [task EXCEPT !.posts = @ + received, !.failures = @ + 1]
          IN  Becomes(c, n, IF Retry(task) THEN [failed EXCEPT !.step = "backoff"]
                                           ELSE Conclude(failed, "gave_up"))
    BY <1>3 DEF PostFails
  <2> DEFINE p == task.posts + received
             f == task.failures + 1
             failed == [task EXCEPT !.posts = p, !.failures = f]
             next == IF Retry(task) THEN [failed EXCEPT !.step = "backoff"]
                                    ELSE Conclude(failed, "gave_up")
  <2>2. task.step = "post" /\ UNCHANGED message
    BY <1>3 DEF PostFails
  <2>3. next \in TaskState /\ Sound(c, next)
    <3>1. /\ task.attempt \in 1..MaxTries /\ task.posts \in Nat
          /\ task.failures \in 0..MaxTries /\ task.failures = task.attempt - 1
          /\ task.posts <= task.failures /\ task.outcome = "none"
      BY <1>1, <2>2 DEF TaskState, Sound
    <3>2. /\ failed \in TaskState /\ failed.attempt = task.attempt
          /\ failed.posts = p /\ failed.failures = f /\ failed.outcome = "none"
      <4>1. p \in Nat /\ f \in 0..MaxTries
        BY <3>1
      <4>2. task \in TaskState
        BY <1>1
      <4>3. /\ failed \in TaskState /\ failed.attempt = task.attempt
            /\ failed.posts = p /\ failed.failures = f
            /\ failed.outcome = task.outcome
        <5> HIDE DEF task, p, f
        <5> QED
          BY <4>1, <4>2 DEF TaskState
      <4> QED
        BY <3>1, <4>3
    <3> HIDE DEF failed
    <3>3. CASE Retry(task)
      <4>1. /\ next \in TaskState /\ next.step = "backoff"
            /\ next.attempt = failed.attempt /\ next.posts = failed.posts
            /\ next.failures = failed.failures /\ next.outcome = "none"
        BY <3>2, <3>3 DEF TaskState
      <4> QED
        BY <3>1, <3>2, <3>3, <4>1 DEF Sound, Retry
    <3>4. CASE ~ Retry(task)
      <4>1. /\ next \in TaskState /\ next.step = "ack" /\ next.outcome = "gave_up"
            /\ next.posts = failed.posts /\ next.failures = failed.failures
        BY <3>2, <3>4, Concluded
      <4> QED
        BY <3>1, <3>2, <3>4, <4>1 DEF Sound, Retry
    <3> QED
      BY <3>3, <3>4
  <2>4. Becomes(c, n, next)
    BY <2>1
  <2> HIDE DEF next
  <2> QED
    BY <2>2, <2>3, <2>4
<1>4. CASE BackoffEnds(c, n)
  <2> DEFINE next == [task EXCEPT !.step = "post", !.attempt = @ + 1]
  <2>1. next \in TaskState /\ Sound(c, next)
    <3>1. /\ task.failures = task.attempt /\ task.attempt \in Nat
          /\ task.attempt + 1 \in 1..MaxTries
          /\ task.outcome = "none" /\ task.posts <= task.failures
          /\ task.posts \in Nat
      BY <1>1, <1>4 DEF BackoffEnds, TaskState, Sound
    <3>2. /\ next \in TaskState /\ next.step = "post"
          /\ next.attempt = task.attempt + 1 /\ next.posts = task.posts
          /\ next.failures = task.failures /\ next.outcome = "none"
      BY ZenonT(60), <1>1, <3>1, Resumed
    <3> HIDE DEF next
    <3> QED
      BY <3>1, <3>2 DEF Sound
  <2>2. Becomes(c, n, next) /\ task.step = "backoff" /\ UNCHANGED message
    BY <1>4 DEF BackoffEnds
  <2> HIDE DEF next
  <2> QED
    BY <2>1, <2>2
<1>5. CASE PostOnClosedClient(c, n)
  <2> DEFINE next == Conclude(task, "client_closed")
  <2>1. next \in TaskState /\ Sound(c, next)
    BY <1>1, <1>5 DEF PostOnClosedClient, Conclude, TaskState, Sound
  <2>2. Becomes(c, n, next) /\ task.step = "backoff" /\ UNCHANGED message
    BY <1>5 DEF PostOnClosedClient
  <2> HIDE DEF next
  <2> QED
    BY <2>1, <2>2
<1>6. CASE Ack(c, n)
  <2> DEFINE next == [task EXCEPT !.step = "over"]
  <2>1. next \in TaskState /\ Sound(c, next)
        /\ next.step = "over" /\ next.outcome # "none"
    BY <1>1, <1>6 DEF Ack, TaskState, Sound
  <2>2. task.step # "over" /\ Becomes(c, n, next)
    BY <1>6 DEF Ack, Ends
  <2>3. \/ UNCHANGED message
        \/ /\ message' = [message EXCEPT ![c] = "acked"]
           /\ message[c] = "taken" /\ n = Len(tasks[c])
    BY <1>6 DEF Ack, Ends, Current
  <2> QED
    BY <2>1, <2>2, <2>3
<1> QED
  BY <1>2, <1>3, <1>4, <1>5, <1>6 DEF RunTask

LEMMA RunTaskInv ==
  ASSUME IInv, NEW c \in Callbacks, NEW n \in Deliveries(c), RunTask(c, n)
  PROVE  IInv'
<1> USE CallbackAssumption DEF IInv
<1>1. UNCHANGED << process, exits, drops >> /\ Ended' = Ended
  BY DEF RunTask, PostSucceeds, PostFails, BackoffEnds, PostOnClosedClient, Ack,
         Ends, Ended
<1>2. PICK task \in TaskState :
        /\ Becomes(c, n, task) /\ Sound(c, task)
        /\ tasks[c][n].step # "over"
        /\ \/ UNCHANGED message
           \/ /\ message' = [message EXCEPT ![c] = "acked"]
              /\ message[c] = "taken" /\ n = Len(tasks[c])
              /\ task.step = "over" /\ task.outcome # "none"
  BY TaskStep
<1>3. /\ tasks' \in [Callbacks -> Seq(TaskState)]
      /\ tasks'[c][n] = task
      /\ \A d \in Callbacks :
           /\ Deliveries(d)' = Deliveries(d)
           /\ Len(tasks'[d]) = Len(tasks[d])
           /\ \A m \in Deliveries(d) :
                d # c \/ m # n => tasks'[d][m] = tasks[d][m]
  BY <1>2, OneTaskMoves
<1>4. message \in [Callbacks -> { "queued", "taken", "acked", "done" }]
      /\ \A d \in Callbacks : Len(tasks[d]) \in Nat
                                /\ Deliveries(d) = 1..Len(tasks[d])
  BY TaskTypes DEF TypeOK
<1>5. /\ message' \in [Callbacks -> { "queued", "taken", "acked", "done" }]
      /\ \A d \in Callbacks : Out(d)' = Out(d)
  BY <1>2, <1>4 DEF Out
<1>6. TypeOK'
  <2>1. \A d \in Callbacks : message'[d] # "queued" => tasks'[d] # << >>
    <3> SUFFICES ASSUME NEW d \in Callbacks, message'[d] # "queued"
                 PROVE  tasks'[d] # << >>
      OBVIOUS
    <3>1. message[d] # "queued"
      BY <1>5 DEF Out
    <3>2. tasks[d] # << >> /\ tasks[d] \in Seq(TaskState)
      BY <3>1 DEF TypeOK
    <3>3. Len(tasks[d]) # 0
      <4> HIDE DEF TaskState
      <4> QED
        BY <3>2
    <3> QED
      BY <1>3, <3>3
  <2> QED
    BY <1>1, <1>3, <1>5, <2>1 DEF TypeOK
<1>7. SoundInv'
  BY <1>2, <1>3 DEF SoundInv
<1>8. MessageInv'
  <2> SUFFICES ASSUME NEW d \in Callbacks, message'[d] \in { "acked", "done" }
               PROVE  LastTask(d)'.step = "over" /\ LastTask(d)'.outcome # "none"
    BY DEF MessageInv
  <2>1. CASE d = c /\ n = Len(tasks[c])
    <3>1. message[d] = message'[d] => LastTask(d).step = "over"
      BY DEF MessageInv
    <3> QED
      BY <1>2, <1>3, <1>4, <2>1, <3>1 DEF LastTask
  <2>2. CASE ~ (d = c /\ n = Len(tasks[c]))
    <3>1. message'[d] = message[d]
      BY <1>2, <1>4, <2>2
    <3>2. Len(tasks[d]) \in Deliveries(d)
      <4>1. tasks[d] \in Seq(TaskState) /\ tasks[d] # << >>
        BY <3>1 DEF TypeOK
      <4> HIDE DEF TaskState
      <4> QED
        BY <1>4, <4>1
    <3>3. LastTask(d)' = LastTask(d)
      BY <1>3, <2>2, <3>2 DEF LastTask
    <3> QED
      BY <3>1, <3>3 DEF MessageInv
  <2> QED
    BY <2>1, <2>2
<1>9. BudgetInv'
  BY <1>1, <1>3, <1>5 DEF BudgetInv
<1> QED
  BY <1>6, <1>7, <1>8, <1>9

LEMMA ProcessCallbackInv ==
  ASSUME IInv, NEW c \in Callbacks, ProcessCallback(c)
  PROVE  IInv'
<1> USE CallbackAssumption DEF IInv
<1>1. /\ UNCHANGED << process, exits, drops >> /\ Ended' = Ended
      /\ process \in { "up", "client_closed" } /\ message[c] = "queued"
      /\ message' = [message EXCEPT ![c] = "taken"]
  BY DEF ProcessCallback, Ended, TypeOK
<1>2. NewTask(c) \in TaskState /\ Sound(c, NewTask(c)) /\ NewTask(c).step # "over"
  <2> DEFINE start == [ step |-> "post", attempt |-> 1, posts |-> 0,
                        failures |-> 0, outcome |-> "none" ]
  <2>1. \/ NewTask(c) = start
        \/ c \in Relative /\ NewTask(c) = Conclude(start, "unusable")
        \/ c \in Malformed /\ NewTask(c) = Conclude(start, "rejected")
        \/ NewTask(c) = Conclude(start, "client_closed")
    BY <1>1 DEF NewTask, Usable
  <2>2. start \in TaskState /\ Sound(c, start) /\ start.step # "over"
    BY DEF TaskState, Sound
  <2>3. ASSUME NEW why \in { "unusable", "rejected", "client_closed" },
               why = "unusable" => c \in Relative,
               why = "rejected" => c \in Malformed
        PROVE  /\ Conclude(start, why) \in TaskState
               /\ Conclude(start, why).step # "over"
               /\ Sound(c, Conclude(start, why))
    <3>1. /\ Conclude(start, why) \in TaskState
          /\ Conclude(start, why).step = "ack" /\ Conclude(start, why).outcome = why
          /\ Conclude(start, why).posts = 0 /\ Conclude(start, why).failures = 0
      BY <2>2, Concluded
    <3> QED
      BY <2>3, <3>1 DEF Sound
  <2> HIDE DEF start
  <2> QED
    BY <2>1, <2>2, <2>3
<1>3. /\ tasks' \in [Callbacks -> Seq(TaskState)]
      /\ tasks'[c] # << >>
      /\ Len(tasks'[c]) = Len(tasks[c]) + 1
      /\ Deliveries(c)' = Deliveries(c) \cup {Len(tasks'[c])}
      /\ tasks'[c][Len(tasks'[c])] = NewTask(c)
      /\ \A n \in Deliveries(c) : tasks'[c][n] = tasks[c][n]
      /\ \A d \in Callbacks \ {c} : tasks'[d] = tasks[d]
  <2>1. tasks \in [Callbacks -> Seq(TaskState)]
        /\ tasks' = [tasks EXCEPT ![c] = Append(tasks[c], NewTask(c))]
    BY DEF ProcessCallback, TypeOK
  <2>2. tasks[c] \in Seq(TaskState) /\ Deliveries(c) = 1..Len(tasks[c])
    BY TaskTypes
  <2> HIDE DEF TaskState
  <2>3. /\ Append(tasks[c], NewTask(c)) \in Seq(TaskState)
        /\ Len(Append(tasks[c], NewTask(c))) = Len(tasks[c]) + 1
        /\ Append(tasks[c], NewTask(c)) # << >>
        /\ DOMAIN Append(tasks[c], NewTask(c)) = 1..(Len(tasks[c]) + 1)
        /\ Append(tasks[c], NewTask(c))[Len(tasks[c]) + 1] = NewTask(c)
        /\ \A n \in 1..Len(tasks[c]) : Append(tasks[c], NewTask(c))[n] = tasks[c][n]
        /\ Len(tasks[c]) \in Nat
    BY <1>2, <2>2
  <2> QED
    BY <2>1, <2>2, <2>3 DEF Deliveries
<1>4. /\ message \in [Callbacks -> { "queued", "taken", "acked", "done" }]
      /\ \A d \in Callbacks : Len(tasks[d]) \in Nat
                                /\ Deliveries(d) = 1..Len(tasks[d])
      /\ drops \in Nat /\ exits \in Nat /\ Ended \in Nat
  BY TaskTypes DEF TypeOK, Ended, BudgetInv
<1>5. TypeOK'
  <2>1. \A d \in Callbacks : message'[d] # "queued" => tasks'[d] # << >>
    BY <1>1, <1>3, <1>4 DEF TypeOK
  <2>2. message' \in [Callbacks -> { "queued", "taken", "acked", "done" }]
    BY <1>1, <1>4
  <2> QED
    BY <1>1, <1>3, <2>1, <2>2 DEF TypeOK
<1>6. \A d \in Callbacks \ {c} :
        /\ Deliveries(d)' = Deliveries(d) /\ Out(d)' = Out(d)
        /\ LastTask(d)' = LastTask(d) /\ message'[d] = message[d]
  BY <1>1, <1>3, <1>4 DEF Deliveries, Out, LastTask
<1>7. SoundInv'
  BY <1>2, <1>3, <1>6 DEF SoundInv
<1>8. MessageInv'
  BY <1>1, <1>4, <1>6 DEF MessageInv
<1>9. Out(c) = 0 /\ Out(c)' = 1
  BY <1>1, <1>4 DEF Out
<1>10. BudgetInv'
  <2>1. Len(tasks'[c]) <= (Ended + drops + Out(c))'
    <3>1. Len(tasks[c]) <= Ended + drops + Out(c)
      BY DEF BudgetInv
    <3> QED
      BY <1>1, <1>3, <1>4, <1>9, <3>1
  <2> QED
    BY <1>1, <1>3, <1>6, <2>1 DEF BudgetInv
<1> QED
  BY <1>5, <1>7, <1>8, <1>10

(* The message is not touched by the worker, the tasks are not by the rest.*)
LEMMA ServerInv ==
  ASSUME IInv, UNCHANGED << process, tasks, exits >>,
         drops' \in 0..MaxDrops, drops' >= drops,
         message' \in [Callbacks -> { "queued", "taken", "acked", "done" }],
         \A c \in Callbacks :
           \/ message'[c] = "queued"
                /\ (drops' > drops \/ message[c] = "queued")
           \/ message[c] # "queued" /\ message'[c] # "queued"
                /\ (message'[c] \in { "acked", "done" } =>
                      message[c] \in { "acked", "done" })
  PROVE  IInv'
<1> USE CallbackAssumption DEF IInv
<1>1. /\ Ended' = Ended /\ Ended \in Nat /\ drops \in Nat /\ drops' \in Nat
      /\ \A c \in Callbacks :
           /\ Len(tasks[c]) \in Nat /\ Deliveries(c)' = Deliveries(c)
           /\ Deliveries(c) = 1..Len(tasks[c])
           /\ LastTask(c)' = LastTask(c)
           /\ Out(c) \in Nat /\ Out(c)' \in Nat
           /\ Out(c) + drops <= Out(c)' + drops' /\ Out(c)' <= 1
  <2>1. /\ Ended' = Ended /\ Ended \in Nat /\ drops \in Nat /\ drops' \in Nat
    BY DEF TypeOK, Ended, BudgetInv
  <2>2. \A c \in Callbacks :
          /\ Out(c) \in Nat /\ Out(c)' \in Nat
          /\ Out(c) + drops <= Out(c)' + drops' /\ Out(c)' <= 1
    <3> SUFFICES ASSUME NEW c \in Callbacks
                 PROVE  /\ Out(c) \in Nat /\ Out(c)' \in Nat
                        /\ Out(c) + drops <= Out(c)' + drops' /\ Out(c)' <= 1
      OBVIOUS
    <3>1. Out(c) \in {0, 1} /\ Out(c)' \in {0, 1}
      BY DEF Out
    <3>2. Out(c) = 1 /\ Out(c)' = 0 =>
            message[c] # "queued" /\ message'[c] = "queued"
      BY DEF Out
    <3>3. Out(c) = 1 /\ Out(c)' = 0 => drops' > drops
      BY <3>2
    <3> QED
      BY <2>1, <3>1, <3>3
  <2> QED
    BY <2>1, <2>2, TaskTypes DEF Deliveries, LastTask
<1>2. TypeOK'
  BY DEF TypeOK
<1>3. SoundInv' /\ MessageInv'
  BY <1>1 DEF SoundInv, MessageInv
<1>4. BudgetInv'
  <2> SUFFICES ASSUME NEW c \in Callbacks
               PROVE  Len(tasks[c]) <= Ended + drops' + Out(c)'
    BY <1>1 DEF BudgetInv
  <2>1. Len(tasks[c]) <= Ended + drops + Out(c)
    BY DEF BudgetInv
  <2> QED
    BY SMTT(30), <1>1, <2>1
<1> QED
  BY <1>2, <1>3, <1>4

(* The process ends with its tasks; what the server has not had            *)
(* acknowledged is queued again, at the expense of the exit.               *)
LEMMA ProcessEndsInv ==
  ASSUME IInv, ProcessEnds, UNCHANGED drops,
         exits' \in 0..MaxExits, exits' >= Ended + 1,
         message' \in [Callbacks -> { "queued", "taken", "acked", "done" }],
         \A c \in Callbacks :
           \/ message'[c] = "queued"
           \/ message[c] \in { "acked", "done" }
  PROVE  IInv'
<1> USE CallbackAssumption DEF IInv
<1>1. \A c \in Callbacks :
        /\ tasks'[c] \in Seq(TaskState) /\ Len(tasks'[c]) = Len(tasks[c])
        /\ Deliveries(c)' = Deliveries(c)
        /\ \A n \in Deliveries(c) :
             tasks'[c][n] = [tasks[c][n] EXCEPT !.step = "over"]
  <2> SUFFICES ASSUME NEW c \in Callbacks
               PROVE  /\ tasks'[c] \in Seq(TaskState)
                      /\ Len(tasks'[c]) = Len(tasks[c])
                      /\ DOMAIN tasks'[c] = 1..Len(tasks[c])
                      /\ \A n \in Deliveries(c) :
                           tasks'[c][n] = [tasks[c][n] EXCEPT !.step = "over"]
    BY TaskTypes DEF Deliveries
  <2>1. /\ Deliveries(c) = 1..Len(tasks[c]) /\ Len(tasks[c]) \in Nat
        /\ \A n \in Deliveries(c) : tasks[c][n] \in TaskState
    BY TaskTypes
  <2>2. tasks'[c] = [n \in Deliveries(c) |-> [tasks[c][n] EXCEPT !.step = "over"]]
    BY DEF ProcessEnds
  <2>3. \A n \in Deliveries(c) : [tasks[c][n] EXCEPT !.step = "over"] \in TaskState
    BY <2>1 DEF TaskState
  <2>4. tasks'[c] \in [1..Len(tasks[c]) -> TaskState]
    <3> HIDE DEF TaskState
    <3> QED
      BY <2>1, <2>2, <2>3
  <2> HIDE DEF TaskState
  <2> QED
    BY <2>1, <2>2, <2>4
<1>2. \A c \in Callbacks : \A n \in Deliveries(c) :
        /\ tasks'[c][n].step = "over"
        /\ tasks'[c][n].failures = tasks[c][n].failures
        /\ tasks'[c][n].posts = tasks[c][n].posts
        /\ tasks'[c][n].outcome = tasks[c][n].outcome
  <2> SUFFICES ASSUME NEW c \in Callbacks, NEW n \in Deliveries(c)
               PROVE  /\ tasks'[c][n].step = "over"
                      /\ tasks'[c][n].failures = tasks[c][n].failures
                      /\ tasks'[c][n].posts = tasks[c][n].posts
                      /\ tasks'[c][n].outcome = tasks[c][n].outcome
    OBVIOUS
  <2>1. tasks[c][n] \in TaskState
    BY TaskTypes
  <2> QED
    <3> DEFINE task == tasks[c][n]
    <3>1. task \in TaskState /\ tasks'[c][n] = [task EXCEPT !.step = "over"]
      BY <1>1, <2>1
    <3> HIDE DEF task
    <3>2. /\ tasks'[c][n].step = "over"
          /\ tasks'[c][n].failures = task.failures
          /\ tasks'[c][n].posts = task.posts
          /\ tasks'[c][n].outcome = task.outcome
      BY <3>1 DEF TaskState
    <3> QED
      BY <3>2 DEF task
<1>3. process' = "down" /\ tasks' = [c \in Callbacks |-> tasks'[c]]
  BY DEF ProcessEnds
<1>4. \A c \in Callbacks :
        Deliveries(c) = 1..Len(tasks[c]) /\ Len(tasks[c]) \in Nat
  BY TaskTypes
<1>5. \A c \in Callbacks :
        tasks[c] # << >> => Len(tasks[c]) \in Deliveries(c) /\ tasks'[c] # << >>
  <2> SUFFICES ASSUME NEW c \in Callbacks, tasks[c] # << >>
               PROVE  Len(tasks[c]) \in Deliveries(c) /\ tasks'[c] # << >>
    OBVIOUS
  <2>1. tasks[c] \in Seq(TaskState) /\ tasks'[c] \in Seq(TaskState)
    BY <1>1, TaskTypes
  <2> HIDE DEF TaskState
  <2>2. Len(tasks[c]) # 0
    BY <2>1
  <2> QED
    BY <1>1, <1>4, <2>1, <2>2
<1>6. TypeOK'
  <2>1. tasks' \in [Callbacks -> Seq(TaskState)]
    <3> HIDE DEF TaskState
    <3> QED
      BY <1>1, <1>3
  <2>2. \A c \in Callbacks : message'[c] # "queued" => tasks'[c] # << >>
    BY <1>5 DEF TypeOK
  <2> QED
    BY <1>3, <2>1, <2>2 DEF TypeOK
<1>7. SoundInv'
  <2> SUFFICES ASSUME NEW c \in Callbacks, NEW n \in Deliveries(c)
               PROVE  Sound(c, tasks'[c][n])
    BY <1>1 DEF SoundInv
  <2>1. Sound(c, tasks[c][n])
    BY DEF SoundInv
  <2> QED
    BY <1>2, <2>1 DEF Sound
<1>8. MessageInv'
  <2> SUFFICES ASSUME NEW c \in Callbacks, message'[c] \in { "acked", "done" }
               PROVE  LastTask(c)'.step = "over" /\ LastTask(c)'.outcome # "none"
    BY DEF MessageInv
  <2>1. message[c] \in { "acked", "done" }
    OBVIOUS
  <2>2. LastTask(c).outcome # "none" /\ tasks[c] # << >>
    BY <2>1 DEF MessageInv, TypeOK
  <2>3. LastTask(c)' = tasks'[c][Len(tasks[c])] /\ Len(tasks[c]) \in Deliveries(c)
    BY <1>1, <1>5, <2>2 DEF LastTask
  <2> QED
    BY <1>2, <2>2, <2>3 DEF LastTask
<1>9. BudgetInv'
  <2>1. Ended' = exits' /\ Ended \in Nat /\ exits' \in Nat /\ drops \in Nat
    BY <1>3 DEF Ended, TypeOK, BudgetInv
  <2> SUFFICES ASSUME NEW c \in Callbacks
               PROVE  Len(tasks'[c]) <= Ended' + drops + Out(c)'
    BY <1>3 DEF BudgetInv
  <2>2. Len(tasks[c]) <= Ended + drops + Out(c)
    BY DEF BudgetInv
  <2>3. Out(c) <= 1 /\ Out(c) \in Nat /\ Out(c)' \in Nat
    BY DEF Out
  <2> QED
    BY SMTT(30), <1>1, <1>4, <2>1, <2>2, <2>3
<1> QED
  BY <1>6, <1>7, <1>8, <1>9

LEMMA InvStep == IInv /\ [Next]_vars => IInv'
<1> SUFFICES ASSUME IInv, [Next]_vars PROVE IInv'
  OBVIOUS
<1> USE CallbackAssumption
<1>1. /\ process \in { "up", "client_closed", "down" } /\ exits \in 0..MaxExits
      /\ message \in [Callbacks -> { "queued", "taken", "acked", "done" }]
      /\ drops \in 0..MaxDrops /\ (process = "client_closed" => exits > 0)
  BY DEF IInv, TypeOK, BudgetInv
<1>2. ASSUME NEW c \in Callbacks, Handle(c) PROVE IInv'
  <2>1. CASE ProcessCallback(c)
    BY <2>1, ProcessCallbackInv
  <2>2. CASE AckArrives(c)
    BY <1>1, <2>2, ServerInv DEF AckArrives
  <2>3. CASE \E n \in Deliveries(c) : RunTask(c, n)
    BY <2>3, RunTaskInv
  <2> QED
    BY <1>2, <2>1, <2>2, <2>3 DEF Handle
<1>3. CASE DropConnection
  BY <1>1, <1>3, ServerInv DEF DropConnection, GiveBack
<1>4. CASE CloseClient
  <2>1. Ended' = Ended /\ exits' \in 0..MaxExits /\ exits' > 0
    BY <1>1, <1>4 DEF CloseClient, Ended
  <2>2. /\ UNCHANGED << message, tasks, drops >>
        /\ process' = "client_closed"
    BY <1>4 DEF CloseClient
  <2> QED
    BY <2>1, <2>2 DEF IInv, TypeOK, SoundInv, MessageInv, BudgetInv, Out,
       Deliveries, LastTask
<1>5. CASE CloseConnection
  <2>1. exits' \in 0..MaxExits /\ exits' >= Ended + 1
    BY <1>1, <1>5 DEF CloseConnection, Ended
  <2>2. message' \in [Callbacks -> { "queued", "taken", "acked", "done" }]
        /\ \A c \in Callbacks :
             message'[c] = "queued" \/ message[c] \in { "acked", "done" }
    BY <1>1, <1>5 DEF CloseConnection
  <2> QED
    BY <1>5, <2>1, <2>2, ProcessEndsInv DEF CloseConnection
<1>6. CASE Crash
  <2>1. exits' \in 0..MaxExits /\ exits' >= Ended + 1
    BY <1>1, <1>6 DEF Crash, Ended
  <2>2. message' \in [Callbacks -> { "queued", "taken", "acked", "done" }]
        /\ \A c \in Callbacks :
             message'[c] = "queued" \/ message[c] \in { "acked", "done" }
    BY <1>1, <1>6 DEF Crash, GiveBack
  <2> QED
    BY <1>6, <2>1, <2>2, ProcessEndsInv DEF Crash
<1>7. CASE Restart
  <2>1. Ended' = Ended
    BY <1>7 DEF Restart, Ended
  <2> QED
    BY <1>7, <2>1 DEF Restart, IInv, TypeOK, SoundInv, MessageInv, BudgetInv,
       Out, Deliveries, LastTask
<1>8. CASE UNCHANGED vars
  BY <1>8 DEF vars, IInv, TypeOK, SoundInv, MessageInv, BudgetInv, Out,
     Deliveries, LastTask, Ended
<1> QED
  BY <1>2, <1>3, <1>4, <1>5, <1>6, <1>7, <1>8 DEF Next

LEMMA InvCorrect == Spec => []IInv
  BY InvInit, InvStep, PTL DEF Spec

(* No task is at an attempt or a step it cannot be at, and a message that  *)
(* has left the queue has been delivered.                                  *)
THEOREM CallbackTypeCorrect == Spec => []TypeOK
  BY InvCorrect, PTL DEF IInv

(* A callback counts as given up only after MaxTries failed attempts of    *)
(* one delivery, and as delivered only if the client received it in that   *)
(* delivery, for every number of callbacks, retries, exits and drops.      *)
THEOREM OutcomesAreEarned == Spec => []OutcomeIsEarned
<1>1. IInv => OutcomeIsEarned
  BY DEF IInv, SoundInv, Sound, OutcomeIsEarned
<1> QED
  BY <1>1, InvCorrect, PTL

(* No callback with a usable URL is forgotten by the server without a      *)
(* received POST, used-up retries, or a HTTP client closed under it.       *)
THEOREM NoCallbackDroppedSilently == Spec => []NothingDroppedSilently
<1>1. IInv => NothingDroppedSilently
  <2> SUFFICES ASSUME IInv, NEW c \in Callbacks, message[c] \in { "acked", "done" }
               PROVE  /\ LastTask(c).step = "over"
                      /\ \/ LastTask(c).posts > 0
                         \/ LastTask(c).outcome \in { "gave_up", "client_closed" }
                         \/ c \notin Usable
    BY DEF NothingDroppedSilently, LastTask
  <2>1. tasks[c] \in Seq(TaskState) /\ tasks[c] # << >>
    BY DEF IInv, TypeOK
  <2>2. Len(tasks[c]) \in Deliveries(c)
    <3> HIDE DEF TaskState
    <3> QED
      BY <2>1 DEF Deliveries
  <2>3. LastTask(c) \in TaskState /\ Sound(c, LastTask(c))
    BY <2>2, TaskTypes DEF IInv, SoundInv, LastTask
  <2>4. LastTask(c).step = "over" /\ LastTask(c).outcome # "none"
    BY DEF IInv, MessageInv
  <2> QED
    BY <2>3, <2>4 DEF Sound, TaskState, Usable
<1> QED
  BY <1>1, InvCorrect, PTL

(* A client sees a callback at most MaxTries times per delivery, and there *)
(* is one delivery more at most than exits and lost connections.           *)
THEOREM PostsAreBounded == Spec => []BoundedPosts
<1>1. IInv => BoundedPosts
  <2> SUFFICES ASSUME IInv, NEW c \in Callbacks
               PROVE  /\ Len(tasks[c]) <= exits + drops + 1
                      /\ \A n \in Deliveries(c) : tasks[c][n].posts <= MaxTries
    BY DEF BoundedPosts
  <2> USE CallbackAssumption
  <2>1. Len(tasks[c]) <= exits + drops + 1
    <3>1. /\ Len(tasks[c]) \in Nat /\ exits \in Nat /\ drops \in Nat
          /\ Out(c) \in Nat /\ Out(c) <= 1 /\ Ended \in Nat /\ Ended <= exits
      BY TaskTypes DEF IInv, TypeOK, BudgetInv, Ended, Out
    <3>2. Len(tasks[c]) <= Ended + drops + Out(c)
      BY DEF IInv, BudgetInv
    <3> QED
      BY <3>1, <3>2
  <2>2. ASSUME NEW n \in Deliveries(c) PROVE tasks[c][n].posts <= MaxTries
    <3>1. tasks[c][n] \in TaskState /\ Sound(c, tasks[c][n])
      BY TaskTypes DEF IInv, SoundInv
    <3> QED
      BY <3>1 DEF Sound, TaskState
  <2> QED
    BY <2>1, <2>2
<1> QED
  BY <1>1, InvCorrect, PTL

===============================================================================
