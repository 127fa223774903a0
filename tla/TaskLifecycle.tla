---------------------------- MODULE TaskLifecycle ----------------------------
(***************************************************************************)
(* What the task service promises about one submitted task, whatever       *)
(* queues, processes and disruptions lie in between.  A request is         *)
(* published before anything else happens to it.  It may be answered more  *)
(* than once, with different texts.  Its row appears once, without a       *)
(* result, and from its first result on it shows the last one recorded.    *)
(* An answer that comes before the row is there misses it, and the row may *)
(* then wait for good.  A callback is issued only to those who asked for   *)
(* it, and says what the row says, or what the row has missed.             *)
(***************************************************************************)
EXTENDS Naturals

CONSTANTS Requests, Texts, NoText, WithCallback

VARIABLES
  published,   \* the requests handed to the request queue
  computed,    \* per request, the texts it has been answered with
  row,         \* per request, its status and the text it shows
  missed,      \* the requests with an answer that found no row
  notified     \* per request, the copies of its callback and their texts

vars == << published, computed, row, missed, notified >>

Absent == [status |-> "absent", result |-> NoText]
Waiting == [status |-> "waiting", result |-> NoText]
Ready(t) == [status |-> "ready", result |-> t]

Init ==
  /\ published = {}
  /\ computed = [r \in Requests |-> {}]
  /\ row = [r \in Requests |-> Absent]
  /\ missed = {}
  /\ notified = [r \in Requests |-> [copies |-> 0, texts |-> {}]]

Publish(r) ==
  /\ r \notin published
  /\ published' = published \cup {r}
  /\ UNCHANGED << computed, row, missed, notified >>

Insert(r) ==
  /\ r \in published
  /\ row[r] = Absent
  /\ row' = [row EXCEPT ![r] = Waiting]
  /\ UNCHANGED << published, computed, missed, notified >>

Compute(r, t) ==
  /\ r \in published
  /\ computed' = [computed EXCEPT ![r] = @ \cup {t}]
  /\ UNCHANGED << published, row, missed, notified >>

Complete(r, t) ==
  /\ t \in computed[r]
  /\ row[r] # Absent
  /\ row' = [row EXCEPT ![r] = Ready(t)]
  /\ UNCHANGED << published, computed, missed, notified >>

Miss(r) ==
  /\ computed[r] # {}
  /\ row[r] = Absent
  /\ missed' = missed \cup {r}
  /\ UNCHANGED << published, computed, row, notified >>

Notify(r, t) ==
  /\ r \in WithCallback
  /\ t \in computed[r]
  /\ row[r] = Ready(t) \/ r \in missed
  /\ notified' = [notified EXCEPT ![r] =
                    [copies |-> @.copies + 1, texts |-> @.texts \cup {t}]]
  /\ UNCHANGED << published, computed, row, missed >>

Next ==
  \E r \in Requests :
    \/ Publish(r) \/ Insert(r) \/ Miss(r)
    \/ \E t \in Texts : Compute(r, t) \/ Complete(r, t) \/ Notify(r, t)

Spec == Init /\ [][Next]_vars
==============================================================================
