----------------------------- MODULE MCTaskSystem -----------------------------
(***************************************************************************)
(* Instances of TaskSystem for TLC.                                        *)
(***************************************************************************)
EXTENDS TaskSystem, TLC

CONSTANTS r1, r2, r3, w1, w2, t1, t2

WorkerSymmetry == Permutations({w1, w2})

RequestSymmetry == Permutations({r1, r2, r3})

(* A second disruption only where the requeue on exit has failed, which    *)
(* takes a stop and a failing publish.                                     *)
Scope ==
  disruptions <= 1 \/ \E r \in Requests : lost[r] = {"requeue_publish"}
===============================================================================
