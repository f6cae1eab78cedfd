---------------------------- MODULE MCYaceReplicas ----------------------------
(* YaceReplicas on the small instances of MCYaceHandler.                   *)
EXTENDS YaceReplicas, MCYaceHandler

VARIABLE edited   \* has a spec been edited? (history)

HeldBy(itsJob) == IF itsJob = NoJob THEN {} ELSE {itsJob.tagemon.status.id}

AnyIds == UsedIds \cup Second!UsedIds \cup HeldBy(job) \cup HeldBy(job2)

(* A Tagemon is edited while calls fail, or deleted and created anew, not  *)
(* both in one behavior.                                                   *)
OneTrouble == spent'.creations > 1 => ~edited' /\ spent'.faults = 0

AlikeSpec ==
  /\ edited = FALSE
  /\ ReplicasInit
  /\ [][/\ ReplicasNext
        /\ edited' = (edited \/ \E t \in Tagemons : EditSpec(t))
        /\ OneTrouble
        /\ FirstCreatedWith(Edit(q1, 300, small))
        /\ TakesFirstId(job, job', AnyIds)
        /\ TakesFirstId(job2, job2', AnyIds)]_<<replicaVars, edited>>
  /\ ReplicasFairness
===============================================================================
