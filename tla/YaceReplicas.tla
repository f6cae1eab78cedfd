----------------------------- MODULE YaceReplicas -----------------------------
(***************************************************************************)
(* Two controller processes side by side, as during a rollout or with two  *)
(* replicas: src/cmd/main.go leaves leader election off unless asked.      *)
(*                                                                         *)
(* Each process is a YaceHandler with a cache of Tagemons, a work queue    *)
(* and a handler of its own.  The versions of a Tagemon end, in both, in   *)
(* the one the API server stores; they differ in how far each cache has    *)
(* come.  ConfigMaps and Deployments are read as they are stored, so both  *)
(* share them.                                                             *)
(***************************************************************************)
EXTENDS YaceHandler

ASSUME ReadsAreCurrent == ~ReadsLag

VARIABLES tagemon2, workqueue2, job2

second == <<tagemon2, workqueue2, job2>>

replicaVars == <<vars, second>>

Second == INSTANCE YaceHandler
  WITH tagemon <- tagemon2, workqueue <- workqueue2, job <- job2

ReplicasInit == Init /\ Second!Init

-----------------------------------------------------------------------------
Wrote(before, after) == Len(after) > Len(before)

(* What one process writes, the other's watch will deliver.                *)
Heard(before, after, theirs) ==
  [t \in Tagemons |-> IF Wrote(before[t], after[t])
                      THEN Written(theirs[t], Stored(after[t]))
                      ELSE theirs[t]]

(* A write to a Tagemon makes the other's working copy of it old.          *)
Outrun(before, after, theirJob) ==
  IF theirJob # NoJob /\ Wrote(before[theirJob.name], after[theirJob.name])
  THEN [theirJob EXCEPT !.current = FALSE] ELSE theirJob

HeardBySecond ==
  /\ tagemon2' = Heard(tagemon, tagemon', tagemon2)
  /\ job2' = Outrun(tagemon, tagemon', job2)
  /\ UNCHANGED workqueue2

HeardByFirst ==
  /\ tagemon' = Heard(tagemon2, tagemon2', tagemon)
  /\ job' = Outrun(tagemon2, tagemon2', job)
  /\ UNCHANGED workqueue

(* A step of the first process, or of users and others.                    *)
FirstNext == Next /\ HeardBySecond

SecondNext ==
  /\ \/ \E t \in Tagemons : Second!Reconcile(t) \/ Second!DeliverTagemon(t)
     \/ Second!HandlerStep
     \/ Second!CallFails \/ Second!Crash
  /\ HeardByFirst

(* uuid.New() returns different ids in the two processes.                  *)
CreationsDiffer(mine, theirs) ==
  LET creates == {"createConfigMap", "createDeployment", "createStatus"}
  IN mine # NoJob /\ theirs # NoJob /\ {mine.at, theirs.at} \subseteq creates =>
       mine.tagemon.status.id # theirs.tagemon.status.id

ReplicasNext ==
  /\ FirstNext \/ SecondNext
  /\ CreationsDiffer(job', job2')

ReplicasSpec == ReplicasInit /\ [][ReplicasNext]_replicaVars

(* Both processes run on, each as a single one does.                       *)
ReplicasFairness ==
  /\ WF_replicaVars(HandlerStep /\ HeardBySecond)
  /\ WF_replicaVars(Second!HandlerStep /\ HeardByFirst)
  /\ \A t \in Tagemons :
       /\ SF_replicaVars(Reconcile(t) /\ HeardBySecond)
       /\ SF_replicaVars(Second!Reconcile(t) /\ HeardByFirst)
       /\ WF_replicaVars(DeliverTagemon(t) /\ HeardBySecond)
       /\ WF_replicaVars(Second!DeliverTagemon(t) /\ HeardByFirst)

-----------------------------------------------------------------------------
(* Properties                                                              *)

(* Both processes may create resources for one Tagemon, under two names    *)
(* even if it is edited in between.  Once the status of one creation is    *)
(* accepted no later write of the other puts its own in its place: the     *)
(* resources recorded would no longer be found, and never be deleted.      *)
RecordIsFinal ==
  [][\A t \in Tagemons : Recorded(t) /\ Recorded(t)' =>
       LET before == Stored(tagemon[t]).status
           after == Stored(tagemon'[t]).status
       IN /\ after.id = before.id
          /\ after.configMap = before.configMap
          /\ after.deployment = before.deployment]_replicaVars
===============================================================================
