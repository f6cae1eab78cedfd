-------------------------- MODULE YaceReplicasProofs --------------------------
(***************************************************************************)
(* What two processes keep between them, for every value of the constants: *)
(* any number of Tagemons, names that collide or not, and any bounds.      *)
(***************************************************************************)
EXTENDS YaceReplicas, YaceTagemonProofs

(* What is proved of one process, said of the second.                      *)
SecondProofs == INSTANCE YaceTagemonProofs
  WITH tagemon <- tagemon2, workqueue <- workqueue2, job <- job2

-----------------------------------------------------------------------------
(* What the second process shares with the first                           *)

Finalized(object) == object.finalizer => RecordsResources(object)

InOrder(objects) ==
  \A t \in Tagemons : \A object \in Range(objects[t]) \ {NoObject} : Finalized(object)

(* Its invariant in the terms of this module: types and objects are those  *)
(* of the first process.                                                   *)
SecondInv ==
  /\ tagemon2 \in [Tagemons -> Versions(Tagemon)]
  /\ InOrder(tagemon2)
  /\ workqueue2 \subseteq Tagemons
  /\ job2 \in Job \cup {NoJob}
  /\ SecondProofs!WorkingCopyInv

SharedType ==
  /\ configMap \in [Names -> Versions(ConfigMap)]
  /\ deployment \in [Names -> Versions(Deployment)]
  /\ spent \in [creations: 0..MaxCreations, touches: 0..MaxTouches,
                faults: 0..MaxFaults, removals: 0..MaxRemovals]

(* The invariant of one process, said of the second, is this.              *)
LEMMA SecondIs == SecondProofs!IndInv <=> SecondInv /\ SharedType
<1> USE DEF SecondProofs!Versions, Versions, SecondProofs!Tagemon, Tagemon,
      SecondProofs!ConfigMap, ConfigMap, SecondProofs!Deployment, Deployment,
      SecondProofs!Status, Status, SecondProofs!Config, Config, SecondProofs!Job, Job,
      SecondProofs!HandlerSteps, HandlerSteps, SecondProofs!Range, Range,
      SecondProofs!RecordsResources, RecordsResources
<1>1. SecondProofs!TypeOK <=>
        /\ tagemon2 \in [Tagemons -> Versions(Tagemon)]
        /\ SharedType
        /\ workqueue2 \subseteq Tagemons
        /\ job2 \in Job \cup {NoJob}
  BY DEF SecondProofs!TypeOK, SharedType
<1>2. SecondProofs!RecordedBeforeFinalizer <=> InOrder(tagemon2)
  BY DEF SecondProofs!RecordedBeforeFinalizer, InOrder, Finalized
<1> QED BY <1>1, <1>2, Zenon DEF SecondProofs!IndInv, SecondInv

(* And after a step.                                                       *)
LEMMA SecondIsNext == SecondProofs!IndInv' <=> SecondInv' /\ SharedType'
BY SecondIs, PTL

(* Its steps are those of one process, said of the second: the two         *)
(* instances define the same.                                              *)
LEMMA SecondSteps ==
  /\ \A t \in Tagemons : Second!Reconcile(t) => SecondProofs!Reconcile(t)
  /\ \A t \in Tagemons : Second!DeliverTagemon(t) => SecondProofs!DeliverTagemon(t)
  /\ Second!HandlerStep => SecondProofs!HandlerStep
  /\ Second!CallFails => SecondProofs!CallFails
  /\ Second!Crash => SecondProofs!Crash
<1> USE DEF Second!Range, SecondProofs!Range, Second!vars, SecondProofs!vars,
      Second!cluster, SecondProofs!cluster, Second!generateYACEConfig,
      SecondProofs!generateYACEConfig, Second!Put, SecondProofs!Put, Second!Read,
      SecondProofs!Read, Second!IsNotFound, SecondProofs!IsNotFound, Second!UsedIds,
      SecondProofs!UsedIds, Second!At, SecondProofs!At, Second!GoOn, SecondProofs!GoOn,
      Second!Retry, SecondProofs!Retry, Second!Fail, SecondProofs!Fail, Second!Fault,
      SecondProofs!Fault, Second!Answer, SecondProofs!Answer, Second!Accepted,
      SecondProofs!Accepted, Second!Started, SecondProofs!Started, Second!ResourceName,
      SecondProofs!ResourceName, Second!NewConfigMap, SecondProofs!NewConfigMap,
      Second!WithConfigMapName, SecondProofs!WithConfigMapName, Second!NewDeployment,
      SecondProofs!NewDeployment, Second!Observed, SecondProofs!Observed,
      Second!UpdateTagemon, SecondProofs!UpdateTagemon, Second!Stamps,
      SecondProofs!Stamps, Second!UpdateDeployment, SecondProofs!UpdateDeployment,
      Second!RestartRequired, SecondProofs!RestartRequired, Second!applyPodResources,
      SecondProofs!applyPodResources, Second!Cached, SecondProofs!Cached, Second!Stored,
      SecondProofs!Stored, Second!UpToDate, SecondProofs!UpToDate, Second!Written,
      SecondProofs!Written, Second!Delivered, SecondProofs!Delivered, Second!Relisted,
      SecondProofs!Relisted
<1>1. Second!createConfigMap => SecondProofs!createConfigMap
  BY DEF Second!createConfigMap, SecondProofs!createConfigMap
<1>2. Second!createDeployment => SecondProofs!createDeployment
  BY DEF Second!createDeployment, SecondProofs!createDeployment
<1>3. Second!createStatus => SecondProofs!createStatus
  BY DEF Second!createStatus, SecondProofs!createStatus
<1>4. Second!addFinalizer => SecondProofs!addFinalizer
  BY DEF Second!addFinalizer, SecondProofs!addFinalizer
<1>5. Second!updateConfigMap => SecondProofs!updateConfigMap
  BY DEF Second!updateConfigMap, SecondProofs!updateConfigMap
<1>6. Second!annotateDeployment => SecondProofs!annotateDeployment
  BY DEF Second!annotateDeployment, SecondProofs!annotateDeployment
<1>7. Second!updateDeployment => SecondProofs!updateDeployment
  BY DEF Second!updateDeployment, SecondProofs!updateDeployment
<1>8. Second!modifyStatus => SecondProofs!modifyStatus
  BY DEF Second!modifyStatus, SecondProofs!modifyStatus
<1>9. Second!deleteConfigMap => SecondProofs!deleteConfigMap
  BY DEF Second!deleteConfigMap, SecondProofs!deleteConfigMap
<1>10. Second!deleteDeployment => SecondProofs!deleteDeployment
  BY DEF Second!deleteDeployment, SecondProofs!deleteDeployment
<1>11. Second!removeFinalizer => SecondProofs!removeFinalizer
  BY DEF Second!removeFinalizer, SecondProofs!removeFinalizer
<1>12. Second!CallFails => SecondProofs!CallFails
  BY DEF Second!CallFails, SecondProofs!CallFails
<1>13. Second!Crash => SecondProofs!Crash
  BY DEF Second!Crash, SecondProofs!Crash
<1>14. ASSUME NEW t \in Tagemons, Second!Reconcile(t)
       PROVE  SecondProofs!Reconcile(t)
  <2>1. Second!Reconcile(t) => SecondProofs!Reconcile(t)
    BY DEF Second!Reconcile, SecondProofs!Reconcile, Second!ChosenHandler,
      SecondProofs!ChosenHandler, Second!handleCreate, SecondProofs!handleCreate,
      Second!handleModify, SecondProofs!handleModify, Second!handleDelete,
      SecondProofs!handleDelete
  <2> QED BY <1>14, <2>1
<1>15. \A t \in Tagemons : Second!DeliverTagemon(t) => SecondProofs!DeliverTagemon(t)
  BY DEF Second!DeliverTagemon, SecondProofs!DeliverTagemon
<1> QED BY <1>1, <1>2, <1>3, <1>4, <1>5, <1>6, <1>7, <1>8, <1>9, <1>10, <1>11,
       <1>12, <1>13, <1>14, <1>15 DEF Second!HandlerStep, SecondProofs!HandlerStep

-----------------------------------------------------------------------------
(* What one process learns of the other's writes                           *)

(* Versions that were heard of are versions the writer has.                *)
LEMMA HeardKeeps ==
  ASSUME NEW before, NEW after \in [Tagemons -> Versions(Tagemon)],
         NEW theirs \in [Tagemons -> Versions(Tagemon)],
         InOrder(after), InOrder(theirs)
  PROVE  /\ Heard(before, after, theirs) \in [Tagemons -> Versions(Tagemon)]
         /\ InOrder(Heard(before, after, theirs))
<1> SUFFICES ASSUME NEW t \in Tagemons
             PROVE  LET heard == Heard(before, after, theirs)[t]
                    IN /\ heard \in Versions(Tagemon)
                       /\ \A object \in Range(heard) \ {NoObject} : Finalized(object)
  BY DEF Heard, InOrder
<1>1. Stored(after[t]) \in Tagemon \cup {NoObject} /\ Stored(after[t]) \in Range(after[t])
  BY VersionsEnds
<1>2. LET written == Written(theirs[t], Stored(after[t]))
      IN /\ written \in Versions(Tagemon)
         /\ Range(written) \subseteq Range(theirs[t]) \cup {Stored(after[t])}
  BY <1>1, VersionsWritten
<1>3. LET written == Written(theirs[t], Stored(after[t]))
      IN \A object \in Range(written) \ {NoObject} : Finalized(object)
  BY <1>1, <1>2 DEF InOrder
<1>4. \A object \in Range(theirs[t]) \ {NoObject} : Finalized(object)
  BY DEF InOrder
<1> QED BY <1>2, <1>3, <1>4 DEF Heard

(* A working copy that became old is otherwise what it was.                *)
LEMMA OutrunKeeps ==
  ASSUME NEW before, NEW after, NEW theirJob \in Job \cup {NoJob}
  PROVE  LET outrun == Outrun(before, after, theirJob)
         IN /\ outrun \in Job \cup {NoJob}
            /\ theirJob = NoJob => outrun = NoJob
            /\ theirJob # NoJob =>
                 outrun.at = theirJob.at /\ outrun.tagemon = theirJob.tagemon
BY DEF Outrun, Job

-----------------------------------------------------------------------------
(* The invariant of both processes                                         *)

(* Each process has the invariant of one, of its own versions and its own  *)
(* working copy.                                                           *)
ReplicasInv == IndInv /\ SecondInv

(* Both processes start idle, on the same Tagemons.                        *)
LEMMA InitReplicas == ReplicasInit => ReplicasInv
<1> SUFFICES ASSUME ReplicasInit PROVE ReplicasInv OBVIOUS
<1>1. IndInv BY InitInv DEF ReplicasInit
<1>2. tagemon2 = tagemon /\ workqueue2 = {} /\ job2 = NoJob
  BY DEF ReplicasInit, Init, Second!Init
<1>3. SecondProofs!WorkingCopyInv BY <1>2 DEF SecondProofs!WorkingCopyInv
<1>4. SecondInv
  BY <1>1, <1>2, <1>3 DEF IndInv, TypeOK, RecordedBeforeFinalizer, SecondInv, InOrder, Finalized
<1> QED BY <1>1, <1>4 DEF ReplicasInv

(* The first process, users and others write, the second hears of it.      *)
LEMMA FirstKeeps == ReplicasInv /\ FirstNext => ReplicasInv'
<1> SUFFICES ASSUME ReplicasInv, FirstNext PROVE ReplicasInv' OBVIOUS
<1>1. IndInv' BY NextInv DEF ReplicasInv, FirstNext
<1>2. /\ tagemon2' = Heard(tagemon, tagemon', tagemon2)
      /\ job2' = Outrun(tagemon, tagemon', job2)
      /\ workqueue2' = workqueue2
  BY DEF FirstNext, HeardBySecond
<1>3. tagemon' \in [Tagemons -> Versions(Tagemon)] /\ InOrder(tagemon')
  BY <1>1 DEF IndInv, TypeOK, RecordedBeforeFinalizer, InOrder, Finalized
<1>4. tagemon2 \in [Tagemons -> Versions(Tagemon)] /\ InOrder(tagemon2)
  BY DEF ReplicasInv, SecondInv
<1>5. tagemon2' \in [Tagemons -> Versions(Tagemon)] /\ InOrder(tagemon2')
  BY <1>2, <1>3, <1>4, HeardKeeps
<1>6. job2 \in Job \cup {NoJob} /\ SecondProofs!WorkingCopyInv
  BY DEF ReplicasInv, SecondInv
<1>7. /\ job2' \in Job \cup {NoJob}
      /\ job2 = NoJob => job2' = NoJob
      /\ job2 # NoJob => job2'.at = job2.at /\ job2'.tagemon = job2.tagemon
  BY <1>2, <1>6, OutrunKeeps
<1>8. SecondProofs!WorkingCopyInv'
  BY <1>6, <1>7 DEF SecondProofs!WorkingCopyInv, SecondProofs!RecordsResources
<1> QED BY <1>1, <1>2, <1>5, <1>7, <1>8 DEF ReplicasInv, SecondInv

(* The second process writes, the first hears of it.                       *)
LEMMA SecondKeeps == ReplicasInv /\ SecondNext => ReplicasInv'
<1> SUFFICES ASSUME ReplicasInv, SecondNext PROVE ReplicasInv' OBVIOUS
<1>1. SecondProofs!Next
  BY SecondSteps DEF SecondNext, SecondProofs!Next
<1>2. SecondProofs!IndInv
  BY SecondIs DEF ReplicasInv, IndInv, TypeOK, SharedType
<1>3. SecondProofs!IndInv'
  <2>1. NoObject \notin SecondProofs!Tagemon \cup SecondProofs!ConfigMap
                          \cup SecondProofs!Deployment
    BY ObjectsAssumption DEF SecondProofs!Tagemon, Tagemon, SecondProofs!Status, Status,
      SecondProofs!ConfigMap, ConfigMap, SecondProofs!Config, Config,
      SecondProofs!Deployment, Deployment
  <2> QED BY <1>1, <1>2, <2>1, SecondProofs!NextInv, SpecsAssumption, NamesAssumption,
             IdsAssumption, SwitchesAssumption, BoundsAssumption
<1>4. SecondInv' /\ SharedType' BY <1>3, SecondIsNext
<1>5. /\ tagemon' = Heard(tagemon2, tagemon2', tagemon)
      /\ job' = Outrun(tagemon2, tagemon2', job)
      /\ workqueue' = workqueue
  BY DEF SecondNext, HeardByFirst
<1>6. tagemon2' \in [Tagemons -> Versions(Tagemon)] /\ InOrder(tagemon2')
  BY <1>4 DEF SecondInv
<1>7. tagemon \in [Tagemons -> Versions(Tagemon)] /\ InOrder(tagemon)
  BY DEF ReplicasInv, IndInv, TypeOK, RecordedBeforeFinalizer, InOrder, Finalized
<1>8. tagemon' \in [Tagemons -> Versions(Tagemon)] /\ InOrder(tagemon')
  BY <1>5, <1>6, <1>7, HeardKeeps
<1>9. job \in Job \cup {NoJob} /\ WorkingCopyInv
  BY DEF ReplicasInv, IndInv, TypeOK
<1>10. /\ job' \in Job \cup {NoJob}
       /\ job = NoJob => job' = NoJob
       /\ job # NoJob => job'.at = job.at /\ job'.tagemon = job.tagemon
  BY <1>5, <1>9, OutrunKeeps
<1>11. WorkingCopyInv' BY <1>9, <1>10 DEF WorkingCopyInv, RecordsResources
<1>12. workqueue' \subseteq Tagemons BY <1>5 DEF ReplicasInv, IndInv, TypeOK
<1>13. TypeOK' BY <1>4, <1>8, <1>10, <1>12 DEF TypeOK, SharedType
<1>14. RecordedBeforeFinalizer'
  BY <1>8 DEF RecordedBeforeFinalizer, InOrder, Finalized
<1> QED BY <1>4, <1>11, <1>13, <1>14 DEF ReplicasInv, IndInv

(* What each process needs to know of its own versions and working copy    *)
(* holds with a second one at work.                                        *)
THEOREM ReplicasInvariance == ReplicasSpec => []ReplicasInv
<1>1. ReplicasInv /\ [ReplicasNext]_replicaVars => ReplicasInv'
  <2> SUFFICES ASSUME ReplicasInv, [ReplicasNext]_replicaVars PROVE ReplicasInv' OBVIOUS
  <2>1. CASE ReplicasNext BY <2>1, FirstKeeps, SecondKeeps DEF ReplicasNext
  <2>2. CASE UNCHANGED replicaVars
    <3>1. UNCHANGED <<vars, tagemon2, workqueue2, job2>> BY <2>2 DEF replicaVars, second
    <3>2. IndInv' BY <3>1, NextInv DEF ReplicasInv
    <3>3. SecondInv'
      BY <3>1 DEF ReplicasInv, SecondInv, SecondProofs!WorkingCopyInv,
        SecondProofs!RecordsResources
    <3> QED BY <3>2, <3>3 DEF ReplicasInv
  <2> QED BY <2>1, <2>2
<1> QED BY <1>1, InitReplicas, PTL DEF ReplicasSpec

(* Two processes that create, modify and delete the same Tagemons side by  *)
(* side still never add the finalizer before the status that names what    *)
(* the deletion has to remove.                                             *)
THEOREM FinalizerAfterRecordOfTwo == ReplicasSpec => []RecordedBeforeFinalizer
<1>1. ReplicasInv => RecordedBeforeFinalizer BY DEF ReplicasInv, IndInv
<1> QED BY <1>1, ReplicasInvariance, PTL

-----------------------------------------------------------------------------
(* The record of a creation is final                                       *)

(* Both processes end in the version the API server stores, and each knows *)
(* whether its working copy still is that version.                         *)
OneStore == \A t \in Tagemons : Stored(tagemon2[t]) = Stored(tagemon[t])

RecordsInv == OneStore /\ CopyFollows /\ SecondProofs!CopyFollows

(* A process that heard of a write stores what was written.                *)
LEMMA HeardStores ==
  ASSUME NEW before \in [Tagemons -> Versions(Tagemon)],
         NEW after \in [Tagemons -> Versions(Tagemon)],
         NEW theirs \in [Tagemons -> Versions(Tagemon)],
         NEW t \in Tagemons,
         Stored(theirs[t]) = Stored(before[t]),
         \/ after[t] = before[t]
         \/ after[t] = Relisted(before[t])
         \/ ~UpToDate(before[t]) /\ after[t] = Delivered(before[t])
         \/ after[t] = Written(before[t], Stored(after[t]))
  PROVE  /\ Stored(Heard(before, after, theirs)[t]) = Stored(after[t])
         /\ ~Wrote(before[t], after[t]) => Stored(after[t]) = Stored(before[t])
<1>0. before[t] \in Versions(Tagemon) /\ theirs[t] \in Versions(Tagemon)
  OBVIOUS
<1>1. ~Wrote(before[t], after[t]) => Stored(after[t]) = Stored(before[t])
  <2>1. CASE after[t] = Written(before[t], Stored(after[t]))
    <3>1. before[t] \in Seq(Tagemon \cup {NoObject})
      BY <1>0 DEF Versions
    <3>2. Len(after[t]) = Len(before[t]) + 1 /\ Len(before[t]) \in Nat
      BY <2>1, <3>1 DEF Written
    <3> QED BY <3>2 DEF Wrote
  <2>2. CASE after[t] # Written(before[t], Stored(after[t]))
    <3>1. /\ Stored(Relisted(before[t])) = Stored(before[t])
          /\ ~UpToDate(before[t]) => Stored(Delivered(before[t])) = Stored(before[t])
      BY <1>0, VersionsStored
    <3> QED BY <2>2, <3>1
  <2> QED BY <2>1, <2>2
<1>2. Stored(Written(theirs[t], Stored(after[t]))) = Stored(after[t])
  <2>1. \A version : Stored(Written(theirs[t], version)) = version
    BY <1>0, VersionsStored
  <2> QED BY <2>1
<1> QED BY <1>1, <1>2 DEF Heard

(* A step of the first process, or of users and others.                    *)
LEMMA FirstRecords ==
  ASSUME ReplicasInv, RecordsInv, FirstNext
  PROVE  RecordsInv' /\ \A t \in Tagemons : RecordKept(Stored(tagemon[t]), Stored(tagemon'[t]))
<1>0. /\ TypeOK /\ TypeOK' /\ Next
      /\ tagemon2 \in [Tagemons -> Versions(Tagemon)] /\ job2 \in Job \cup {NoJob}
      /\ tagemon \in [Tagemons -> Versions(Tagemon)]
      /\ tagemon' \in [Tagemons -> Versions(Tagemon)]
      /\ tagemon2' = Heard(tagemon, tagemon', tagemon2)
      /\ job2' = Outrun(tagemon, tagemon', job2)
  BY FirstKeeps DEF ReplicasInv, IndInv, TypeOK, SecondInv, FirstNext, HeardBySecond
<1>1. CopyFollows' /\ \A t \in Tagemons : RecordKept(Stored(tagemon[t]), Stored(tagemon'[t]))
  BY <1>0, CopyFollowsKept, RecordStays DEF RecordsInv
<1>2. ASSUME NEW t \in Tagemons
      PROVE  /\ Stored(tagemon2'[t]) = Stored(tagemon'[t])
             /\ ~Wrote(tagemon[t], tagemon'[t]) => Stored(tagemon'[t]) = Stored(tagemon[t])
  BY <1>0, NextMoves, HeardStores DEF TagemonMoves, RecordsInv, OneStore
<1>3. SecondProofs!CopyFollows'
  <2> SUFFICES ASSUME job2' # NoJob, job2'.current
               PROVE  /\ job2' = job2 /\ job2.name \in Tagemons
                      /\ Stored(tagemon2'[job2.name]) = Stored(tagemon2[job2.name])
    BY DEF RecordsInv, SecondProofs!CopyFollows, SecondProofs!Stored, Stored,
           SecondProofs!Unrecorded
  <2>1. job2 \in Job /\ ~Wrote(tagemon[job2.name], tagemon'[job2.name]) /\ job2' = job2
    BY <1>0 DEF Outrun, Job
  <2> QED BY <1>2, <2>1 DEF Job, RecordsInv, OneStore
<1> QED BY <1>1, <1>2, <1>3 DEF RecordsInv, OneStore

(* A step of the second process.                                           *)
LEMMA SecondRecords ==
  ASSUME ReplicasInv, RecordsInv, SecondNext
  PROVE  RecordsInv' /\ \A t \in Tagemons : RecordKept(Stored(tagemon[t]), Stored(tagemon'[t]))
<1>0. /\ tagemon \in [Tagemons -> Versions(Tagemon)] /\ job \in Job \cup {NoJob}
      /\ tagemon2 \in [Tagemons -> Versions(Tagemon)]
      /\ tagemon2' \in [Tagemons -> Versions(Tagemon)]
      /\ tagemon' = Heard(tagemon2, tagemon2', tagemon)
      /\ job' = Outrun(tagemon2, tagemon2', job)
  BY SecondKeeps DEF ReplicasInv, IndInv, TypeOK, SecondInv, SecondNext, HeardByFirst
<1>1. SecondProofs!Next
  BY SecondSteps DEF SecondNext, SecondProofs!Next
<1>2. SecondProofs!TypeOK
  BY SecondIs DEF ReplicasInv, IndInv, TypeOK, SharedType, SecondProofs!IndInv
<1>3. NoObject \notin SecondProofs!Tagemon \cup SecondProofs!ConfigMap
                        \cup SecondProofs!Deployment
  BY ObjectsAssumption DEF SecondProofs!Tagemon, Tagemon, SecondProofs!Status, Status,
    SecondProofs!ConfigMap, ConfigMap, SecondProofs!Config, Config,
    SecondProofs!Deployment, Deployment
<1>4. /\ SecondProofs!CopyFollows'
      /\ \A t \in Tagemons :
           SecondProofs!RecordKept(SecondProofs!Stored(tagemon2[t]),
                                   SecondProofs!Stored(tagemon2'[t]))
  BY <1>1, <1>2, <1>3, SecondProofs!CopyFollowsKept, SecondProofs!RecordStays,
     SpecsAssumption, NamesAssumption, IdsAssumption, SwitchesAssumption, BoundsAssumption
     DEF RecordsInv
<1>5. \A t \in Tagemons : RecordKept(Stored(tagemon2[t]), Stored(tagemon2'[t]))
  BY <1>4 DEF SecondProofs!RecordKept, RecordKept, SecondProofs!Stored, Stored,
    SecondProofs!RecordedVersion, RecordedVersion
<1>6. ASSUME NEW t \in Tagemons
      PROVE  /\ Stored(tagemon'[t]) = Stored(tagemon2'[t])
             /\ ~Wrote(tagemon2[t], tagemon2'[t]) => Stored(tagemon2'[t]) = Stored(tagemon2[t])
  <2>1. SecondProofs!TagemonMoves(t)
    BY <1>1, <1>2, <1>3, SecondProofs!NextMoves,
       SpecsAssumption, NamesAssumption, IdsAssumption, SwitchesAssumption, BoundsAssumption
  <2> QED
    BY <1>0, <2>1, HeardStores
       DEF RecordsInv, OneStore, SecondProofs!TagemonMoves, SecondProofs!Relisted, Relisted,
           SecondProofs!Stored, Stored, SecondProofs!UpToDate, UpToDate,
           SecondProofs!Delivered, Delivered, SecondProofs!Written, Written
<1>7. CopyFollows'
  <2> SUFFICES ASSUME job' # NoJob, job'.current
               PROVE  /\ job' = job /\ job.name \in Tagemons
                      /\ Stored(tagemon'[job.name]) = Stored(tagemon[job.name])
    BY DEF RecordsInv, CopyFollows
  <2>1. job \in Job /\ ~Wrote(tagemon2[job.name], tagemon2'[job.name]) /\ job' = job
    BY <1>0 DEF Outrun, Job
  <2> QED BY <1>6, <2>1 DEF Job, RecordsInv, OneStore
<1> QED BY <1>4, <1>5, <1>6, <1>7 DEF RecordsInv, OneStore

(* Whichever of two creations is recorded first stays recorded, whatever   *)
(* the processes read, write, lose and crash in between, through edits of  *)
(* the fields that name the resources and through any number of Tagemons   *)
(* created anew under one name.                                            *)
THEOREM RecordIsFinalOfTwo == ReplicasSpec => RecordIsFinal
<1>1. ReplicasInit => RecordsInv
  BY DEF ReplicasInit, Init, Second!Init, RecordsInv, OneStore, CopyFollows,
         SecondProofs!CopyFollows
<1>2. ASSUME ReplicasInv, RecordsInv, [ReplicasNext]_replicaVars
      PROVE  /\ RecordsInv'
             /\ \A t \in Tagemons : RecordKept(Stored(tagemon[t]), Stored(tagemon'[t]))
  <2>1. CASE ReplicasNext
    BY <1>2, <2>1, FirstRecords, SecondRecords DEF ReplicasNext
  <2>2. CASE UNCHANGED replicaVars
    BY <1>2, <2>2
       DEF replicaVars, vars, second, RecordsInv, OneStore, CopyFollows, RecordKept,
           SecondProofs!CopyFollows, SecondProofs!Stored, SecondProofs!Unrecorded
  <2> QED BY <1>2, <2>1, <2>2
<1>3. ReplicasInv /\ RecordsInv /\ [ReplicasNext]_replicaVars =>
        RecordsInv' /\
        [\A t \in Tagemons : Recorded(t) /\ Recorded(t)' =>
           LET before == Stored(tagemon[t]).status
               after == Stored(tagemon'[t]).status
           IN /\ after.id = before.id
              /\ after.configMap = before.configMap
              /\ after.deployment = before.deployment]_replicaVars
  BY <1>2 DEF RecordKept, Recorded, Live, RecordedVersion
<1> QED BY <1>1, <1>3, ReplicasInvariance, PTL DEF ReplicasSpec, RecordIsFinal
===============================================================================
