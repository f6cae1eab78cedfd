-------------------------- MODULE YaceResourcesProofs --------------------------
(***************************************************************************)
(* A Tagemon owns what its status records, and retries restart its pods at *)
(* most once for every change of its spec, in YaceHandler with any number  *)
(* of Tagemons, edits, lagging caches, conflicts, failures and crashes, as *)
(* long as Tagemons have names of their own and nobody deletes a ConfigMap *)
(* or a Deployment by hand.                                                *)
(***************************************************************************)
EXTENDS YaceTagemonProofs

-----------------------------------------------------------------------------
(* What a step does to ConfigMaps and Deployments                          *)

ResourcesStay ==
  \A n \in Names : /\ Stored(configMap'[n]) = Stored(configMap[n])
                   /\ Stored(deployment'[n]) = Stored(deployment[n])

(* One object is written, the others stay.                                 *)
StoredBecomes(new, old, name, object) ==
  /\ name \in Names
  /\ Stored(new[name]) = object
  /\ \A n \in Names \ {name} : Stored(new[n]) = Stored(old[n])

ItsConfigMap == job.tagemon.status.configMap

ItsDeployment == job.tagemon.status.deployment

ConfigMapCreated ==
  /\ job.at = "createConfigMap"
  /\ Stored(configMap[ResourceName]) = NoObject
  /\ StoredBecomes(configMap', configMap, ResourceName, NewConfigMap)
  /\ UNCHANGED deployment

DeploymentCreated ==
  /\ job.at = "createDeployment"
  /\ Stored(deployment[ResourceName]) = NoObject
  /\ StoredBecomes(deployment', deployment, ResourceName, NewDeployment)
  /\ UNCHANGED configMap

ConfigMapUpdated ==
  /\ job.at = "updateConfigMap" /\ UNCHANGED deployment
  /\ LET found == Read(configMap, ItsConfigMap)
         config == generateYACEConfig(job.tagemon.spec)
         stored == Stored(configMap[ItsConfigMap])
     IN \/ /\ UNCHANGED configMap
           /\ found = NoObject \/ found.config = config
           /\ job' = NoJob \/ ~job'.changed
        \/ /\ stored \in ConfigMap /\ stored.config # config
           /\ StoredBecomes(configMap', configMap, ItsConfigMap,
                            [stored EXCEPT !.config = config])

DeploymentAnnotated ==
  /\ job.at = "annotateDeployment" /\ UNCHANGED configMap
  /\ LET stored == Stored(deployment[ItsDeployment])
     IN \/ UNCHANGED deployment
        \/ /\ job.changed /\ stored \in Deployment
           /\ \E stamp \in Nat :
                /\ stamp <= stored.restarted + 1
                /\ StoredBecomes(deployment', deployment, ItsDeployment,
                                 [stored EXCEPT !.restarted = stamp])

DeploymentUpdated ==
  /\ job.at = "updateDeployment" /\ UNCHANGED configMap
  /\ LET found == Read(deployment, ItsDeployment)
         resources == job.tagemon.spec.resources
         stored == Stored(deployment[ItsDeployment])
     IN \/ /\ UNCHANGED deployment
           /\ found = NoObject \/ found.resources = resources
        \/ /\ stored \in Deployment
           /\ StoredBecomes(deployment', deployment, ItsDeployment,
                            [stored EXCEPT !.resources = resources])

ConfigMapDeleted ==
  /\ job.at = "deleteConfigMap" /\ UNCHANGED deployment
  /\ \/ UNCHANGED configMap /\ Read(configMap, ItsConfigMap) = NoObject
     \/ StoredBecomes(configMap', configMap, ItsConfigMap, NoObject)

DeploymentDeleted ==
  /\ job.at = "deleteDeployment" /\ UNCHANGED configMap
  /\ \/ UNCHANGED deployment /\ Read(deployment, ItsDeployment) = NoObject
     \/ StoredBecomes(deployment', deployment, ItsDeployment, NoObject)

TagemonSteps == {"createStatus", "addFinalizer", "modifyStatus", "removeFinalizer"}

HandlerDoes ==
  \/ /\ job' = NoJob \/ job.at \in TagemonSteps
     /\ UNCHANGED <<configMap, deployment>>
  \/ ConfigMapCreated \/ DeploymentCreated
  \/ ConfigMapUpdated \/ DeploymentAnnotated \/ DeploymentUpdated
  \/ ConfigMapDeleted \/ DeploymentDeleted

(* Somebody else deletes a ConfigMap or a Deployment.                      *)
ResourceRemoved ==
  /\ MaxRemovals # 0
  /\ UNCHANGED <<tagemon, job>>
  /\ \E n \in Names :
       \/ StoredBecomes(configMap', configMap, n, NoObject) /\ UNCHANGED deployment
       \/ StoredBecomes(deployment', deployment, n, NoObject) /\ UNCHANGED configMap

(* What every object stored is.                                            *)
LEMMA StoredResourceType ==
  ASSUME TypeOK, NEW n \in Names
  PROVE  /\ Stored(configMap[n]) \in ConfigMap \cup {NoObject}
         /\ Stored(deployment[n]) \in Deployment \cup {NoObject}
<1>1. configMap[n] \in Versions(ConfigMap) /\ deployment[n] \in Versions(Deployment)
  BY DEF TypeOK
<1> QED
  BY <1>1, VersionsEnds

(* A write changes the object written and no other.                        *)
LEMMA PutBecomes ==
  ASSUME NEW Object, NEW objects \in [Names -> Versions(Object)],
         NEW name \in Names, NEW object
  PROVE  /\ StoredBecomes([objects EXCEPT ![name] = Put(@, object)], objects, name, object)
         /\ StoredBecomes([objects EXCEPT ![name] = Written(@, object)], objects, name, object)
<1>1. objects[name] \in Versions(Object)
  OBVIOUS
<1>2. /\ Stored(Written(objects[name], object)) = object
      /\ Stored(<<object>>) = object
  BY <1>1, VersionsStored DEF Stored
<1>3. Stored(Put(objects[name], object)) = object
  BY <1>2 DEF Put
<1> QED
  BY <1>2, <1>3 DEF StoredBecomes

(* The object an Update is based on is the one stored.                     *)
LEMMA ReadIsStored ==
  ASSUME NEW objects, NEW name, UpToDate(objects[name]),
         ~IsNotFound(Read(objects, name))
  PROVE  Read(objects, name) = Stored(objects[name])
BY DEF UpToDate, IsNotFound, Read, Cached, Stored

(* What the calls of handleCreate do.                                      *)
LEMMA CreationDoes ==
  ASSUME TypeOK, createConfigMap \/ createDeployment
  PROVE  HandlerDoes
<1>0. /\ job # NoJob /\ ResourceName \in Names
      /\ configMap \in [Names -> Versions(ConfigMap)]
      /\ deployment \in [Names -> Versions(Deployment)]
  <2>1. job # NoJob
    BY DEF createConfigMap, createDeployment, At
  <2> QED
    BY <2>1, WorkingCopyType DEF TypeOK
<1>1. CASE createConfigMap
  <2>1. CASE Stored(configMap[ResourceName]) = NoObject
    <3>1. configMap' = [configMap EXCEPT ![ResourceName] = Put(@, NewConfigMap)]
      BY <1>1, <2>1 DEF createConfigMap
    <3>2. StoredBecomes(configMap', configMap, ResourceName, NewConfigMap)
      BY <1>0, <3>1, PutBecomes
    <3> QED
      BY <1>1, <2>1, <3>2 DEF createConfigMap, At, ConfigMapCreated, HandlerDoes
  <2>2. CASE Stored(configMap[ResourceName]) # NoObject
    BY <1>1, <2>2 DEF createConfigMap, Fail, Retry, HandlerDoes
  <2> QED
    BY <2>1, <2>2
<1>2. CASE createDeployment
  <2>1. CASE Stored(deployment[ResourceName]) = NoObject
    <3>1. deployment' = [deployment EXCEPT ![ResourceName] = Put(@, NewDeployment)]
      BY <1>2, <2>1 DEF createDeployment
    <3>2. StoredBecomes(deployment', deployment, ResourceName, NewDeployment)
      BY <1>0, <3>1, PutBecomes
    <3> QED
      BY <1>2, <2>1, <3>2 DEF createDeployment, At, DeploymentCreated, HandlerDoes
  <2>2. CASE Stored(deployment[ResourceName]) # NoObject
    BY <1>2, <2>2 DEF createDeployment, Fail, Retry, HandlerDoes
  <2> QED
    BY <2>1, <2>2
<1> QED
  BY <1>1, <1>2

(* What the calls of handleModify do.                                      *)
LEMMA ModificationDoes ==
  ASSUME TypeOK, updateConfigMap \/ annotateDeployment \/ updateDeployment
  PROVE  HandlerDoes
<1>0. /\ job # NoJob
      /\ ItsConfigMap \in Names \cup {NoName} /\ ItsDeployment \in Names \cup {NoName}
      /\ configMap \in [Names -> Versions(ConfigMap)]
      /\ deployment \in [Names -> Versions(Deployment)]
  <2>1. job # NoJob
    BY DEF updateConfigMap, annotateDeployment, updateDeployment, At
  <2>2. job.tagemon \in Tagemon
    BY <2>1, WorkingCopyType
  <2> QED
    BY <2>1, <2>2 DEF TypeOK, ItsConfigMap, ItsDeployment, Tagemon, Status
<1>1. CASE updateConfigMap
  <2> DEFINE found == Read(configMap, ItsConfigMap)
             config == generateYACEConfig(job.tagemon.spec)
  <2>1. CASE IsNotFound(found) \/ found.config = config
    <3>1. UNCHANGED <<configMap, deployment>> /\ job.at = "updateConfigMap"
      BY <1>1, <2>1 DEF updateConfigMap, ItsConfigMap, At
    <3>2. job' = [job EXCEPT !.at = "annotateDeployment", !.changed = FALSE]
      BY <1>1, <2>1 DEF updateConfigMap, ItsConfigMap, GoOn
    <3>3. ~job'.changed
      BY <1>0, <3>2 DEF TypeOK, Job
    <3> QED
      BY <2>1, <3>1, <3>3 DEF ConfigMapUpdated, HandlerDoes, IsNotFound
  <2>2. CASE ~(IsNotFound(found) \/ found.config = config) /\ ~UpToDate(configMap[ItsConfigMap])
    BY <1>1, <2>2 DEF updateConfigMap, ItsConfigMap, Fail, Retry, HandlerDoes
  <2>3. CASE ~(IsNotFound(found) \/ found.config = config) /\ UpToDate(configMap[ItsConfigMap])
    <3>1. ItsConfigMap \in Names /\ found \in ConfigMap
      BY <1>0, <2>3, ReadType
    <3>2. found = Stored(configMap[ItsConfigMap])
      BY <2>3, ReadIsStored
    <3>3. configMap' = [configMap EXCEPT
                          ![ItsConfigMap] = Put(@, [found EXCEPT !.config = config])]
      BY <1>1, <2>3 DEF updateConfigMap, ItsConfigMap
    <3>4. StoredBecomes(configMap', configMap, ItsConfigMap, [found EXCEPT !.config = config])
      BY <1>0, <3>1, <3>3, PutBecomes
    <3>5. job.at = "updateConfigMap" /\ UNCHANGED deployment
      BY <1>1 DEF updateConfigMap, At
    <3> QED
      BY <2>3, <3>1, <3>2, <3>4, <3>5 DEF ConfigMapUpdated, HandlerDoes
  <2> QED
    BY <2>1, <2>2, <2>3
<1>2. CASE annotateDeployment
  <2> DEFINE found == Read(deployment, ItsDeployment)
             next == [job EXCEPT !.at = "updateDeployment"]
  <2>0. job.at = "annotateDeployment" /\ UNCHANGED configMap
    BY <1>2 DEF annotateDeployment, At
  <2>1. CASE UNCHANGED deployment
    BY <2>0, <2>1 DEF DeploymentAnnotated, HandlerDoes
  <2>2. CASE ~UNCHANGED deployment
    <3>1. ~IsNotFound(found) /\ job.changed
      BY <1>2, <2>2 DEF annotateDeployment, ItsDeployment, RestartRequired
    <3>2. PICK stamp \in Stamps(found.restarted) :
            UpdateDeployment(ItsDeployment, found, [found EXCEPT !.restarted = stamp], next)
      BY <1>2, <2>2, <3>1 DEF annotateDeployment, ItsDeployment
    <3>3. /\ UpToDate(deployment[ItsDeployment])
          /\ deployment' = [deployment EXCEPT
               ![ItsDeployment] = Put(@, [found EXCEPT !.restarted = stamp])]
      BY <2>2, <3>2 DEF UpdateDeployment
    <3>4. ItsDeployment \in Names /\ found \in Deployment
      BY <1>0, <3>1, ReadType
    <3>5. found = Stored(deployment[ItsDeployment])
      BY <3>1, <3>3, ReadIsStored
    <3>6. StoredBecomes(deployment', deployment, ItsDeployment,
                        [found EXCEPT !.restarted = stamp])
      BY <1>0, <3>3, <3>4, PutBecomes
    <3>7. stamp \in Nat /\ stamp <= found.restarted + 1
      BY <3>4 DEF Stamps, Deployment
    <3> QED
      BY <2>0, <3>1, <3>4, <3>5, <3>6, <3>7 DEF DeploymentAnnotated, HandlerDoes
  <2> QED
    BY <2>1, <2>2
<1>3. CASE updateDeployment
  <2> DEFINE found == Read(deployment, ItsDeployment)
             next == [job EXCEPT !.at = "modifyStatus"]
             resources == job.tagemon.spec.resources
  <2>0. job.at = "updateDeployment" /\ UNCHANGED configMap
    BY <1>3 DEF updateDeployment, At
  <2>1. CASE IsNotFound(found)
    BY <1>3, <2>0, <2>1
       DEF updateDeployment, ItsDeployment, DeploymentUpdated, HandlerDoes, IsNotFound
  <2>2. CASE ~IsNotFound(found)
    <3>1. ItsDeployment \in Names /\ found \in Deployment
      BY <1>0, <2>2, ReadType
    <3>2. CASE applyPodResources(found) = found
      <4>1. found.resources = resources
        BY <3>1, <3>2 DEF applyPodResources, Deployment
      <4>2. UNCHANGED deployment
        BY <1>3, <3>2 DEF updateDeployment, ItsDeployment
      <4> QED
        BY <2>0, <4>1, <4>2 DEF DeploymentUpdated, HandlerDoes
    <3>3. CASE applyPodResources(found) # found
      <4>1. UpdateDeployment(ItsDeployment, found, applyPodResources(found), next)
        BY <1>3, <2>2, <3>3 DEF updateDeployment, ItsDeployment
      <4>2. CASE ~UpToDate(deployment[ItsDeployment])
        BY <2>0, <4>1, <4>2 DEF UpdateDeployment, Fail, Retry, HandlerDoes
      <4>3. CASE UpToDate(deployment[ItsDeployment])
        <5>1. deployment' = [deployment EXCEPT
                               ![ItsDeployment] = Put(@, applyPodResources(found))]
          BY <3>3, <4>1, <4>3 DEF UpdateDeployment
        <5>2. found = Stored(deployment[ItsDeployment])
          BY <2>2, <4>3, ReadIsStored
        <5>3. StoredBecomes(deployment', deployment, ItsDeployment, applyPodResources(found))
          BY <1>0, <3>1, <5>1, PutBecomes
        <5> QED
          BY <2>0, <3>1, <5>2, <5>3 DEF DeploymentUpdated, HandlerDoes, applyPodResources
      <4> QED
        BY <4>2, <4>3
    <3> QED
      BY <3>2, <3>3
  <2> QED
    BY <2>1, <2>2
<1> QED
  BY <1>1, <1>2, <1>3

(* What the calls of handleDelete do.                                      *)
LEMMA DeletionDoes ==
  ASSUME TypeOK, deleteConfigMap \/ deleteDeployment
  PROVE  HandlerDoes
<1>0. /\ job # NoJob
      /\ ItsConfigMap \in Names \cup {NoName} /\ ItsDeployment \in Names \cup {NoName}
      /\ configMap \in [Names -> Versions(ConfigMap)]
      /\ deployment \in [Names -> Versions(Deployment)]
  <2>1. job # NoJob
    BY DEF deleteConfigMap, deleteDeployment, At
  <2>2. job.tagemon \in Tagemon
    BY <2>1, WorkingCopyType
  <2> QED
    BY <2>1, <2>2 DEF TypeOK, ItsConfigMap, ItsDeployment, Tagemon, Status
<1>1. CASE deleteConfigMap
  <2>0. job.at = "deleteConfigMap" /\ UNCHANGED deployment
    BY <1>1 DEF deleteConfigMap, At
  <2>1. CASE IsNotFound(Read(configMap, ItsConfigMap))
    BY <1>1, <2>0, <2>1
       DEF deleteConfigMap, ItsConfigMap, ConfigMapDeleted, HandlerDoes, IsNotFound
  <2>2. CASE ~IsNotFound(Read(configMap, ItsConfigMap))
             /\ Stored(configMap[ItsConfigMap]) = NoObject
    BY <1>1, <2>0, <2>2 DEF deleteConfigMap, ItsConfigMap, Fail, Retry, HandlerDoes
  <2>3. CASE ~IsNotFound(Read(configMap, ItsConfigMap))
             /\ Stored(configMap[ItsConfigMap]) # NoObject
    <3>1. ItsConfigMap \in Names
      BY <1>0, <2>3, ReadType
    <3>2. configMap' = [configMap EXCEPT ![ItsConfigMap] = Put(@, NoObject)]
      BY <1>1, <2>3 DEF deleteConfigMap, ItsConfigMap
    <3>3. StoredBecomes(configMap', configMap, ItsConfigMap, NoObject)
      BY <1>0, <3>1, <3>2, PutBecomes
    <3> QED
      BY <2>0, <3>3 DEF ConfigMapDeleted, HandlerDoes
  <2> QED
    BY <2>1, <2>2, <2>3
<1>2. CASE deleteDeployment
  <2>0. job.at = "deleteDeployment" /\ UNCHANGED configMap
    BY <1>2 DEF deleteDeployment, At
  <2>1. CASE IsNotFound(Read(deployment, ItsDeployment))
    BY <1>2, <2>0, <2>1
       DEF deleteDeployment, ItsDeployment, DeploymentDeleted, HandlerDoes, IsNotFound
  <2>2. CASE ~IsNotFound(Read(deployment, ItsDeployment))
             /\ Stored(deployment[ItsDeployment]) = NoObject
    BY <1>2, <2>0, <2>2 DEF deleteDeployment, ItsDeployment, Fail, Retry, HandlerDoes
  <2>3. CASE ~IsNotFound(Read(deployment, ItsDeployment))
             /\ Stored(deployment[ItsDeployment]) # NoObject
    <3>1. ItsDeployment \in Names
      BY <1>0, <2>3, ReadType
    <3>2. deployment' = [deployment EXCEPT ![ItsDeployment] = Put(@, NoObject)]
      BY <1>2, <2>3 DEF deleteDeployment, ItsDeployment
    <3>3. StoredBecomes(deployment', deployment, ItsDeployment, NoObject)
      BY <1>0, <3>1, <3>2, PutBecomes
    <3> QED
      BY <2>0, <3>3 DEF DeploymentDeleted, HandlerDoes
  <2> QED
    BY <2>1, <2>2, <2>3
<1> QED
  BY <1>1, <1>2

(* What the API server stores stays while the caches learn.                *)
LEMMA ResourcesLearnt ==
  ASSUME TypeOK,
         \/ UNCHANGED <<configMap, deployment>>
         \/ Crash
         \/ \E n \in Names : \/ TouchDeployment(n)
                             \/ DeliverConfigMap(n) \/ DeliverDeployment(n)
  PROVE  ResourcesStay
<1>0. /\ configMap \in [Names -> Versions(ConfigMap)]
      /\ deployment \in [Names -> Versions(Deployment)]
  BY DEF TypeOK
<1>1. CASE UNCHANGED <<configMap, deployment>>
  BY <1>1 DEF ResourcesStay
<1>2. CASE Crash
  <2>1. \A n \in Names : /\ configMap'[n] = Relisted(configMap[n])
                         /\ deployment'[n] = Relisted(deployment[n])
    BY <1>2 DEF Crash
  <2>2. \A n \in Names : /\ Stored(Relisted(configMap[n])) = Stored(configMap[n])
                         /\ Stored(Relisted(deployment[n])) = Stored(deployment[n])
    BY <1>0, VersionsStored
  <2> QED
    BY <2>1, <2>2 DEF ResourcesStay
<1>3. ASSUME NEW n \in Names, TouchDeployment(n)
      PROVE  ResourcesStay
  <2>1. /\ deployment' = [deployment EXCEPT ![n] = Written(@, Stored(deployment[n]))]
        /\ UNCHANGED configMap
    BY <1>0, <1>3 DEF TouchDeployment
  <2>2. StoredBecomes(deployment', deployment, n, Stored(deployment[n]))
    BY <1>0, <2>1, PutBecomes
  <2> QED
    BY <2>1, <2>2 DEF StoredBecomes, ResourcesStay
<1>4. ASSUME NEW n \in Names, DeliverConfigMap(n)
      PROVE  ResourcesStay
  <2>1. /\ configMap' = [configMap EXCEPT ![n] = Delivered(@)]
        /\ UNCHANGED deployment /\ ~UpToDate(configMap[n])
    BY <1>4 DEF DeliverConfigMap
  <2>2. Stored(Delivered(configMap[n])) = Stored(configMap[n])
    BY <1>0, <2>1, VersionsStored
  <2> QED
    BY <1>0, <2>1, <2>2 DEF ResourcesStay
<1>5. ASSUME NEW n \in Names, DeliverDeployment(n)
      PROVE  ResourcesStay
  <2>1. /\ deployment' = [deployment EXCEPT ![n] = Delivered(@)]
        /\ UNCHANGED configMap /\ ~UpToDate(deployment[n])
    BY <1>5 DEF DeliverDeployment
  <2>2. Stored(Delivered(deployment[n])) = Stored(deployment[n])
    BY <1>0, <2>1, VersionsStored
  <2> QED
    BY <1>0, <2>1, <2>2 DEF ResourcesStay
<1> QED
  BY <1>1, <1>2, <1>3, <1>4, <1>5

(* Whatever steps: the handler, a user, somebody who deletes a ConfigMap   *)
(* or a Deployment, or nobody who writes.                                  *)
LEMMA NextEffects ==
  ASSUME TypeOK, [Next]_vars
  PROVE  \/ HandlerMoves /\ HandlerDoes /\ (TagemonsStay \/ HandlerWrites)
         \/ /\ ResourcesStay /\ TagemonsStay
            /\ job' = NoJob \/ job' = job \/ \E t \in Tagemons : HandlerStarts(t)
         \/ \E t \in Tagemons : UserWrites(t)
         \/ ResourceRemoved
<1>1. CASE HandlerStep
  <2>1. HandlerDoes
    <3>1. CASE createStatus \/ addFinalizer \/ modifyStatus \/ removeFinalizer
      BY <3>1 DEF createStatus, addFinalizer, modifyStatus, removeFinalizer, At,
                  TagemonSteps, HandlerDoes
    <3> QED
      BY <1>1, <3>1, CreationDoes, ModificationDoes, DeletionDoes DEF HandlerStep
  <2> QED
    BY <1>1, <2>1, HandlerStepMoves, NextWrites
<1>2. CASE UserStep
  BY <1>2, UserStepWrites
<1>3. CASE CallFails \/ Crash
  <2>1. job' = NoJob
    BY <1>3 DEF CallFails, Crash, Retry
  <2>2. ResourcesStay /\ TagemonsStay
    BY <1>3, LearntOnly, ResourcesLearnt DEF CallFails, cluster
  <2> QED
    BY <2>1, <2>2
<1>4. ASSUME NEW t \in Tagemons, Reconcile(t)
      PROVE  /\ ResourcesStay /\ TagemonsStay
             /\ job' = NoJob \/ HandlerStarts(t)
  BY <1>4, ReconcileStarts, LearntOnly, ResourcesLearnt DEF Reconcile, cluster
<1>5. CASE UNCHANGED vars \/ \E t \in Tagemons : DeliverTagemon(t)
  <2>1. job' = job /\ ResourcesStay /\ TagemonsStay
    BY <1>5, LearntOnly, ResourcesLearnt DEF vars, DeliverTagemon
  <2> QED
    BY <2>1
<1>6. ASSUME NEW n \in Names, RemoveConfigMap(n)
      PROVE  ResourceRemoved
  <2>1. MaxRemovals # 0
    BY <1>6, BoundsAssumption DEF RemoveConfigMap, Spend, TypeOK
  <2>2. StoredBecomes(configMap', configMap, n, NoObject)
    BY <1>6, PutBecomes DEF RemoveConfigMap, TypeOK
  <2> QED
    BY <1>6, <2>1, <2>2 DEF RemoveConfigMap, ResourceRemoved
<1>7. ASSUME NEW n \in Names, RemoveDeployment(n)
      PROVE  ResourceRemoved
  <2>1. MaxRemovals # 0
    BY <1>7, BoundsAssumption DEF RemoveDeployment, Spend, TypeOK
  <2>2. StoredBecomes(deployment', deployment, n, NoObject)
    BY <1>7, PutBecomes DEF RemoveDeployment, TypeOK
  <2> QED
    BY <1>7, <2>1, <2>2 DEF RemoveDeployment, ResourceRemoved
<1>8. ASSUME NEW n \in Names,
             TouchDeployment(n) \/ DeliverConfigMap(n) \/ DeliverDeployment(n)
      PROVE  job' = job /\ ResourcesStay /\ TagemonsStay
  <2>1. UNCHANGED <<tagemon, job>>
    BY <1>8 DEF TouchDeployment, DeliverConfigMap, DeliverDeployment
  <2> QED
    BY <1>8, <2>1, LearntOnly, ResourcesLearnt
<1>9. CASE ClusterStep
  BY <1>6, <1>7, <1>8, <1>9 DEF ClusterStep
<1> QED
  BY <1>1, <1>2, <1>3, <1>4, <1>5, <1>9 DEF Next

-----------------------------------------------------------------------------
(* The resources a creation has made                                       *)

NamesDiffer == \A s, t \in Tagemons : s # t => NamesOf(s) \cap NamesOf(t) = {}

NobodyRemoves == MaxRemovals = 0

(* A creation under way made what its status will record.                  *)
CreatedInv ==
  job # NoJob =>
    LET status == job.tagemon.status
    IN /\ job.at \in {"createDeployment", "createStatus", "addFinalizer"} =>
            status.id \in Ids /\ Stored(configMap[status.configMap]) = NewConfigMap
       /\ job.at \in {"createStatus", "addFinalizer"} =>
            Stored(deployment[status.deployment]) = NewDeployment

ResourcesInv == TagemonInv /\ CreatedInv /\ OwnsWhatItRecords

(* The ConfigMap and the Deployment a creation has made stay its own until *)
(* it is recorded.                                                         *)
LEMMA CreatedKept ==
  ASSUME NobodyRemoves, TagemonInv, CreatedInv, [Next]_vars
  PROVE  CreatedInv'
<1>0. TypeOK /\ WorkingCopyInv
  BY DEF TagemonInv, IndInv
<1> SUFFICES ASSUME job' # NoJob,
                    job'.at \in {"createDeployment", "createStatus", "addFinalizer"}
             PROVE  /\ job'.tagemon.status.id \in Ids
                    /\ Stored(configMap'[job'.tagemon.status.configMap]) = NewConfigMap'
                    /\ job'.at \in {"createStatus", "addFinalizer"} =>
                         Stored(deployment'[job'.tagemon.status.deployment]) = NewDeployment'
  BY DEF CreatedInv
(* A handler that stays where it is.                                       *)
<1>1. ASSUME job # NoJob, job'.at = job.at, job'.tagemon = job.tagemon, ResourcesStay
      PROVE  /\ job'.tagemon.status.id \in Ids
             /\ Stored(configMap'[job'.tagemon.status.configMap]) = NewConfigMap'
             /\ job'.at \in {"createStatus", "addFinalizer"} =>
                  Stored(deployment'[job'.tagemon.status.deployment]) = NewDeployment'
  <2>1. NewConfigMap' = NewConfigMap /\ NewDeployment' = NewDeployment
    BY <1>1 DEF NewConfigMap, NewDeployment
  <2>2. /\ job.tagemon.status.configMap \in Names
        /\ job.at \in {"createStatus", "addFinalizer"} => job.tagemon.status.deployment \in Names
    BY <1>0, <1>1 DEF WorkingCopyInv
  <2> QED
    BY <1>1, <2>1, <2>2 DEF CreatedInv, ResourcesStay
<1>2. CASE HandlerMoves /\ HandlerDoes
  <2>0. job # NoJob /\ job.tagemon \in Tagemon /\ ResourceName \in Names
    BY <1>0, <1>2, WorkingCopyType DEF HandlerMoves
  <2>1. CASE job.at = "createConfigMap"
             /\ Moved("createDeployment", WithConfigMapName(job.tagemon, ResourceName))
    <3>1. Stored(configMap'[ResourceName]) = NewConfigMap
      BY <1>2, <2>1
         DEF HandlerDoes, ConfigMapCreated, DeploymentCreated, ConfigMapUpdated,
             DeploymentAnnotated, DeploymentUpdated, ConfigMapDeleted,
             DeploymentDeleted, TagemonSteps, StoredBecomes
    <3>2. /\ job'.tagemon.status.configMap = ResourceName
          /\ job'.tagemon.status.id = job.tagemon.status.id
          /\ job'.tagemon.spec = job.tagemon.spec
      BY <2>0, <2>1 DEF Moved, WithConfigMapName, Tagemon, Status
    <3>3. NewConfigMap' = NewConfigMap
      BY <3>2 DEF NewConfigMap
    <3>4. job.tagemon.status.id \in Ids
      BY <1>0, <2>0, <2>1 DEF WorkingCopyInv
    <3> QED
      BY <2>1, <3>1, <3>2, <3>3, <3>4 DEF Moved
  <2>2. CASE job.at = "createDeployment"
             /\ Moved("createStatus", [job.tagemon EXCEPT !.status.deployment = ResourceName])
    <3>1. /\ Stored(deployment'[ResourceName]) = NewDeployment
          /\ UNCHANGED configMap
      BY <1>2, <2>2
         DEF HandlerDoes, ConfigMapCreated, DeploymentCreated, ConfigMapUpdated,
             DeploymentAnnotated, DeploymentUpdated, ConfigMapDeleted,
             DeploymentDeleted, TagemonSteps, StoredBecomes
    <3>2. /\ job'.tagemon.status.configMap = job.tagemon.status.configMap
          /\ job'.tagemon.status.deployment = ResourceName
          /\ job'.tagemon.status.id = job.tagemon.status.id
          /\ job'.tagemon.spec = job.tagemon.spec
      BY <2>0, <2>2 DEF Moved, Tagemon, Status
    <3>3. NewConfigMap' = NewConfigMap /\ NewDeployment' = NewDeployment
      BY <3>2 DEF NewConfigMap, NewDeployment
    <3>4. /\ job.tagemon.status.id \in Ids
          /\ Stored(configMap[job.tagemon.status.configMap]) = NewConfigMap
      BY <2>0, <2>2 DEF CreatedInv
    <3> QED
      BY <2>2, <3>1, <3>2, <3>3, <3>4 DEF Moved
  <2>3. CASE job.at = "createStatus" /\ Moved("addFinalizer", Observed(job.tagemon))
    <3>1. UNCHANGED <<configMap, deployment>>
      BY <1>2, <2>3
         DEF HandlerDoes, ConfigMapCreated, DeploymentCreated, ConfigMapUpdated,
             DeploymentAnnotated, DeploymentUpdated, ConfigMapDeleted, DeploymentDeleted
    <3>2. /\ job'.tagemon.status.configMap = job.tagemon.status.configMap
          /\ job'.tagemon.status.deployment = job.tagemon.status.deployment
          /\ job'.tagemon.status.id = job.tagemon.status.id
          /\ job'.tagemon.spec = job.tagemon.spec
      BY <2>0, <2>3 DEF Moved, Observed, Tagemon, Status
    <3>3. NewConfigMap' = NewConfigMap /\ NewDeployment' = NewDeployment
      BY <3>2 DEF NewConfigMap, NewDeployment
    <3>4. /\ job.tagemon.status.id \in Ids
          /\ Stored(configMap[job.tagemon.status.configMap]) = NewConfigMap
          /\ Stored(deployment[job.tagemon.status.deployment]) = NewDeployment
      BY <2>0, <2>3 DEF CreatedInv
    <3> QED
      BY <3>1, <3>2, <3>3, <3>4
  <2>4. ASSUME NEW move \in ModifyMoves \cup DeleteMoves, Moved(move[2], job.tagemon)
        PROVE  FALSE
    BY <2>4 DEF Moved, ModifyMoves, DeleteMoves
  <2> QED
    BY <1>2, <2>1, <2>2, <2>3, <2>4 DEF HandlerMoves
<1>3. ASSUME NEW t \in Tagemons, HandlerStarts(t)
      PROVE  FALSE
  BY <1>3, Zenon DEF HandlerStarts
<1>4. CASE job' = job /\ ResourcesStay
  BY <1>1, <1>4
<1>5. ASSUME NEW t \in Tagemons, UserWrites(t)
      PROVE  /\ job # NoJob /\ job'.at = job.at /\ job'.tagemon = job.tagemon
             /\ ResourcesStay
  <2>1. job # NoJob
    BY <1>5 DEF UserWrites
  <2>2. job \in Job
    BY <1>0, <2>1 DEF TypeOK
  <2> QED
    BY <1>5, <2>1, <2>2 DEF UserWrites, Job, ResourcesStay
<1>6. ~ResourceRemoved
  BY DEF NobodyRemoves, ResourceRemoved
<1> QED
  BY <1>0, <1>1, <1>2, <1>3, <1>4, <1>5, <1>6, NextEffects

-----------------------------------------------------------------------------
(* The resources of a Tagemon                                              *)

(* The names in a recorded status are names its Tagemon may give.          *)
LEMMA RecordedFacts ==
  ASSUME TagemonInv, NEW t \in Tagemons, Recorded(t)
  PROVE  LET object == Stored(tagemon[t])
         IN /\ object \in Tagemon
            /\ object.status.configMap \in NamesOf(t) \cap Names
            /\ object.status.deployment \in NamesOf(t) \cap Names
<1>1. TypeOK /\ VersionsInv
  BY DEF TagemonInv, IndInv
<1>2. RecordedVersion(Stored(tagemon[t]))
  BY RecordedStored
<1>3. Stored(tagemon[t]) \in Range(tagemon[t]) \ {NoObject} /\ Stored(tagemon[t]) \in Tagemon
  BY <1>1, <1>2, RangeType DEF RecordedVersion
<1>4. WellRecorded(t, Stored(tagemon[t]))
  BY <1>1, <1>3 DEF VersionsInv
<1> QED
  BY <1>2, <1>3, <1>4, NamesAssumption DEF RecordedVersion, WellRecorded, RecordsResources

(* The ConfigMap a Tagemon records is written by its own handleModify and  *)
(* by nobody else.                                                         *)
ConfigMapKept(t) ==
  LET name == Stored(tagemon[t]).status.configMap
      stored == Stored(configMap[name])
  IN \/ Stored(configMap'[name]) = stored
     \/ /\ job # NoJob /\ job.name = t /\ job.at = "updateConfigMap"
        /\ stored \in ConfigMap
        /\ Stored(configMap'[name]) =
             [stored EXCEPT !.config = generateYACEConfig(job.tagemon.spec)]

DeploymentKept(t) ==
  LET name == Stored(tagemon[t]).status.deployment
      stored == Stored(deployment[name])
  IN \/ Stored(deployment'[name]) = stored
     \/ /\ job # NoJob /\ job.name = t /\ stored \in Deployment
        /\ \/ /\ job.at = "annotateDeployment" /\ job.changed
              /\ \E stamp \in Nat :
                   /\ stamp <= stored.restarted + 1
                   /\ Stored(deployment'[name]) = [stored EXCEPT !.restarted = stamp]
           \/ /\ job.at = "updateDeployment"
              /\ Stored(deployment'[name]) =
                   [stored EXCEPT !.resources = job.tagemon.spec.resources]

(* With names that differ, no step but the handler's own updates touches   *)
(* what a recorded Tagemon owns.                                           *)
LEMMA OwnResourcesOnly ==
  ASSUME NamesDiffer, NobodyRemoves, TagemonInv, OwnsWhatItRecords, [Next]_vars,
         NEW t \in Tagemons, Recorded(t)
  PROVE  ConfigMapKept(t) /\ DeploymentKept(t)
<1> DEFINE status == Stored(tagemon[t]).status
<1>0. TypeOK /\ CopyInv
  BY DEF TagemonInv, IndInv
<1>1. /\ status.configMap \in NamesOf(t) \cap Names
      /\ status.deployment \in NamesOf(t) \cap Names
  BY RecordedFacts
<1>2. /\ Stored(configMap[status.configMap]) # NoObject
      /\ Stored(deployment[status.deployment]) # NoObject
  BY DEF OwnsWhatItRecords
<1>3. CASE ResourcesStay
  BY <1>1, <1>3 DEF ResourcesStay, ConfigMapKept, DeploymentKept
<1>4. CASE \E s \in Tagemons : UserWrites(s)
  BY <1>4 DEF UserWrites, ConfigMapKept, DeploymentKept
<1>5. CASE HandlerMoves /\ HandlerDoes
  <2>0. job # NoJob /\ job.name \in Tagemons /\ WellRecorded(job.name, job.tagemon)
    BY <1>0, <1>5, WorkingCopyType DEF HandlerMoves, CopyInv, WellCopied
  <2>1. /\ ItsConfigMap \in Names => ItsConfigMap \in NamesOf(job.name)
        /\ ItsDeployment \in Names => ItsDeployment \in NamesOf(job.name)
    BY <2>0, NamesAssumption DEF WellRecorded, ItsConfigMap, ItsDeployment
  <2>2. job.name # t =>
          /\ ItsConfigMap \in Names => ItsConfigMap # status.configMap
          /\ ItsDeployment \in Names => ItsDeployment # status.deployment
    BY <1>1, <2>0, <2>1 DEF NamesDiffer
  <2>3. CASE UNCHANGED <<configMap, deployment>>
    BY <2>3 DEF ConfigMapKept, DeploymentKept
  <2>4. CASE ConfigMapCreated
    BY <1>1, <1>2, <2>4 DEF ConfigMapCreated, StoredBecomes, ConfigMapKept, DeploymentKept
  <2>5. CASE DeploymentCreated
    BY <1>1, <1>2, <2>5 DEF DeploymentCreated, StoredBecomes, ConfigMapKept, DeploymentKept
  <2>6. CASE ConfigMapUpdated
    <3>1. CASE ItsConfigMap = status.configMap
      BY <1>1, <2>0, <2>2, <2>6, <3>1
         DEF ConfigMapUpdated, StoredBecomes, ConfigMapKept, DeploymentKept
    <3>2. CASE ItsConfigMap # status.configMap
      BY <1>1, <2>6, <3>2
         DEF ConfigMapUpdated, StoredBecomes, ConfigMapKept, DeploymentKept
    <3> QED
      BY <3>1, <3>2
  <2>7. CASE DeploymentAnnotated
    <3>1. CASE ItsDeployment = status.deployment
      BY <1>1, <2>0, <2>2, <2>7, <3>1
         DEF DeploymentAnnotated, StoredBecomes, ConfigMapKept, DeploymentKept
    <3>2. CASE ItsDeployment # status.deployment
      BY <1>1, <2>7, <3>2
         DEF DeploymentAnnotated, StoredBecomes, ConfigMapKept, DeploymentKept
    <3> QED
      BY <3>1, <3>2
  <2>8. CASE DeploymentUpdated
    <3>1. CASE ItsDeployment = status.deployment
      BY <1>1, <2>0, <2>2, <2>8, <3>1
         DEF DeploymentUpdated, StoredBecomes, ConfigMapKept, DeploymentKept
    <3>2. CASE ItsDeployment # status.deployment
      BY <1>1, <2>8, <3>2
         DEF DeploymentUpdated, StoredBecomes, ConfigMapKept, DeploymentKept
    <3> QED
      BY <3>1, <3>2
  <2>9. CASE ConfigMapDeleted \/ DeploymentDeleted
    <3>1. job.name # t
      BY <1>0, <2>0, <2>9
         DEF CopyInv, WellCopied, DeleteSteps, ConfigMapDeleted, DeploymentDeleted
    <3> QED
      BY <1>1, <2>2, <2>9, <3>1
         DEF ConfigMapDeleted, DeploymentDeleted, StoredBecomes, ConfigMapKept, DeploymentKept
  <2> QED
    BY <1>5, <2>3, <2>4, <2>5, <2>6, <2>7, <2>8, <2>9 DEF HandlerDoes
<1> QED
  BY <1>0, <1>3, <1>4, <1>5, NextEffects DEF ResourceRemoved, NobodyRemoves

(* Every step keeps OwnsWhatItRecords.                                     *)
LEMMA OwnsKept ==
  ASSUME NamesDiffer, NobodyRemoves, ResourcesInv, [Next]_vars
  PROVE  OwnsWhatItRecords'
<1>0. /\ TypeOK /\ CopyInv /\ CurrentInv /\ WorkingCopyInv
      /\ TagemonInv /\ CreatedInv /\ OwnsWhatItRecords
  BY DEF ResourcesInv, TagemonInv, IndInv
<1> DEFINE
      Owned(versions, objects, status) ==
        /\ Stored(versions[status.configMap]) # NoObject
        /\ Stored(versions[status.configMap]).id = status.id
        /\ Stored(objects[status.deployment]) # NoObject
        /\ Stored(objects[status.deployment]).id = status.id
<1> SUFFICES ASSUME NEW t \in Tagemons, RecordedVersion(Stored(tagemon'[t]))
             PROVE  Owned(configMap', deployment', Stored(tagemon'[t]).status)
  BY DEF OwnsWhatItRecords, RecordedVersion, Recorded, Live
<1>1. Recorded(t) => Owned(configMap, deployment, Stored(tagemon[t]).status)
  BY <1>0 DEF OwnsWhatItRecords
<1>2. ASSUME Recorded(t), Stored(tagemon'[t]).status = Stored(tagemon[t]).status
      PROVE  Owned(configMap', deployment', Stored(tagemon'[t]).status)
  <2> DEFINE status == Stored(tagemon[t]).status
             config == Stored(configMap[status.configMap])
             pods == Stored(deployment[status.deployment])
  <2>1. ConfigMapKept(t) /\ DeploymentKept(t)
    BY <1>0, <1>2, OwnResourcesOnly
  <2>2. config # NoObject /\ config.id = status.id /\ pods # NoObject /\ pods.id = status.id
    BY <1>1, <1>2
  <2>3. /\ Stored(configMap'[status.configMap]) # NoObject
        /\ Stored(configMap'[status.configMap]).id = status.id
    <3>1. CASE Stored(configMap'[status.configMap]) = config
      BY <2>2, <3>1
    <3>2. ASSUME config \in ConfigMap, NEW new,
                 Stored(configMap'[status.configMap]) = [config EXCEPT !.config = new]
          PROVE  /\ Stored(configMap'[status.configMap]).id = config.id
                 /\ new \in Config => Stored(configMap'[status.configMap]) \in ConfigMap
      BY <3>2 DEF ConfigMap
    <3>3. job # NoJob => generateYACEConfig(job.tagemon.spec) \in Config
      BY <1>0, WorkingCopyType
    <3> QED
      BY <2>1, <2>2, <3>1, <3>2, <3>3, ObjectsAssumption DEF ConfigMapKept
  <2>4. /\ Stored(deployment'[status.deployment]) # NoObject
        /\ Stored(deployment'[status.deployment]).id = status.id
    <3>1. CASE Stored(deployment'[status.deployment]) = pods
      BY <2>2, <3>1
    <3>2. ASSUME pods \in Deployment, NEW stamp \in Nat,
                 Stored(deployment'[status.deployment]) = [pods EXCEPT !.restarted = stamp]
          PROVE  /\ Stored(deployment'[status.deployment]).id = pods.id
                 /\ Stored(deployment'[status.deployment]) \in Deployment
      BY <3>2 DEF Deployment
    <3>3. ASSUME pods \in Deployment, job # NoJob,
                 Stored(deployment'[status.deployment]) =
                   [pods EXCEPT !.resources = job.tagemon.spec.resources]
          PROVE  /\ Stored(deployment'[status.deployment]).id = pods.id
                 /\ Stored(deployment'[status.deployment]) \in Deployment
      <4>1. job.tagemon.spec.resources \in Resources
        BY <1>0, <3>3, WorkingCopyType, SpecsAssumption DEF Tagemon
      <4> QED
        BY <3>3, <4>1 DEF Deployment
    <3> QED
      BY <2>1, <2>2, <3>1, <3>2, <3>3, ObjectsAssumption DEF DeploymentKept
  <2> QED
    BY <1>2, <2>3, <2>4
<1>3. CASE TagemonsStay
  BY <1>2, <1>3, RecordedStored DEF TagemonsStay
<1>4. CASE HandlerWrites
  <2>1. PICK version : TagemonWritten(job.name, version) /\ HandlerVersion(version)
    BY <1>4 DEF HandlerWrites
  <2>2. CASE t # job.name
    BY <1>2, <2>1, <2>2, RecordedStored DEF TagemonWritten
  <2>3. CASE t = job.name
    <3>1. /\ job # NoJob /\ version = Stored(tagemon'[t]) /\ version # NoObject
          /\ UNCHANGED <<configMap, deployment>>
      BY <1>4, <2>1, <2>3 DEF HandlerWrites, TagemonWritten, RecordedVersion
    <3>2. /\ version.status.configMap = job.tagemon.status.configMap
          /\ version.status.deployment = job.tagemon.status.deployment
          /\ version.status.id = job.tagemon.status.id
          /\ job.at \in {"createStatus", "addFinalizer", "modifyStatus"}
      BY <1>0, <2>1, <3>1, HandlerVersionFacts
    <3>3. CASE job.at \in {"createStatus", "addFinalizer"}
      <4>1. /\ Stored(configMap[job.tagemon.status.configMap]) = NewConfigMap
            /\ Stored(deployment[job.tagemon.status.deployment]) = NewDeployment
            /\ job.tagemon.status.configMap \in Names
            /\ job.tagemon.status.deployment \in Names
        BY <1>0, <3>1, <3>3 DEF CreatedInv, WorkingCopyInv
      <4>2. NewConfigMap # NoObject /\ NewDeployment # NoObject
        <5>1. job.tagemon \in Tagemon /\ generateYACEConfig(job.tagemon.spec) \in Config
          BY <1>0, <3>1, WorkingCopyType
        <5>2. job.tagemon.status.id \in Ids
          BY <1>0, <3>1, <3>3 DEF CreatedInv
        <5> QED
          BY <5>1, <5>2, ObjectsAssumption, SpecsAssumption
             DEF NewConfigMap, NewDeployment, ConfigMap, Deployment, Tagemon
      <4> QED
        BY <3>1, <3>2, <4>1, <4>2 DEF NewConfigMap, NewDeployment
    <3>4. CASE job.at = "modifyStatus"
      <4>1. Stored(tagemon[t]) = job.tagemon /\ Stored(tagemon[t]) # NoObject
        BY <1>0, <1>4, <2>3, <3>4 DEF CurrentInv, HandlerWrites, Unrecorded
      <4>2. Recorded(t)
        BY <1>0, <3>1, <3>4, <4>1
           DEF CopyInv, WellCopied, ModifySteps, Recorded, Live
      <4> QED
        BY <1>1, <3>1, <3>2, <4>1, <4>2
    <3> QED
      BY <3>2, <3>3, <3>4
  <2> QED
    BY <2>2, <2>3
<1>5. ASSUME NEW s \in Tagemons, UserWrites(s)
      PROVE  Owned(configMap', deployment', Stored(tagemon'[t]).status)
  <2>1. PICK version : TagemonWritten(s, version) /\ UserVersion(Stored(tagemon[s]), version)
    BY <1>5 DEF UserWrites
  <2>2. CASE t # s
    BY <1>2, <2>1, <2>2, RecordedStored DEF TagemonWritten
  <2>3. CASE t = s
    <3>1. Stored(tagemon[s]) \in Tagemon \cup {NoObject} /\ version = Stored(tagemon'[t])
      BY <1>0, <2>1, <2>3, RangeType DEF TagemonWritten
    <3>2. RecordedVersion(Stored(tagemon[t])) /\ version # NoObject
      BY <2>1, <2>3, <3>1, UserVersionFacts DEF RecordedVersion
    <3>3. version.status = Stored(tagemon[t]).status
      BY <2>1, <2>3, <3>1, <3>2, UserVersionFacts
    <3> QED
      BY <1>2, <3>1, <3>2, <3>3, RecordedStored
  <2> QED
    BY <2>2, <2>3
<1> QED
  BY <1>0, <1>3, <1>4, <1>5, NextWrites

(* The working copy, the versions of every Tagemon and the resources       *)
(* agree at every moment.                                                  *)
THEOREM ResourcesInvariance ==
  ASSUME NamesDiffer, NobodyRemoves
  PROVE  Spec => []ResourcesInv
<1>1. Init => CreatedInv /\ OwnsWhatItRecords
  BY DEF Init, CreatedInv, OwnsWhatItRecords, Recorded, Live, Stored
<1>2. TagemonInv /\ TagemonInv' /\ CreatedInv /\ OwnsWhatItRecords /\ [Next]_vars
        => CreatedInv' /\ OwnsWhatItRecords'
  BY CreatedKept, OwnsKept DEF ResourcesInv
<1>3. TagemonInv /\ CreatedInv /\ OwnsWhatItRecords => ResourcesInv
  BY DEF ResourcesInv
<1>4. Spec => []TagemonInv
  BY TagemonInvariance
<1> QED
  BY <1>1, <1>2, <1>3, <1>4, PTL DEF Spec

(* With names of their own and nobody who deletes them by hand, Tagemons   *)
(* own the ConfigMap and the Deployment their status names: they exist and *)
(* carry the uuid handleCreate drew for this Tagemon.  No conflict, lost   *)
(* reply, crash, stale cache, deletion or second creation under the same   *)
(* name makes handleCreate record what another creation made, or           *)
(* handleDelete remove what another Tagemon owns.                          *)
THEOREM Ownership ==
  ASSUME NamesDiffer, NobodyRemoves
  PROVE  Spec => []OwnsWhatItRecords
<1>1. ResourcesInv => OwnsWhatItRecords
  BY DEF ResourcesInv
<1> QED
  BY <1>1, ResourcesInvariance, PTL

-----------------------------------------------------------------------------
(* The order of the versions of a Tagemon                                  *)

(* What a later version of a recorded Tagemon keeps of an earlier one.     *)
Follows(earlier, later) ==
  /\ earlier.generation <= later.generation
  /\ earlier.generation = later.generation => earlier.spec = later.spec
  /\ earlier.status.observed # 0 =>
       /\ later.status.observed # 0
       /\ later.status.configMap = earlier.status.configMap
       /\ later.status.deployment = earlier.status.deployment

Successive(versions) ==
  \A i, j \in DOMAIN versions : i <= j => Follows(versions[i], versions[j])

(* Every version follows itself and what its predecessors follow.          *)
LEMMA FollowsOrder ==
  ASSUME NEW a \in Tagemon, NEW b \in Tagemon, NEW c \in Tagemon
  PROVE  /\ Follows(a, a)
         /\ Follows(a, b) /\ Follows(b, c) => Follows(a, c)
<1>1. a.generation \in Nat /\ b.generation \in Nat /\ c.generation \in Nat
  BY DEF Tagemon
<1> QED
  BY <1>1 DEF Follows

(* Everything follows what the cache holds, and what is stored follows     *)
(* everything.                                                             *)
LEMMA SuccessiveEnds ==
  ASSUME NEW Object, NEW versions \in Versions(Object), Successive(versions),
         NEW version \in Range(versions)
  PROVE  Follows(Cached(versions), version) /\ Follows(version, Stored(versions))
<1>1. versions \in Seq(Object \cup {NoObject}) /\ versions # << >>
  BY DEF Versions
<1>2. /\ Len(versions) \in Nat \ {0}
      /\ DOMAIN versions = 1..Len(versions)
      /\ Cached(versions) = versions[1]
      /\ Stored(versions) = versions[Len(versions)]
  BY <1>1, EmptySeq DEF Cached, Stored
<1>3. PICK i \in DOMAIN versions : version = versions[i]
  BY DEF Range
<1>4. /\ 1 \in DOMAIN versions /\ Len(versions) \in DOMAIN versions
      /\ 1 <= i /\ i <= Len(versions)
  BY <1>2
<1> QED
  BY <1>2, <1>3, <1>4 DEF Successive

(* What a cache learns leaves the versions in order.                       *)
LEMMA SuccessiveLearnt ==
  ASSUME NEW versions \in Versions(Tagemon), Successive(versions)
  PROVE  /\ Successive(Relisted(versions))
         /\ ~UpToDate(versions) => Successive(Delivered(versions))
<1>1. versions \in Seq(Tagemon \cup {NoObject}) /\ versions # << >>
  BY DEF Versions
<1>2. /\ Len(versions) \in Nat \ {0}
      /\ DOMAIN versions = 1..Len(versions)
      /\ Len(Tail(versions)) = Len(versions) - 1
      /\ DOMAIN Tail(versions) = 1..(Len(versions) - 1)
      /\ \A i \in 1..(Len(versions) - 1) : Tail(versions)[i] = versions[i + 1]
  BY <1>1, EmptySeq
<1>3. Successive(Relisted(versions))
  <2>1. Follows(versions[Len(versions)], versions[Len(versions)])
    BY <1>2 DEF Successive
  <2> QED
    BY <2>1 DEF Relisted, Successive, Stored
<1>4. Successive(Delivered(versions))
  <2>1. ASSUME NEW i \in DOMAIN Tail(versions), NEW j \in DOMAIN Tail(versions), i <= j
        PROVE  Follows(Tail(versions)[i], Tail(versions)[j])
    <3>1. i + 1 \in DOMAIN versions /\ j + 1 \in DOMAIN versions /\ i + 1 <= j + 1
      BY <1>2, <2>1
    <3>2. Follows(versions[i + 1], versions[j + 1])
      BY <3>1 DEF Successive
    <3> QED
      BY <1>2, <3>2
  <2> QED
    BY <2>1 DEF Successive, Delivered
<1> QED
  BY <1>3, <1>4

(* Nor does a write of what follows the stored version disturb the order.  *)
LEMMA SuccessiveWritten ==
  ASSUME NEW versions \in Versions(Tagemon), Successive(versions),
         NoObject \notin Range(versions),
         NEW version \in Tagemon, Follows(Stored(versions), version)
  PROVE  Successive(Written(versions, version))
<1>1. versions \in Seq(Tagemon \cup {NoObject})
  BY DEF Versions
<1> DEFINE longer == Append(versions, version)
<1>2. /\ Len(versions) \in Nat
      /\ DOMAIN versions = 1..Len(versions)
      /\ DOMAIN longer = 1..(Len(versions) + 1)
      /\ \A i \in 1..Len(versions) : longer[i] = versions[i]
      /\ longer[Len(versions) + 1] = version
  BY <1>1
<1> HIDE DEF longer
<1>3. ASSUME NEW i \in DOMAIN longer, NEW j \in DOMAIN longer, i <= j
      PROVE  Follows(longer[i], longer[j])
  <2>1. CASE i = Len(versions) + 1
    <3>1. j = i
      BY <1>2, <1>3, <2>1
    <3> QED
      BY <1>2, <2>1, <3>1, FollowsOrder
  <2>2. CASE j = Len(versions) + 1 /\ i # Len(versions) + 1
    <3>1. i \in DOMAIN versions
      BY <1>2, <1>3, <2>2
    <3>2. versions[i] \in Range(versions)
      BY <3>1 DEF Range
    <3>3. versions[i] \in Tagemon /\ Stored(versions) \in Tagemon
      BY <1>1, <1>2, <3>1, <3>2, VersionsEnds
    <3>4. Follows(versions[i], Stored(versions))
      BY <3>2, SuccessiveEnds
    <3>5. Follows(versions[i], version)
      BY <3>3, <3>4, FollowsOrder
    <3> QED
      BY <1>2, <2>2, <3>1, <3>5
  <2>3. CASE j # Len(versions) + 1
    <3>1. i \in DOMAIN versions /\ j \in DOMAIN versions
      BY <1>2, <1>3, <2>3
    <3>2. Follows(versions[i], versions[j])
      BY <1>3, <3>1 DEF Successive
    <3> QED
      BY <1>2, <3>1, <3>2
  <2> QED
    BY <2>1, <2>2, <2>3
<1>4. Successive(longer)
  BY <1>3 DEF Successive
<1> QED
  BY <1>4 DEF Written, longer

-----------------------------------------------------------------------------
(* Restarts and generations                                                *)

(* The restart the handler under way still owes a Tagemon.                 *)
Pending(handler, t) ==
  IF handler # NoJob /\ handler.name = t /\ handler.at = "annotateDeployment"
       /\ handler.changed
  THEN 1 ELSE 0

(* There is a generation for every restart, and one more for the restart   *)
(* that will come if the configuration is not the version's.               *)
Room(config, restarts, version) ==
  /\ restarts < version.generation
  /\ config # generateYACEConfig(version.spec) => restarts + 1 < version.generation

(* Room for a version is room for those that follow.                       *)
LEMMA RoomLater ==
  ASSUME NEW config, NEW restarts \in Nat, NEW fewer \in Nat, fewer <= restarts,
         NEW earlier \in Tagemon, NEW later \in Tagemon,
         Follows(earlier, later), Room(config, restarts, earlier)
  PROVE  Room(config, fewer, later)
<1>1. earlier.generation \in Nat /\ later.generation \in Nat
  BY DEF Tagemon
<1>2. fewer < later.generation
  BY <1>1 DEF Follows, Room
<1>3. CASE earlier.generation = later.generation
  BY <1>1, <1>2, <1>3 DEF Follows, Room
<1>4. CASE earlier.generation # later.generation
  <2>1. fewer + 1 < later.generation
    BY <1>1, <1>4 DEF Follows, Room
  <2> QED
    BY <1>2, <2>1 DEF Room
<1> QED
  BY <1>3, <1>4

(* A configuration that is changed to that of a version leaves room for    *)
(* the restart that follows.                                               *)
LEMMA RoomChanged ==
  ASSUME NEW config, NEW restarts \in Nat, NEW more \in Nat, more <= restarts + 1,
         NEW copy \in Tagemon, NEW later \in Tagemon, Follows(copy, later),
         Room(config, restarts, copy), config # generateYACEConfig(copy.spec)
  PROVE  Room(generateYACEConfig(copy.spec), more, later)
<1>1. copy.generation \in Nat /\ later.generation \in Nat
  BY DEF Tagemon
<1>2. restarts + 1 < copy.generation
  BY DEF Room
<1>3. Room(generateYACEConfig(copy.spec), more, copy)
  BY <1>1, <1>2 DEF Room
<1> QED
  BY <1>3, RoomLater

-----------------------------------------------------------------------------
(* The invariant                                                           *)

(* All versions in sight of a recorded Tagemon, and the copy a handler     *)
(* modifies it by, leave room for the restarts there were and will be.     *)
Counted(t, versions, config, restarts, handler) ==
  /\ NoObject \notin Range(versions) /\ Successive(versions)
  /\ \A version \in Range(versions) : Room(config, restarts, version)
  /\ handler # NoJob /\ handler.name = t /\ handler.at \in ModifySteps =>
       /\ Room(config, restarts, handler.tagemon)
       /\ \A version \in Range(versions) : Follows(handler.tagemon, version)

ConfigOfIts(objects, status) == Stored(objects[status.configMap]).config

RestartsOfIts(objects, status) == Stored(objects[status.deployment]).restarted

RestartsInv ==
  \A t \in Tagemons : Recorded(t) =>
    LET status == Stored(tagemon[t]).status
    IN Counted(t, tagemon[t], ConfigOfIts(configMap, status),
               RestartsOfIts(deployment, status) + Pending(job, t), job)

(* While a creation may still be recorded, all versions in sight are of    *)
(* its generation and none was recorded.                                   *)
AloneInv ==
  job # NoJob /\ job.at \in Unrecorded /\ job.current =>
    \A version \in Range(tagemon[job.name]) :
      /\ version # NoObject
      /\ version.generation = job.tagemon.generation
      /\ version.status.observed = 0

CountingInv == ResourcesInv /\ AloneInv /\ RestartsInv

-----------------------------------------------------------------------------
(* Steps                                                                   *)

(* Every step keeps what a creation that may still be recorded sees.       *)
LEMMA AloneKept ==
  ASSUME TagemonInv, AloneInv, [Next]_vars
  PROVE  AloneInv'
<1>0. TypeOK
  BY DEF TagemonInv, IndInv
<1> DEFINE
      Alone(copy, versions) ==
        \A version \in Range(versions) :
          /\ version # NoObject
          /\ version.generation = copy.generation
          /\ version.status.observed = 0
<1>1. SUFFICES ASSUME job' # NoJob, job'.at \in Unrecorded, job'.current
               PROVE  Alone(job'.tagemon, tagemon'[job'.name])
  BY DEF AloneInv
<1>2. ASSUME job # NoJob, job.at \in Unrecorded, job.current
      PROVE  Alone(job.tagemon, tagemon[job.name])
  BY <1>2 DEF AloneInv
<1>3. CASE job' = job /\ TagemonsStay
  <2>1. job # NoJob /\ job.name \in Tagemons
    BY <1>0, <1>1, <1>3, WorkingCopyType
  <2>2. Range(tagemon'[job.name]) \subseteq Range(tagemon[job.name])
    BY <1>3, <2>1 DEF TagemonsStay
  <2> QED
    BY <1>1, <1>2, <1>3, <2>1, <2>2
<1>4. ASSUME NEW t \in Tagemons, HandlerStarts(t)
      PROVE  Alone(job'.tagemon, tagemon'[job'.name])
  <2> DEFINE object == Cached(tagemon[t])
  <2>1. object \in Tagemon /\ object # NoObject
    BY <1>4, StartFacts, ObjectsAssumption
  <2>2. job'.name = t /\ UpToDate(tagemon[t]) /\ UNCHANGED tagemon
    BY <1>1, <1>4 DEF HandlerStarts, cluster
  <2>3. Range(tagemon[t]) = {object}
    <3>1. tagemon[t] \in Seq(Tagemon \cup {NoObject}) /\ Len(tagemon[t]) = 1
      BY <1>0, <2>2 DEF TypeOK, Versions, UpToDate
    <3> QED
      BY <3>1 DEF Cached, Range
  <2>4. /\ object.status.observed = 0
        /\ \E id \in Ids : job'.tagemon = [object EXCEPT !.status.id = id]
    BY <1>1, <1>4 DEF HandlerStarts, Unrecorded
  <2> HIDE DEF object
  <2>5. job'.tagemon.generation = object.generation
    BY <2>1, <2>4 DEF Tagemon
  <2> QED
    BY <2>1, <2>2, <2>3, <2>4, <2>5
<1>5. CASE HandlerMoves
  <2>0. /\ job # NoJob /\ job.tagemon \in Tagemon
        /\ job'.name = job.name /\ job.current
    BY <1>0, <1>1, <1>5, WorkingCopyType DEF HandlerMoves, Moved
  <2>1. CASE /\ job.at = "createConfigMap" /\ UNCHANGED tagemon
             /\ Moved("createDeployment", WithConfigMapName(job.tagemon, ResourceName))
    <3>1. job'.tagemon.generation = job.tagemon.generation
      BY <2>0, <2>1 DEF Moved, WithConfigMapName, Tagemon
    <3> QED
      BY <1>2, <2>0, <2>1, <3>1 DEF Unrecorded
  <2>2. CASE /\ job.at = "createDeployment" /\ UNCHANGED tagemon
             /\ Moved("createStatus", [job.tagemon EXCEPT !.status.deployment = ResourceName])
    <3>1. job'.tagemon.generation = job.tagemon.generation
      BY <2>0, <2>2 DEF Moved, Tagemon
    <3> QED
      BY <1>2, <2>0, <2>2, <3>1 DEF Unrecorded
  <2>3. job'.at # "addFinalizer"
    BY <1>1 DEF Unrecorded
  <2>4. ASSUME NEW move \in ModifyMoves \cup DeleteMoves
        PROVE  ~Moved(move[2], job.tagemon)
    <3>1. move[2] \notin Unrecorded
      BY <2>4 DEF ModifyMoves, DeleteMoves, Unrecorded
    <3> QED
      BY <1>1, <3>1 DEF Moved
  <2> QED
    BY <1>1, <1>5, <2>1, <2>2, <2>3, <2>4 DEF HandlerMoves, Moved
<1>6. ASSUME NEW t \in Tagemons, UserWrites(t)
      PROVE  Alone(job'.tagemon, tagemon'[job'.name])
  <2>1. job # NoJob /\ job \in Job /\ job.name \in Tagemons
    <3>1. job # NoJob
      BY <1>1, <1>6 DEF UserWrites
    <3> QED
      BY <1>0, <3>1, WorkingCopyType DEF TypeOK
  <2>2. t # job.name /\ job' = job
    BY <1>1, <1>6, <2>1 DEF UserWrites, Job
  <2>3. tagemon'[job.name] = tagemon[job.name]
    BY <1>6, <2>1, <2>2 DEF UserWrites, TagemonWritten
  <2> QED
    BY <1>1, <1>2, <2>1, <2>2, <2>3
<1> QED
  BY <1>0, <1>1, <1>3, <1>4, <1>5, <1>6, NextJob

(* The status of a Tagemon is reported for the first time.                 *)
StatusCreated(t) ==
  /\ job # NoJob /\ job.at = "createStatus" /\ job.name = t /\ job.current
  /\ Stored(tagemon'[t]) = Observed(job.tagemon)
  /\ UNCHANGED <<configMap, deployment>>
  /\ job' = NoJob \/ job'.at = "addFinalizer"

(* Where a recorded Tagemon comes from: it was recorded before, or its     *)
(* creation has just been.                                                 *)
LEMMA RecordedBefore ==
  ASSUME TagemonInv, [Next]_vars, NEW t \in Tagemons, RecordedVersion(Stored(tagemon'[t]))
  PROVE  \/ Recorded(t) /\ Follows(Stored(tagemon[t]), Stored(tagemon'[t]))
         \/ StatusCreated(t)
<1>0. TypeOK /\ CopyInv /\ CurrentInv /\ WorkingCopyInv
  BY DEF TagemonInv, IndInv
<1> DEFINE old == Stored(tagemon[t])
           new == Stored(tagemon'[t])
<1>1. old \in Tagemon \cup {NoObject}
  BY <1>0, RangeType
<1>2. ASSUME old = new
      PROVE  Recorded(t) /\ Follows(old, new)
  <2>1. old \in Tagemon
    BY <1>1, <1>2 DEF RecordedVersion
  <2> QED
    BY <1>2, <2>1, RecordedStored, FollowsOrder
<1>3. CASE TagemonsStay
  BY <1>2, <1>3 DEF TagemonsStay
<1>4. CASE HandlerMoves /\ HandlerWrites
  <2>1. PICK version : TagemonWritten(job.name, version) /\ HandlerVersion(version)
    BY <1>4 DEF HandlerWrites
  <2>2. CASE t # job.name
    BY <1>2, <2>1, <2>2 DEF TagemonWritten
  <2>3. CASE t = job.name
    <3>1. /\ job # NoJob /\ version = new /\ new # NoObject /\ job.tagemon \in Tagemon
          /\ UNCHANGED <<configMap, deployment>> /\ job.current
      BY <1>0, <1>4, <2>1, <2>3, WorkingCopyType
         DEF HandlerWrites, TagemonWritten, RecordedVersion
    <3>2. /\ new.spec = job.tagemon.spec
          /\ new.generation = job.tagemon.generation
          /\ new.status.observed > 0
          /\ new.status.configMap = job.tagemon.status.configMap
          /\ new.status.deployment = job.tagemon.status.deployment
          /\ job.at \in {"createStatus", "addFinalizer", "modifyStatus"}
      BY <2>1, <3>1, HandlerVersionFacts
    <3>3. CASE job.at = "createStatus"
      <4>1. new = Observed(job.tagemon)
        BY <2>1, <3>1, <3>3 DEF HandlerVersion
      <4>2. job' = NoJob \/ job'.at = "addFinalizer"
        BY <1>4, <3>3 DEF HandlerMoves, Moved, ModifyMoves, DeleteMoves
      <4> QED
        BY <2>3, <3>1, <3>3, <4>1, <4>2 DEF StatusCreated
    <3>4. CASE job.at \in {"addFinalizer", "modifyStatus"}
      <4>1. old = job.tagemon
        BY <1>0, <2>3, <3>1, <3>4 DEF CurrentInv, Unrecorded
      <4>2. ~old.deleting /\ old.status.observed > 0
        BY <1>0, <3>1, <3>4, <4>1
           DEF CopyInv, WellCopied, CreateSteps, ModifySteps, WorkingCopyInv
      <4>3. Recorded(t)
        BY <3>1, <4>1, <4>2, RecordedStored, ObjectsAssumption DEF RecordedVersion
      <4>4. new.generation \in Nat /\ new.status.observed \in Nat
        BY <3>1, <3>2, <2>1, <1>0, WorkingCopyType
           DEF HandlerVersion, Tagemon, Status, Observed
      <4> HIDE DEF old, new
      <4>5. Follows(old, new)
        BY <3>2, <4>1, <4>4 DEF Follows
      <4> QED
        BY <4>3, <4>5 DEF old, new
    <3> QED
      BY <3>2, <3>3, <3>4
  <2> QED
    BY <2>2, <2>3
<1>5. ASSUME NEW s \in Tagemons, UserWrites(s)
      PROVE  Recorded(t) /\ Follows(old, new)
  <2>1. PICK version : TagemonWritten(s, version) /\ UserVersion(Stored(tagemon[s]), version)
    BY <1>5 DEF UserWrites
  <2>2. CASE t # s
    BY <1>2, <2>1, <2>2 DEF TagemonWritten
  <2>3. CASE t = s
    <3>1. version = new /\ UserVersion(old, new)
      BY <2>1, <2>3 DEF TagemonWritten
    <3>2. RecordedVersion(old) /\ new.status = old.status /\ old \in Tagemon
      BY <1>1, <3>1, UserVersionFacts DEF RecordedVersion
    <3>3. CASE new = old
      BY <1>2, <3>3
    <3>4. ASSUME NEW spec, new = [old EXCEPT !.spec = spec, !.generation = @ + 1]
          PROVE  Follows(old, new)
      <4> HIDE DEF old, new
      <4>1. new.generation = old.generation + 1 /\ old.generation \in Nat
        BY <3>2, <3>4 DEF Tagemon
      <4> QED
        BY <3>2, <4>1 DEF Follows
    <3>5. new # NoObject /\ ~new.deleting
      BY DEF RecordedVersion
    <3>6. new # [old EXCEPT !.deleting = TRUE]
      <4> HIDE DEF old, new
      <4> QED
        BY <3>2, <3>5 DEF Tagemon
    <3> QED
      BY <3>1, <3>2, <3>3, <3>4, <3>5, <3>6, RecordedStored DEF UserVersion, RecordedVersion
  <2> QED
    BY <2>2, <2>3
<1> QED
  BY <1>0, <1>3, <1>4, <1>5, NextEffects DEF ResourceRemoved, TagemonsStay

(* A step leaves the configuration of a recorded Tagemon alone and adds no *)
(* restart, or its handleModify changes the configuration to that of its   *)
(* working copy and may owe one restart.                                   *)
CountStep(t, config, newConfig, restarts, newRestarts) ==
  \/ newConfig = config /\ newRestarts <= restarts
  \/ /\ job # NoJob /\ job.name = t /\ job.at = "updateConfigMap"
     /\ config # generateYACEConfig(job.tagemon.spec)
     /\ newConfig = generateYACEConfig(job.tagemon.spec)
     /\ newRestarts <= restarts + 1

(* A restart is owed by nobody but a handleModify that has just changed    *)
(* the ConfigMap.                                                          *)
LEMMA PendingBefore ==
  ASSUME TypeOK, [Next]_vars, NEW t \in Tagemons
  PROVE  /\ Pending(job, t) \in {0, 1} /\ Pending(job', t) \in {0, 1}
         /\ Pending(job', t) <= Pending(job, t)
              \/ /\ HandlerMoves /\ job' # NoJob
                 /\ job.name = t /\ job.at = "updateConfigMap" /\ job'.changed
<1>1. Pending(job, t) \in {0, 1} /\ Pending(job', t) \in {0, 1}
  BY DEF Pending
<1>2. CASE job' = NoJob \/ job' = job
  BY <1>1, <1>2 DEF Pending
<1>3. CASE \E s \in Tagemons : HandlerStarts(s)
  BY <1>1, <1>3 DEF HandlerStarts, Pending
<1>4. CASE HandlerMoves
  <2>1. CASE job' # NoJob /\ job'.at = "annotateDeployment"
    <3>1. job.at = "updateConfigMap" /\ job'.name = job.name
      BY <1>4, <2>1 DEF HandlerMoves, Moved, ModifyMoves, DeleteMoves
    <3> QED
      BY <1>1, <1>4, <2>1, <3>1 DEF Pending
  <2> QED
    BY <1>1, <2>1 DEF Pending
<1>5. ASSUME NEW s \in Tagemons, UserWrites(s)
      PROVE  Pending(job', t) <= Pending(job, t)
  <2>1. CASE job # NoJob /\ job' = [job EXCEPT !.current = FALSE]
    <3>1. job'.name = job.name /\ job'.at = job.at /\ job'.changed = job.changed
      BY <2>1, WorkingCopyType DEF Job
    <3> QED
      BY <1>1, <2>1, <3>1 DEF Pending
  <2> QED
    BY <1>2, <1>5, <2>1 DEF UserWrites
<1> QED
  BY <1>1, <1>2, <1>3, <1>4, <1>5, NextJob

(* Every step counts: the ConfigMap and the Deployment of a recorded       *)
(* Tagemon are written by its own handleModify alone, once each.           *)
LEMMA RestartStep ==
  ASSUME NamesDiffer, NobodyRemoves, ResourcesInv, [Next]_vars,
         NEW t \in Tagemons, Recorded(t), RestartsInv
  PROVE  LET status == Stored(tagemon[t]).status
             restarts == RestartsOfIts(deployment, status)
             newRestarts == RestartsOfIts(deployment', status)
         IN /\ restarts \in Nat /\ newRestarts \in Nat
            /\ CountStep(t, ConfigOfIts(configMap, status), ConfigOfIts(configMap', status),
                         restarts + Pending(job, t), newRestarts + Pending(job', t))
<1> DEFINE status == Stored(tagemon[t]).status
           its == Stored(configMap[status.configMap])
           pods == Stored(deployment[status.deployment])
           config == ConfigOfIts(configMap, status)
           newConfig == ConfigOfIts(configMap', status)
           restarts == RestartsOfIts(deployment, status)
           newRestarts == RestartsOfIts(deployment', status)
<1>0. TypeOK /\ TagemonInv /\ OwnsWhatItRecords
  BY DEF ResourcesInv, TagemonInv, IndInv
<1>1. ConfigMapKept(t) /\ DeploymentKept(t)
  BY <1>0, OwnResourcesOnly
<1>2. its \in ConfigMap /\ pods \in Deployment
  <2>1. status.configMap \in Names /\ status.deployment \in Names
    BY <1>0, RecordedFacts
  <2>2. its # NoObject /\ pods # NoObject
    BY <1>0 DEF OwnsWhatItRecords
  <2> QED
    BY <1>0, <2>1, <2>2, StoredResourceType
<1>3. restarts \in Nat
  BY <1>2 DEF RestartsOfIts, Deployment
<1>4. /\ newRestarts \in Nat
      /\ \/ newRestarts = restarts
         \/ /\ job # NoJob /\ job.name = t /\ job.at = "annotateDeployment" /\ job.changed
            /\ newRestarts <= restarts + 1
  <2>1. CASE Stored(deployment'[status.deployment]) = pods
    BY <1>3, <2>1 DEF RestartsOfIts
  <2>2. ASSUME NEW stamp \in Nat,
               Stored(deployment'[status.deployment]) = [pods EXCEPT !.restarted = stamp]
        PROVE  newRestarts = stamp
    BY <1>2, <2>2 DEF RestartsOfIts, Deployment
  <2>3. ASSUME NEW resources,
               Stored(deployment'[status.deployment]) = [pods EXCEPT !.resources = resources]
        PROVE  newRestarts = restarts
    BY <1>2, <2>3 DEF RestartsOfIts, Deployment
  <2>4. restarts = pods.restarted
    BY DEF RestartsOfIts
  <2> HIDE DEF pods, restarts, newRestarts
  <2> QED
    BY <1>1, <1>3, <2>1, <2>2, <2>3, <2>4 DEF DeploymentKept, pods
<1>5. \/ newConfig = config
      \/ /\ job # NoJob /\ job.name = t /\ job.at = "updateConfigMap"
         /\ newConfig = generateYACEConfig(job.tagemon.spec)
  <2>1. ASSUME NEW new,
               Stored(configMap'[status.configMap]) = [its EXCEPT !.config = new]
        PROVE  newConfig = new
    BY <1>2, <2>1 DEF ConfigOfIts, ConfigMap
  <2> QED
    BY <1>1, <2>1 DEF ConfigMapKept, ConfigOfIts
<1>6. /\ Pending(job, t) \in {0, 1} /\ Pending(job', t) \in {0, 1}
      /\ Pending(job', t) <= Pending(job, t)
           \/ /\ HandlerMoves /\ job' # NoJob
              /\ job.name = t /\ job.at = "updateConfigMap" /\ job'.changed
  BY <1>0, PendingBefore
<1>7. CASE job # NoJob /\ job.name = t /\ job.at = "annotateDeployment"
  <2>1. newConfig = config
    BY <1>5, <1>7
  <2>2. CASE newRestarts = restarts
    BY <1>3, <1>6, <1>7, <2>1, <2>2 DEF CountStep
  <2>3. CASE newRestarts # restarts
    <3>1. Pending(job, t) = 1 /\ newRestarts <= restarts + 1
      BY <1>4, <2>3 DEF Pending
    <3>2. Pending(job', t) = 0
      <4>1. deployment' # deployment
        BY <2>3
      <4>2. HandlerMoves
        <5>1. ~ResourcesStay
          BY <1>0, <2>3, RecordedFacts DEF ResourcesStay, RestartsOfIts
        <5> QED
          BY <1>0, <4>1, <5>1, NextEffects DEF UserWrites, ResourceRemoved, NobodyRemoves
      <4>3. job' = NoJob \/ job'.at # "annotateDeployment"
        BY <1>7, <4>2 DEF HandlerMoves, Moved, ModifyMoves, DeleteMoves
      <4> QED
        BY <4>3 DEF Pending
    <3> QED
      BY <1>3, <1>4, <2>1, <3>1, <3>2 DEF CountStep
  <2> QED
    BY <2>2, <2>3
<1>8. CASE job # NoJob /\ job.name = t /\ job.at = "updateConfigMap"
  <2>1. newRestarts = restarts
    BY <1>4, <1>8
  <2>2. CASE newConfig # config
    BY <1>3, <1>5, <1>6, <2>1, <2>2, <1>8 DEF CountStep, Pending
  <2>3. CASE newConfig = config
    <3>1. Pending(job', t) <= Pending(job, t)
      <4>1. SUFFICES ASSUME HandlerMoves, job' # NoJob, job'.changed
                     PROVE  FALSE
        BY <1>6
      <4>2. ItsConfigMap = status.configMap
        <5>1. /\ Follows(job.tagemon, Stored(tagemon[t]))
              /\ job.tagemon.status.observed > 0
          <6>1. Stored(tagemon[t]) \in Range(tagemon[t])
            BY <1>0, RangeType
          <6>2. job.at \in ModifySteps
            BY <1>8 DEF ModifySteps
          <6> QED
            BY <1>0, <1>8, <6>1, <6>2
               DEF RestartsInv, Counted, TagemonInv, CopyInv, WellCopied
        <5> QED
          BY <5>1 DEF Follows, ItsConfigMap
      <4>3. HandlerDoes
        <5>1. job'.at = "annotateDeployment"
          BY <1>8, <4>1 DEF HandlerMoves, Moved, ModifyMoves, DeleteMoves
        <5>2. job' # job /\ ~\E s \in Tagemons : HandlerStarts(s)
          BY <1>8, <5>1 DEF HandlerStarts
        <5>3. ~\E s \in Tagemons : UserWrites(s)
          <6>1. job \in Job
            BY <1>0, <1>8, WorkingCopyType
          <6> QED
            BY <1>8, <5>1, <6>1 DEF UserWrites, Job
        <5> QED
          BY <1>0, <4>1, <5>2, <5>3, NextEffects DEF ResourceRemoved, NobodyRemoves
      <4>4. ConfigMapUpdated
        BY <1>8, <4>1, <4>3
           DEF HandlerDoes, TagemonSteps, ConfigMapCreated, DeploymentCreated,
               DeploymentAnnotated, DeploymentUpdated, ConfigMapDeleted, DeploymentDeleted
      <4>5. /\ its.config # generateYACEConfig(job.tagemon.spec)
            /\ Stored(configMap'[status.configMap]) =
                 [its EXCEPT !.config = generateYACEConfig(job.tagemon.spec)]
        BY <4>1, <4>2, <4>4 DEF ConfigMapUpdated, StoredBecomes
      <4>6. newConfig = generateYACEConfig(job.tagemon.spec) /\ config = its.config
        BY <1>2, <4>5 DEF ConfigOfIts, ConfigMap
      <4> QED
        BY <2>3, <4>5, <4>6
    <3> QED
      BY <1>3, <1>6, <2>1, <2>3, <3>1 DEF CountStep
  <2> QED
    BY <2>2, <2>3
<1>9. CASE ~(job # NoJob /\ job.name = t /\ job.at \in {"annotateDeployment", "updateConfigMap"})
  <2>1. newConfig = config /\ newRestarts = restarts
    BY <1>4, <1>5, <1>9
  <2>2. Pending(job', t) <= Pending(job, t)
    BY <1>6, <1>9 DEF HandlerMoves
  <2> QED
    BY <1>3, <1>6, <2>1, <2>2 DEF CountStep
<1> QED
  BY <1>3, <1>4, <1>7, <1>8, <1>9

-----------------------------------------------------------------------------
(* The invariant is kept                                                   *)

(* The versions in sight after a step, if a later version follows the      *)
(* stored one.                                                             *)
LEMMA SuccessiveKept ==
  ASSUME TypeOK, [Next]_vars, NEW t \in Tagemons,
         NoObject \notin Range(tagemon[t]), Successive(tagemon[t]),
         Stored(tagemon'[t]) \in Tagemon,
         Follows(Stored(tagemon[t]), Stored(tagemon'[t]))
  PROVE  /\ Range(tagemon'[t]) \subseteq Range(tagemon[t]) \cup {Stored(tagemon'[t])}
         /\ Range(tagemon'[t]) \subseteq Tagemon
         /\ Successive(tagemon'[t])
<1>1. tagemon[t] \in Versions(Tagemon) /\ TagemonMoves(t)
  BY NextMoves DEF TypeOK
<1>2. Range(tagemon[t]) \subseteq Tagemon
  BY RangeType
<1>3. Range(tagemon'[t]) \subseteq Range(tagemon[t]) \cup {Stored(tagemon'[t])}
  BY <1>1, VersionsRelisted, VersionsDelivered, VersionsWritten DEF TagemonMoves
<1>4. Successive(tagemon'[t])
  BY <1>1, SuccessiveLearnt, SuccessiveWritten DEF TagemonMoves
<1> QED
  BY <1>2, <1>3, <1>4

(* The versions in sight of a Tagemon whose creation was just recorded.    *)
LEMMA CreatedCounted ==
  ASSUME ResourcesInv, AloneInv, [Next]_vars, NEW t \in Tagemons, StatusCreated(t),
         RecordedVersion(Stored(tagemon'[t]))
  PROVE  LET status == Stored(tagemon'[t]).status
         IN Counted(t, tagemon'[t], ConfigOfIts(configMap', status),
                    RestartsOfIts(deployment', status) + Pending(job', t), job')
<1> DEFINE copy == job.tagemon
           old == Stored(tagemon[t])
           new == Stored(tagemon'[t])
<1>0. /\ TypeOK /\ TagemonInv /\ CurrentInv /\ CreatedInv
      /\ job # NoJob /\ job.at = "createStatus" /\ job.name = t /\ job.current
      /\ copy \in Tagemon
  BY WorkingCopyType DEF ResourcesInv, TagemonInv, IndInv, StatusCreated
<1>1. /\ new = Observed(copy) /\ new \in Tagemon
      /\ new.spec = copy.spec /\ new.generation = copy.generation
      /\ new.status.configMap = copy.status.configMap
      /\ new.status.deployment = copy.status.deployment
      /\ new.status.observed = copy.generation /\ copy.generation \in Nat \ {0}
  <2>1. new = Observed(copy) /\ Observed(copy) \in Tagemon
    BY <1>0, WorkingCopyType DEF StatusCreated
  <2> HIDE DEF new
  <2> QED
    BY <1>0, <2>1 DEF Observed, Tagemon, Status
<1>2. ASSUME NEW version \in Range(tagemon[t])
      PROVE  /\ version \in Tagemon
             /\ version.generation = copy.generation /\ version.spec = copy.spec
             /\ version.status.observed = 0
  <2>1. /\ version # NoObject
        /\ version.generation = copy.generation /\ version.status.observed = 0
    BY <1>0 DEF AloneInv, Unrecorded
  <2>2. version.spec = copy.spec
    BY <1>0 DEF CurrentInv, CreateSteps
  <2> QED
    BY <1>0, <2>1, <2>2, RangeType
<1>3. Successive(tagemon[t])
  <2>1. ASSUME NEW a \in Range(tagemon[t]), NEW b \in Range(tagemon[t])
        PROVE  Follows(a, b)
    BY <1>1, <1>2 DEF Follows
  <2> QED
    BY <2>1 DEF Successive, Range
<1>4. NoObject \notin Range(tagemon[t]) /\ Follows(old, new)
  <2>1. old \in Range(tagemon[t])
    BY <1>0, RangeType
  <2>2. /\ old.generation = copy.generation /\ old.spec = copy.spec
        /\ old.status.observed = 0
    BY <1>2, <2>1
  <2> QED
    BY <1>1, <1>2, <2>2, ObjectsAssumption DEF Follows
<1>5. /\ Range(tagemon'[t]) \subseteq Range(tagemon[t]) \cup {new}
      /\ NoObject \notin Range(tagemon'[t]) /\ Successive(tagemon'[t])
  BY <1>0, <1>1, <1>3, <1>4, SuccessiveKept, ObjectsAssumption
<1>6. /\ ConfigOfIts(configMap', new.status) = generateYACEConfig(copy.spec)
      /\ RestartsOfIts(deployment', new.status) = 0
  <2>1. /\ Stored(configMap'[new.status.configMap]) = NewConfigMap
        /\ Stored(deployment'[new.status.deployment]) = NewDeployment
    BY <1>0, <1>1 DEF CreatedInv, StatusCreated
  <2> QED
    BY <2>1 DEF ConfigOfIts, RestartsOfIts, NewConfigMap, NewDeployment
<1>7. Pending(job', t) = 0 /\ ~(job' # NoJob /\ job'.at \in ModifySteps)
  BY DEF StatusCreated, Pending, ModifySteps
<1>8. ASSUME NEW version \in Range(tagemon'[t])
      PROVE  Room(generateYACEConfig(copy.spec), 0 + 0, version)
  <2>1. version.generation = copy.generation /\ version.spec = copy.spec
    BY <1>1, <1>2, <1>5
  <2> QED
    BY <1>1, <2>1 DEF Room
<1> QED
  BY <1>5, <1>6, <1>7, <1>8 DEF Counted

(* Every step of a recorded Tagemon leaves room for its restarts.          *)
LEMMA CountedKept ==
  ASSUME NamesDiffer, NobodyRemoves, ResourcesInv, RestartsInv, [Next]_vars,
         NEW t \in Tagemons, Recorded(t), RecordedVersion(Stored(tagemon'[t])),
         Follows(Stored(tagemon[t]), Stored(tagemon'[t]))
  PROVE  LET status == Stored(tagemon'[t]).status
         IN Counted(t, tagemon'[t], ConfigOfIts(configMap', status),
                    RestartsOfIts(deployment', status) + Pending(job', t), job')
<1> DEFINE status == Stored(tagemon[t]).status
           new == Stored(tagemon'[t])
           config == ConfigOfIts(configMap, status)
           newConfig == ConfigOfIts(configMap', status)
           restarts == RestartsOfIts(deployment, status) + Pending(job, t)
           newRestarts == RestartsOfIts(deployment', status) + Pending(job', t)
<1>0. /\ TypeOK /\ TypeOK' /\ TagemonInv /\ CopyInv
      /\ Counted(t, tagemon[t], config, restarts, job)
      /\ Range(tagemon[t]) \subseteq Tagemon \cup {NoObject}
      /\ Stored(tagemon[t]) \in Range(tagemon[t])
  <2>1. TypeOK /\ TagemonInv /\ CopyInv /\ TypeOK'
    BY NextInv DEF ResourcesInv, TagemonInv, IndInv
  <2> QED
    BY <2>1, RangeType DEF RestartsInv
<1>1. /\ restarts \in Nat /\ newRestarts \in Nat
      /\ CountStep(t, config, newConfig, restarts, newRestarts)
  BY <1>0, RestartStep, PendingBefore
<1>2. new.status.configMap = status.configMap /\ new.status.deployment = status.deployment
  BY DEF Follows, Recorded
<1>3. new \in Tagemon
  <2>1. new # NoObject
    BY DEF RecordedVersion
  <2>2. \A s \in Tagemons : Stored(tagemon'[s]) \in Tagemon \cup {NoObject}
    BY <1>0, VersionsEnds DEF TypeOK
  <2> QED
    BY <2>1, <2>2
<1>4. /\ Range(tagemon'[t]) \subseteq Range(tagemon[t]) \cup {new}
      /\ Range(tagemon'[t]) \subseteq Tagemon /\ NoObject \notin Range(tagemon'[t])
      /\ Successive(tagemon'[t])
  BY <1>0, <1>3, SuccessiveKept, ObjectsAssumption DEF Counted
<1> HIDE DEF config, newConfig, restarts, newRestarts, status, new
<1>5. ASSUME NEW version \in Tagemon, Room(config, restarts, version),
             job # NoJob /\ job.name = t /\ job.at = "updateConfigMap" =>
               Follows(job.tagemon, version)
      PROVE  Room(newConfig, newRestarts, version)
  <2>1. CASE newConfig = config /\ newRestarts <= restarts
    BY <1>1, <1>5, <2>1, RoomLater, FollowsOrder
  <2>2. CASE /\ job # NoJob /\ job.name = t /\ job.at = "updateConfigMap"
             /\ config # generateYACEConfig(job.tagemon.spec)
             /\ newConfig = generateYACEConfig(job.tagemon.spec)
             /\ newRestarts <= restarts + 1
    <3>1. job.tagemon \in Tagemon /\ Room(config, restarts, job.tagemon)
      BY <1>0, <2>2, WorkingCopyType DEF Counted, ModifySteps
    <3> QED
      BY <1>1, <1>5, <2>2, <3>1, RoomChanged
  <2> QED
    BY <1>1, <2>1, <2>2 DEF CountStep
<1>6. ASSUME NEW version \in Range(tagemon[t])
      PROVE  version \in Tagemon /\ Room(newConfig, newRestarts, version)
  <2>1. version \in Tagemon /\ Room(config, restarts, version)
    BY <1>0 DEF Counted
  <2>2. job # NoJob /\ job.name = t /\ job.at = "updateConfigMap" =>
          Follows(job.tagemon, version)
    BY <1>0 DEF Counted, ModifySteps
  <2> QED
    BY <1>5, <2>1, <2>2
<1>7. ASSUME NEW version \in Range(tagemon'[t])
      PROVE  Room(newConfig, newRestarts, version)
  <2>1. Room(newConfig, newRestarts, new)
    BY <1>0, <1>1, <1>3, <1>6, RoomLater DEF new
  <2> QED
    BY <1>4, <1>6, <2>1
<1>8. ASSUME job' # NoJob, job'.name = t, job'.at \in ModifySteps
      PROVE  /\ Room(newConfig, newRestarts, job'.tagemon)
             /\ \A version \in Range(tagemon'[t]) : Follows(job'.tagemon, version)
  <2>1. ASSUME job # NoJob, job.name = t, job.at \in ModifySteps,
               job'.tagemon = job.tagemon
        PROVE  /\ Room(newConfig, newRestarts, job'.tagemon)
               /\ \A version \in Range(tagemon'[t]) : Follows(job'.tagemon, version)
    <3>1. /\ job.tagemon \in Tagemon /\ Room(config, restarts, job.tagemon)
          /\ \A version \in Range(tagemon[t]) : Follows(job.tagemon, version)
      BY <1>0, <2>1, WorkingCopyType DEF Counted
    <3>2. Room(newConfig, newRestarts, job.tagemon)
      BY <1>5, <3>1, FollowsOrder
    <3>3. Follows(job.tagemon, new)
      <4>1. Stored(tagemon[t]) \in Tagemon /\ Follows(job.tagemon, Stored(tagemon[t]))
        BY <1>0, <1>6, <3>1
      <4> QED
        BY <1>3, <3>1, <4>1, FollowsOrder DEF new
    <3> QED
      BY <1>4, <2>1, <3>1, <3>2, <3>3
  <2>2. CASE job' = job
    BY <1>8, <2>1, <2>2
  <2>3. ASSUME NEW s \in Tagemons, HandlerStarts(s)
        PROVE  /\ Room(newConfig, newRestarts, job'.tagemon)
               /\ \A version \in Range(tagemon'[t]) : Follows(job'.tagemon, version)
    <3>1. s = t /\ job'.tagemon = Cached(tagemon[t]) /\ UNCHANGED tagemon
      BY <1>8, <2>3 DEF HandlerStarts, ModifySteps, cluster
    <3>2. tagemon[t] \in Versions(Tagemon) /\ Cached(tagemon[t]) \in Range(tagemon[t])
      BY <1>0, RangeType DEF TypeOK
    <3>3. \A version \in Range(tagemon[t]) : Follows(Cached(tagemon[t]), version)
      BY <1>0, <3>2, SuccessiveEnds DEF Counted
    <3> QED
      BY <1>6, <3>1, <3>2, <3>3
  <2>4. CASE HandlerMoves
    <3>1. /\ job # NoJob /\ job.name = t /\ job.at \in ModifySteps
          /\ job'.tagemon = job.tagemon
      BY <1>8, <2>4 DEF HandlerMoves, Moved, ModifyMoves, DeleteMoves, ModifySteps
    <3> QED
      BY <2>1, <3>1
  <2>5. ASSUME NEW s \in Tagemons, UserWrites(s)
        PROVE  job # NoJob /\ job.name = t /\ job.at \in ModifySteps
               /\ job'.tagemon = job.tagemon
    <3>1. job # NoJob
      BY <1>8, <2>5 DEF UserWrites
    <3>2. job \in Job
      BY <1>0, <3>1, WorkingCopyType
    <3>3. job' = job \/ job' = [job EXCEPT !.current = FALSE]
      BY <2>5 DEF UserWrites
    <3>4. job'.name = job.name /\ job'.at = job.at /\ job'.tagemon = job.tagemon
      BY <3>2, <3>3 DEF Job
    <3> QED
      BY <1>8, <3>1, <3>4
  <2> QED
    BY <1>0, <1>8, <2>1, <2>2, <2>3, <2>4, <2>5, NextJob
<1>9. /\ ConfigOfIts(configMap', new.status) = newConfig
      /\ RestartsOfIts(deployment', new.status) + Pending(job', t) = newRestarts
  BY <1>2 DEF newConfig, newRestarts, ConfigOfIts, RestartsOfIts
<1>10. Counted(t, tagemon'[t], newConfig, newRestarts, job')
  BY <1>4, <1>7, <1>8 DEF Counted
<1> QED
  BY <1>9, <1>10 DEF new

(* Every step keeps the count of restarts.                                 *)
LEMMA RestartsKept ==
  ASSUME NamesDiffer, NobodyRemoves, ResourcesInv, AloneInv, RestartsInv, [Next]_vars
  PROVE  RestartsInv'
<1>1. TagemonInv
  BY DEF ResourcesInv
<1>2. ASSUME NEW t \in Tagemons, RecordedVersion(Stored(tagemon'[t]))
      PROVE  LET status == Stored(tagemon'[t]).status
             IN Counted(t, tagemon'[t], ConfigOfIts(configMap', status),
                        RestartsOfIts(deployment', status) + Pending(job', t), job')
  BY <1>1, <1>2, RecordedBefore, CreatedCounted, CountedKept
<1> QED
  BY <1>2 DEF RestartsInv, RecordedVersion, Recorded, Live

(* Tagemons, working copies, resources and the count of restarts agree at  *)
(* every moment.                                                           *)
THEOREM CountingInvariance ==
  ASSUME NamesDiffer, NobodyRemoves
  PROVE  Spec => []CountingInv
<1>1. Init => AloneInv /\ RestartsInv
  BY DEF Init, AloneInv, RestartsInv, Recorded, Live, Stored
<1>2. ResourcesInv /\ AloneInv /\ RestartsInv /\ [Next]_vars => AloneInv' /\ RestartsInv'
  BY AloneKept, RestartsKept DEF ResourcesInv
<1>3. ResourcesInv /\ AloneInv /\ RestartsInv => CountingInv
  BY DEF CountingInv
<1>4. Spec => []ResourcesInv
  BY ResourcesInvariance
<1> QED
  BY <1>1, <1>2, <1>3, <1>4, PTL DEF Spec

(* The pods of a recorded Tagemon are restarted fewer times than its       *)
(* generation counts: once per change of the spec at most, however often   *)
(* handleModify is retried after conflicts, failed calls, lost answers and *)
(* crashes, and however old what it reads may be.                          *)
THEOREM RestartsBounded ==
  ASSUME NamesDiffer, NobodyRemoves
  PROVE  Spec => []RestartsFollowEdits
<1>1. CountingInv => RestartsFollowEdits
  <2> SUFFICES ASSUME CountingInv, NEW t \in Tagemons, Recorded(t)
               PROVE  RestartsOfIts(deployment, Stored(tagemon[t]).status)
                        < Stored(tagemon[t]).generation
    BY DEF RestartsFollowEdits, RestartsOfIts
  <2> DEFINE status == Stored(tagemon[t]).status
             restarts == RestartsOfIts(deployment, status)
  <2>1. TypeOK /\ TagemonInv /\ ResourcesInv /\ RestartsInv
    BY DEF CountingInv, ResourcesInv, TagemonInv, IndInv
  <2>2. Room(ConfigOfIts(configMap, status), restarts + Pending(job, t), Stored(tagemon[t]))
    BY <2>1, RangeType DEF RestartsInv, Counted
  <2>3. Stored(deployment[status.deployment]) \in Deployment
    BY <2>1, RecordedFacts, StoredResourceType DEF ResourcesInv, OwnsWhatItRecords
  <2>4. restarts \in Nat
    BY <2>3 DEF RestartsOfIts, Deployment
  <2>5. Stored(tagemon[t]).generation \in Nat
    BY <2>1, RecordedFacts DEF Tagemon
  <2> HIDE DEF restarts
  <2>6. restarts < Stored(tagemon[t]).generation
    BY <2>2, <2>4, <2>5 DEF Room, Pending
  <2> QED
    BY <2>6 DEF restarts
<1> QED
  BY <1>1, CountingInvariance, PTL
===============================================================================
