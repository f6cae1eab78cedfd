------------------------------ MODULE YaceHandler ------------------------------
(***************************************************************************)
(* The reconciler of src/internal/yacehandler/controller.go and the API    *)
(* server it writes to.  For every Tagemon it keeps one ConfigMap (the     *)
(* YACE configuration) and one Deployment (the YACE pod), whose names it   *)
(* records in the Tagemon's status.                                        *)
(*                                                                         *)
(* One worker (controller-runtime's default) takes a Tagemon from the work *)
(* queue, reads it from a cache that may be old, and runs one of three     *)
(* handlers.  Each write of a handler is a step of its own: users and      *)
(* crashes come in between.  A read of a ConfigMap or Deployment and the   *)
(* Update based on it are one step, since the API server refuses an Update *)
(* of anything but the latest version.                                     *)
(***************************************************************************)
EXTENDS ApiObjects, FiniteSets

CONSTANTS
  Tagemons,            \* names of Tagemon resources
  Names,               \* names of ConfigMaps and Deployments
  Ids,                 \* deployment ids (UUIDs)
  Queries, Intervals, Resources, Namings, Specs,
  BuiltName,           \* buildResourceName, per Tagemon and naming fields
  NoName, NoId, NoJob,
  ReadsLag,            \* may the cache of ConfigMaps and Deployments be old?
  ClockStands,         \* may two restarts fall into one second?
  RemovedAtAnyTime,    \* are they deleted by hand also while no Tagemon is?
  MaxGeneration,       \* bound on edits of one Tagemon's spec, plus one
  MaxCreations,        \* bound on Tagemons created
  MaxTouches,          \* bound on writes of others that leave the spec alone
  MaxFaults,           \* bound on failed calls, lost replies and crashes
  MaxRemovals          \* bound on ConfigMaps and Deployments deleted by hand

(* A Tagemon's spec as far as the reconciler tells specs apart: what YACE  *)
(* asks CloudWatch, how often, the pod's resources, and the fields that    *)
(* name the ConfigMap and the Deployment (type and namePrefix).            *)
ASSUME SpecsAssumption ==
  Specs \subseteq [query: Queries, interval: Intervals,
                   resources: Resources, naming: Namings]

(* Not assumed injective: the name holds five hex digits of a hash.        *)
ASSUME NamesAssumption ==
  /\ BuiltName \in [Tagemons \X Namings -> Names]
  /\ NoName \notin Names

ASSUME IdsAssumption == NoId \notin Ids

ASSUME SwitchesAssumption == {ReadsLag, ClockStands, RemovedAtAnyTime} \subseteq BOOLEAN

ASSUME BoundsAssumption ==
  /\ MaxGeneration \in Nat \ {0}
  /\ {MaxCreations, MaxTouches, MaxFaults, MaxRemovals} \subseteq Nat

-----------------------------------------------------------------------------
(* Objects                                                                 *)

Status == [observed: Nat, id: Ids \cup {NoId},
           configMap: Names \cup {NoName}, deployment: Names \cup {NoName}]

Tagemon == [spec: Specs, generation: Nat \ {0}, finalizer: BOOLEAN,
            deleting: BOOLEAN, status: Status]

Config == [query: Queries, length: Intervals]

ConfigMap == [id: Ids, config: Config]

Deployment == [id: Ids, interval: Intervals, resources: Resources,
               restarted: Nat]

(* An object that is there differs from none.                              *)
ASSUME ObjectsAssumption == NoObject \notin Tagemon \cup ConfigMap \cup Deployment

HandlerSteps ==
  {"createConfigMap", "createDeployment", "createStatus", "addFinalizer",
   "updateConfigMap", "annotateDeployment", "updateDeployment", "modifyStatus",
   "deleteConfigMap", "deleteDeployment", "removeFinalizer"}

(* A handler under way: its next step, its working copy of the Tagemon,    *)
(* whether that copy is still the latest version (every write by another   *)
(* makes it old, the handler's own writes refresh it), and whether this    *)
(* run has changed the ConfigMap.                                          *)
Job == [at: HandlerSteps, name: Tagemons, tagemon: Tagemon,
        current: BOOLEAN, changed: BOOLEAN]

VARIABLES
  tagemon,     \* the versions of each Tagemon
  configMap,   \* the versions of each ConfigMap
  deployment,  \* the versions of each Deployment
  workqueue,   \* the Tagemons to reconcile
  job,         \* the worker's handler, or NoJob
  spent        \* what was used up of the bounds

vars == <<tagemon, configMap, deployment, workqueue, job, spent>>

cluster == <<tagemon, configMap, deployment>>

generateYACEConfig(spec) == [query |-> spec.query, length |-> spec.interval]

(* A write to a ConfigMap or Deployment; when reads do not lag the cache   *)
(* has it at once.                                                         *)
Put(versions, version) ==
  IF ReadsLag THEN Written(versions, version) ELSE <<version>>

(* A cached read by the name in a status, which may be empty.              *)
Read(objects, name) == IF name = NoName THEN NoObject ELSE Cached(objects[name])

IsNotFound(object) == object = NoObject

(* Every uuid.New() differs from those in the cluster.                     *)
UsedIds ==
  LET Carried(versions) == {v.id : v \in Range(versions) \ {NoObject}}
      Recorded(versions) == {v.status.id : v \in Range(versions) \ {NoObject}}
  IN (UNION {Carried(configMap[n]) \cup Carried(deployment[n]) : n \in Names})
     \cup (UNION {Recorded(tagemon[t]) : t \in Tagemons})

Init ==
  /\ tagemon = [t \in Tagemons |-> <<NoObject>>]
  /\ configMap = [n \in Names |-> <<NoObject>>]
  /\ deployment = [n \in Names |-> <<NoObject>>]
  /\ workqueue = {}
  /\ job = NoJob
  /\ spent = [creations |-> 0, touches |-> 0, faults |-> 0, removals |-> 0]

-----------------------------------------------------------------------------
(* How a handler goes on                                                   *)

At(step) == job # NoJob /\ job.at = step

GoOn(next) == job' = next /\ UNCHANGED <<workqueue, spent>>

(* Mutant of Retry: the error is logged and the request forgotten.         *)
RetryForgotten == job' = NoJob /\ UNCHANGED workqueue

(* An error, or a conflict that asks for a requeue: from the start later.  *)
Retry == /\ job' = NoJob
         /\ workqueue' = workqueue \cup {job.name}

Fail == Retry /\ UNCHANGED spent

Fault == /\ spent.faults < MaxFaults
         /\ spent' = [spent EXCEPT !.faults = @ + 1]

(* The answer to a write that took effect arrives, or is lost and the      *)
(* handler sees an error.                                                  *)
Answer(next) == \/ GoOn(next)
                \/ Fault /\ Retry

(* Mutant of Accepted: the copy is written whatever its resourceVersion.   *)
AlwaysAccepted == TRUE

(* A write of the working copy is accepted only if nobody wrote since.     *)
Accepted == job.current

-----------------------------------------------------------------------------
(* Reconcile: one handler is chosen by what the cache says                 *)

ChosenHandler(object) ==
  IF IsNotFound(object) THEN "none"
  ELSE IF object.deleting THEN "delete"
  ELSE IF ~object.finalizer /\ object.status.observed = 0 THEN "create"
  ELSE IF object.generation # object.status.observed THEN "modify"
  ELSE "none"

Started(t, step, object) ==
  [at |-> step, name |-> t, tagemon |-> object,
   current |-> UpToDate(tagemon[t]), changed |-> FALSE]

(* Mutant of handleCreate: no uuid.New().                                  *)
handleCreateWithoutId(t, object) == job' = Started(t, "createConfigMap", object)

handleCreate(t, object) ==
  \E id \in Ids \ UsedIds :
    job' = Started(t, "createConfigMap", [object EXCEPT !.status.id = id])

handleModify(t, object) == job' = Started(t, "updateConfigMap", object)

handleDelete(t, object) == job' = Started(t, "deleteConfigMap", object)

Reconcile(t) ==
  /\ job = NoJob
  /\ t \in workqueue
  /\ workqueue' = workqueue \ {t}
  /\ LET object == Cached(tagemon[t])
         handler == ChosenHandler(object)
     IN \/ handler = "none" /\ job' = NoJob
        \/ handler = "create" /\ handleCreate(t, object)
        \/ handler = "modify" /\ handleModify(t, object)
        \/ handler = "delete" /\ handleDelete(t, object)
  /\ UNCHANGED <<cluster, spent>>

-----------------------------------------------------------------------------
(* handleCreate                                                            *)

ResourceName == BuiltName[job.name, job.tagemon.spec.naming]

NewConfigMap == [id |-> job.tagemon.status.id,
                 config |-> generateYACEConfig(job.tagemon.spec)]

(* Mutant of WithConfigMapName: the assignment is forgotten.               *)
WithoutConfigMapName(object, name) == object

WithConfigMapName(object, name) == [object EXCEPT !.status.configMap = name]

(* Mutant of createConfigMap: a ConfigMap that exists already is taken as  *)
(* the one to create.                                                      *)
createConfigMapIfMissing ==
  /\ At("createConfigMap")
  /\ LET name == ResourceName
         next == [job EXCEPT !.at = "createDeployment",
                             !.tagemon = WithConfigMapName(@, name)]
     IN IF Stored(configMap[name]) = NoObject
        THEN /\ configMap' = [configMap EXCEPT ![name] = Put(@, NewConfigMap)]
             /\ Answer(next)
        ELSE GoOn(next) /\ UNCHANGED configMap
  /\ UNCHANGED <<tagemon, deployment>>

createConfigMap ==
  /\ At("createConfigMap")
  /\ LET name == ResourceName
         next == [job EXCEPT !.at = "createDeployment",
                             !.tagemon = WithConfigMapName(@, name)]
     IN IF Stored(configMap[name]) = NoObject
        THEN /\ configMap' = [configMap EXCEPT ![name] = Put(@, NewConfigMap)]
             /\ Answer(next)
        ELSE Fail /\ UNCHANGED configMap             \* AlreadyExists
  /\ UNCHANGED <<tagemon, deployment>>

NewDeployment == [id |-> job.tagemon.status.id,
                  interval |-> job.tagemon.spec.interval,
                  resources |-> job.tagemon.spec.resources,
                  restarted |-> 0]

createDeployment ==
  /\ At("createDeployment")
  /\ LET name == ResourceName
         next == [job EXCEPT !.at = "createStatus",
                             !.tagemon.status.deployment = name]
     IN IF Stored(deployment[name]) = NoObject
        THEN /\ deployment' = [deployment EXCEPT ![name] = Put(@, NewDeployment)]
             /\ Answer(next)
        ELSE Fail /\ UNCHANGED deployment            \* AlreadyExists
  /\ UNCHANGED <<tagemon, configMap>>

Observed(object) == [object EXCEPT !.status.observed = object.generation]

(* An Update or Status().Update of the working copy, with what follows     *)
(* when it is accepted and when it conflicts with a later version; the     *)
(* Tagemon may also be gone, which is an error.                            *)
UpdateTagemon(version, accepted, conflict) ==
  \/ /\ Stored(tagemon[job.name]) = NoObject
     /\ Fail
     /\ UNCHANGED tagemon
  \/ /\ Stored(tagemon[job.name]) # NoObject
     /\ Accepted
     /\ tagemon' = [tagemon EXCEPT ![job.name] = Written(@, version)]
     /\ Answer(accepted)
  \/ /\ Stored(tagemon[job.name]) # NoObject
     /\ ~Accepted
     /\ conflict
     /\ UNCHANGED tagemon

(* updateStatus asks for a requeue on a conflict; handleCreate returns     *)
(* only on an error and goes on to add the finalizer.                      *)
createStatus ==
  /\ At("createStatus")
  /\ LET observed == Observed(job.tagemon)
         next == [job EXCEPT !.at = "addFinalizer", !.tagemon = observed]
     IN UpdateTagemon(observed, next, GoOn(next))
  /\ UNCHANGED <<configMap, deployment>>

addFinalizer ==
  /\ At("addFinalizer")
  /\ UpdateTagemon([job.tagemon EXCEPT !.finalizer = TRUE], NoJob, Fail)
  /\ UNCHANGED <<configMap, deployment>>

-----------------------------------------------------------------------------
(* handleModify                                                            *)

(* A ConfigMap deleted by others is left deleted.                          *)
updateConfigMap ==
  /\ At("updateConfigMap")
  /\ LET name == job.tagemon.status.configMap
         found == Read(configMap, name)
         config == generateYACEConfig(job.tagemon.spec)
         next(changed) == [job EXCEPT !.at = "annotateDeployment",
                                      !.changed = changed]
     IN IF IsNotFound(found) \/ found.config = config
        THEN GoOn(next(FALSE)) /\ UNCHANGED configMap
        ELSE IF UpToDate(configMap[name])
             THEN /\ configMap' = [configMap EXCEPT
                                     ![name] = Put(@, [found EXCEPT !.config = config])]
                  /\ Answer(next(TRUE))
             ELSE Fail /\ UNCHANGED configMap        \* Conflict
  /\ UNCHANGED <<tagemon, deployment>>

(* The restartedAt annotation: the time, to the second.                    *)
Stamps(restarted) ==
  {restarted + 1} \cup (IF ClockStands /\ restarted > 0 THEN {restarted} ELSE {})

(* An Update of a Deployment read as found; one that changes nothing       *)
(* leaves the stored version alone.                                        *)
UpdateDeployment(name, found, updated, next) ==
  IF ~UpToDate(deployment[name])
  THEN Fail /\ UNCHANGED deployment                  \* Conflict
  ELSE /\ deployment' =
            IF updated = found THEN deployment
            ELSE [deployment EXCEPT ![name] = Put(@, updated)]
       /\ Answer(next)

(* Mutant of RestartRequired: every run of handleModify restarts the pods. *)
RestartAlways == TRUE

RestartRequired == job.changed

annotateDeployment ==
  /\ At("annotateDeployment")
  /\ LET name == job.tagemon.status.deployment
         found == Read(deployment, name)
         next == [job EXCEPT !.at = "updateDeployment"]
     IN IF ~RestartRequired \/ IsNotFound(found)
        THEN GoOn(next) /\ UNCHANGED deployment
        ELSE \E stamp \in Stamps(found.restarted) :
               UpdateDeployment(name, found,
                                [found EXCEPT !.restarted = stamp], next)
  /\ UNCHANGED <<tagemon, configMap>>

(* Mutant of applyPodResources: the template is built anew, without its    *)
(* annotations.                                                            *)
applyPodResourcesAnew(object) ==
  [object EXCEPT !.resources = job.tagemon.spec.resources, !.restarted = 0]

(* Only the pod's resources follow the spec.                               *)
applyPodResources(object) == [object EXCEPT !.resources = job.tagemon.spec.resources]

updateDeployment ==
  /\ At("updateDeployment")
  /\ LET name == job.tagemon.status.deployment
         found == Read(deployment, name)
         next == [job EXCEPT !.at = "modifyStatus"]
     IN IF IsNotFound(found) \/ applyPodResources(found) = found
        THEN GoOn(next) /\ UNCHANGED deployment
        ELSE UpdateDeployment(name, found, applyPodResources(found), next)
  /\ UNCHANGED <<tagemon, configMap>>

(* Mutant of modifyStatus: on a conflict the latest version is read and    *)
(* its generation reported as observed.                                    *)
modifyStatusRefetching ==
  /\ At("modifyStatus")
  /\ IF Stored(tagemon[job.name]) = NoObject
     THEN Fail /\ UNCHANGED tagemon
     ELSE /\ tagemon' = [tagemon EXCEPT ![job.name] = Written(@, Observed(Stored(@)))]
          /\ Answer(NoJob)
  /\ UNCHANGED <<configMap, deployment>>

(* On a conflict handleModify ends as if it had succeeded.                 *)
modifyStatus ==
  /\ At("modifyStatus")
  /\ UpdateTagemon(Observed(job.tagemon), NoJob, GoOn(NoJob))
  /\ UNCHANGED <<configMap, deployment>>

-----------------------------------------------------------------------------
(* handleDelete                                                            *)

(* Mutant of deleteConfigMap: a ConfigMap that is gone already is an error. *)
deleteConfigMapStrict ==
  /\ At("deleteConfigMap")
  /\ LET name == job.tagemon.status.configMap
         next == [job EXCEPT !.at = "deleteDeployment"]
     IN IF Stored(configMap[name]) = NoObject
        THEN Fail /\ UNCHANGED configMap
        ELSE /\ configMap' = [configMap EXCEPT ![name] = Put(@, NoObject)]
             /\ Answer(next)
  /\ UNCHANGED <<tagemon, deployment>>

deleteConfigMap ==
  /\ At("deleteConfigMap")
  /\ LET name == job.tagemon.status.configMap
         next == [job EXCEPT !.at = "deleteDeployment"]
     IN IF IsNotFound(Read(configMap, name))
        THEN GoOn(next) /\ UNCHANGED configMap
        ELSE IF Stored(configMap[name]) = NoObject
             THEN Fail /\ UNCHANGED configMap        \* NotFound
             ELSE /\ configMap' = [configMap EXCEPT ![name] = Put(@, NoObject)]
                  /\ Answer(next)
  /\ UNCHANGED <<tagemon, deployment>>

deleteDeployment ==
  /\ At("deleteDeployment")
  /\ LET name == job.tagemon.status.deployment
         next == [job EXCEPT !.at = "removeFinalizer"]
     IN IF IsNotFound(Read(deployment, name))
        THEN GoOn(next) /\ UNCHANGED deployment
        ELSE IF Stored(deployment[name]) = NoObject
             THEN Fail /\ UNCHANGED deployment       \* NotFound
             ELSE /\ deployment' = [deployment EXCEPT ![name] = Put(@, NoObject)]
                  /\ Answer(next)
  /\ UNCHANGED <<tagemon, configMap>>

(* The API server lets a Tagemon go once its last finalizer is removed.    *)
removeFinalizer ==
  /\ At("removeFinalizer")
  /\ UpdateTagemon(NoObject, NoJob, Fail)
  /\ UNCHANGED <<configMap, deployment>>

HandlerStep ==
  \/ createConfigMap \/ createDeployment \/ createStatus \/ addFinalizer
  \/ updateConfigMap \/ annotateDeployment \/ updateDeployment \/ modifyStatus
  \/ deleteConfigMap \/ deleteDeployment \/ removeFinalizer

-----------------------------------------------------------------------------
(* What can fail                                                           *)

(* Mutant of CallFails: the error of the handler's first call is dropped.  *)
CallFailsUnnoticed ==
  /\ Fault
  /\ \/ /\ At("updateConfigMap")
        /\ job' = [job EXCEPT !.at = "annotateDeployment"]
     \/ /\ At("deleteConfigMap")
        /\ job' = [job EXCEPT !.at = "deleteDeployment"]
  /\ UNCHANGED <<cluster, workqueue>>

(* A call is refused or times out without effect.                          *)
CallFails ==
  /\ job # NoJob
  /\ Fault
  /\ Retry
  /\ UNCHANGED cluster

(* The manager stops between two steps and starts again: new caches are    *)
(* filled from the API server and every Tagemon is queued.                 *)
Crash ==
  /\ Fault
  /\ job' = NoJob
  /\ tagemon' = [t \in Tagemons |-> Relisted(tagemon[t])]
  /\ configMap' = [n \in Names |-> Relisted(configMap[n])]
  /\ deployment' = [n \in Names |-> Relisted(deployment[n])]
  /\ workqueue' = {t \in Tagemons : Stored(tagemon[t]) # NoObject}

-----------------------------------------------------------------------------
(* Users, other controllers and the caches                                 *)

Spend(what, bound) == /\ spent[what] < bound
                      /\ spent' = [spent EXCEPT ![what] = @ + 1]

(* A write by someone else makes a handler's working copy old.             *)
OthersWrite(t, version) ==
  /\ tagemon' = [tagemon EXCEPT ![t] = Written(@, version)]
  /\ job' = IF job # NoJob /\ job.name = t
            THEN [job EXCEPT !.current = FALSE] ELSE job
  /\ UNCHANGED <<configMap, deployment, workqueue>>

NewTagemon(spec) ==
  [spec |-> spec, generation |-> 1, finalizer |-> FALSE, deleting |-> FALSE,
   status |-> [observed |-> 0, id |-> NoId,
               configMap |-> NoName, deployment |-> NoName]]

CreateTagemon(t) ==
  /\ Stored(tagemon[t]) = NoObject
  /\ Spend("creations", MaxCreations)
  /\ \E spec \in Specs : OthersWrite(t, NewTagemon(spec))

(* The API server raises the generation with every change of the spec.     *)
EditSpec(t) ==
  LET object == Stored(tagemon[t])
  IN /\ object # NoObject
     /\ object.generation < MaxGeneration
     /\ \E spec \in Specs \ {object.spec} :
          OthersWrite(t, [object EXCEPT !.spec = spec, !.generation = @ + 1])
     /\ UNCHANGED spent

(* A label, an annotation: a new version, the same generation.             *)
TouchTagemon(t) ==
  /\ Stored(tagemon[t]) # NoObject
  /\ Spend("touches", MaxTouches)
  /\ OthersWrite(t, Stored(tagemon[t]))

DeleteTagemon(t) ==
  LET object == Stored(tagemon[t])
  IN /\ object # NoObject
     /\ ~object.deleting
     /\ OthersWrite(t, IF object.finalizer THEN [object EXCEPT !.deleting = TRUE]
                       ELSE NoObject)
     /\ UNCHANGED spent

(* The Deployment controller reports progress in the Deployment's status.  *)
TouchDeployment(n) ==
  /\ ReadsLag
  /\ Stored(deployment[n]) # NoObject
  /\ Spend("touches", MaxTouches)
  /\ deployment' = [deployment EXCEPT ![n] = Written(@, Stored(@))]
  /\ UNCHANGED <<tagemon, configMap, workqueue, job>>

Deleting(t) == Stored(tagemon[t]) # NoObject /\ Stored(tagemon[t]).deleting

MayRemove == RemovedAtAnyTime \/ \E t \in Tagemons : Deleting(t)

RemoveConfigMap(n) ==
  /\ MayRemove
  /\ Stored(configMap[n]) # NoObject
  /\ Spend("removals", MaxRemovals)
  /\ configMap' = [configMap EXCEPT ![n] = Put(@, NoObject)]
  /\ UNCHANGED <<tagemon, deployment, workqueue, job>>

RemoveDeployment(n) ==
  /\ MayRemove
  /\ Stored(deployment[n]) # NoObject
  /\ Spend("removals", MaxRemovals)
  /\ deployment' = [deployment EXCEPT ![n] = Put(@, NoObject)]
  /\ UNCHANGED <<tagemon, configMap, workqueue, job>>

(* A watch event brings the cache one version further; one of a Tagemon    *)
(* also puts it on the work queue.                                         *)
DeliverTagemon(t) ==
  /\ ~UpToDate(tagemon[t])
  /\ tagemon' = [tagemon EXCEPT ![t] = Delivered(@)]
  /\ workqueue' = workqueue \cup {t}
  /\ UNCHANGED <<configMap, deployment, job, spent>>

DeliverConfigMap(n) ==
  /\ ~UpToDate(configMap[n])
  /\ configMap' = [configMap EXCEPT ![n] = Delivered(@)]
  /\ UNCHANGED <<tagemon, deployment, workqueue, job, spent>>

DeliverDeployment(n) ==
  /\ ~UpToDate(deployment[n])
  /\ deployment' = [deployment EXCEPT ![n] = Delivered(@)]
  /\ UNCHANGED <<tagemon, configMap, workqueue, job, spent>>

UserStep == \E t \in Tagemons :
  CreateTagemon(t) \/ EditSpec(t) \/ TouchTagemon(t) \/ DeleteTagemon(t)

ClusterStep == \E n \in Names :
  \/ TouchDeployment(n) \/ RemoveConfigMap(n) \/ RemoveDeployment(n)
  \/ DeliverConfigMap(n) \/ DeliverDeployment(n)

Next ==
  \/ \E t \in Tagemons : Reconcile(t) \/ DeliverTagemon(t)
  \/ HandlerStep
  \/ CallFails \/ Crash
  \/ UserStep
  \/ ClusterStep

Spec == Init /\ [][Next]_vars

(* The worker and the watches never stop, and the work queue is served in  *)
(* turn, so that a Tagemon queued again and again is reconciled.  Nothing  *)
(* is assumed of users, nor of failures.                                   *)
Fairness ==
  /\ WF_vars(HandlerStep)
  /\ \A t \in Tagemons : SF_vars(Reconcile(t)) /\ WF_vars(DeliverTagemon(t))
  /\ \A n \in Names : /\ WF_vars(DeliverConfigMap(n))
                      /\ WF_vars(DeliverDeployment(n))

FairSpec == Spec /\ Fairness

-----------------------------------------------------------------------------
(* Reads that mislead.  When the cache says that there is nothing to do, a *)
(* handler goes on without asking the API server, which may store an       *)
(* object that is still to be written or deleted.                          *)

Configured(found, spec) == IsNotFound(found) \/ found.config = generateYACEConfig(spec)

Sized(found, spec) == IsNotFound(found) \/ found.resources = spec.resources

UpdateMisled ==
  /\ job # NoJob
  /\ LET spec == job.tagemon.spec
         status == job.tagemon.status
     IN \/ /\ job.at = "updateConfigMap"
           /\ Configured(Read(configMap, status.configMap), spec)
           /\ status.configMap # NoName
           /\ ~Configured(Stored(configMap[status.configMap]), spec)
        \/ /\ job.at = "updateDeployment"
           /\ Sized(Read(deployment, status.deployment), spec)
           /\ status.deployment # NoName
           /\ ~Sized(Stored(deployment[status.deployment]), spec)

DeletionMisled ==
  /\ job # NoJob
  /\ LET status == job.tagemon.status
     IN \/ /\ job.at = "deleteConfigMap"
           /\ IsNotFound(Read(configMap, status.configMap))
           /\ status.configMap # NoName
           /\ ~IsNotFound(Stored(configMap[status.configMap]))
        \/ /\ job.at = "deleteDeployment"
           /\ IsNotFound(Read(deployment, status.deployment))
           /\ status.deployment # NoName
           /\ ~IsNotFound(Stored(deployment[status.deployment]))

(* The handler is through with a step and has the next one to do.          *)
GoesOn == job' # NoJob /\ job'.at # job.at

UpdatesNotMisled == UpdateMisled => ~GoesOn

DeletionsNotMisled == DeletionMisled => ~GoesOn

(* Caches may be old, but no handler goes on because of it.                *)
NotMisledSpec == Init /\ [][Next /\ UpdatesNotMisled /\ DeletionsNotMisled]_vars

-----------------------------------------------------------------------------
(* Properties                                                              *)

TypeOK ==
  /\ tagemon \in [Tagemons -> Versions(Tagemon)]
  /\ configMap \in [Names -> Versions(ConfigMap)]
  /\ deployment \in [Names -> Versions(Deployment)]
  /\ workqueue \subseteq Tagemons
  /\ job \in Job \cup {NoJob}
  /\ spent \in [creations: 0..MaxCreations, touches: 0..MaxTouches,
                faults: 0..MaxFaults, removals: 0..MaxRemovals]

Live(t) == Stored(tagemon[t]) # NoObject /\ ~Stored(tagemon[t]).deleting

(* A Tagemon whose creation has been written to its status.                *)
Recorded(t) == Live(t) /\ Stored(tagemon[t]).status.observed > 0

(* The status names what a deletion has to remove.                         *)
RecordsResources(object) ==
  /\ object.status.observed > 0
  /\ object.status.configMap \in Names
  /\ object.status.deployment \in Names

(* A Tagemon carries the finalizer only when its status names what a       *)
(* deletion has to remove: a finalizer written from a working copy whose   *)
(* status was refused would make handleDelete remove nothing.              *)
RecordedBeforeFinalizer ==
  \A t \in Tagemons : \A object \in Range(tagemon[t]) \ {NoObject} :
    object.finalizer => RecordsResources(object)

(* The ConfigMap and the Deployment a Tagemon's status names exist and are *)
(* those its own creation made, whatever crashed, was lost, deleted and    *)
(* created again under the same name before.                               *)
OwnsWhatItRecords ==
  \A t \in Tagemons : Recorded(t) =>
    LET status == Stored(tagemon[t]).status
        its(versions) == Stored(versions) # NoObject /\ Stored(versions).id = status.id
    IN its(configMap[status.configMap]) /\ its(deployment[status.deployment])

(* Retries restart the pods at most once for every change of the spec.     *)
RestartsFollowEdits ==
  \A t \in Tagemons : Recorded(t) =>
    LET object == Stored(tagemon[t])
        its == Stored(deployment[object.status.deployment])
    IN its # NoObject /\ its.id = object.status.id
         => its.restarted < object.generation

(* Once a generation is reported as observed, the configuration and the    *)
(* pod resources of that generation are what the API server stores.        *)
ObservedMeansApplied ==
  \A t \in Tagemons :
    LET object == Stored(tagemon[t])
        status == object.status
    IN Recorded(t) /\ status.observed = object.generation =>
         /\ Stored(configMap[status.configMap]).config = generateYACEConfig(object.spec)
         /\ Stored(deployment[status.deployment]).resources = object.spec.resources

(* ... and so is the scraping interval the pod is started with.            *)
ObservedMeansInterval ==
  \A t \in Tagemons :
    LET object == Stored(tagemon[t])
    IN Recorded(t) /\ object.status.observed = object.generation =>
         Stored(deployment[object.status.deployment]).interval = object.spec.interval

(* The finalizer lets a Tagemon go only after the ConfigMap and the        *)
(* Deployment its status names are gone.                                   *)
DeletionLeavesNothing ==
  [][\A t \in Tagemons :
       LET object == Stored(tagemon[t])
       IN object # NoObject /\ object.finalizer /\ Stored(tagemon'[t]) = NoObject =>
            /\ Stored(configMap'[object.status.configMap]) = NoObject
            /\ Stored(deployment'[object.status.deployment]) = NoObject]_vars

(* A deletion ends, through conflicts, failed calls, crashes and resources *)
(* that others have deleted already.                                       *)
DeletionCompletes == \A t \in Tagemons : Deleting(t) ~> ~Deleting(t)

(* Every Tagemon gets its Deployment unless it is deleted first.           *)
EveryTagemonServed == \A t \in Tagemons : Live(t) ~> (Recorded(t) \/ ~Live(t))

(* A Tagemon that has its Deployment gets the finalizer that cleans up.    *)
RecordedGetsFinalizer ==
  \A t \in Tagemons :
    Recorded(t) ~> (~Recorded(t) \/ Stored(tagemon[t]).finalizer)
===============================================================================
