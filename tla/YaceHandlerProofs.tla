-------------------------- MODULE YaceHandlerProofs ---------------------------
(***************************************************************************)
(* What holds of YaceHandler for every value of its constants: any number  *)
(* of Tagemons, whether or not their names collide, caches that lag behind *)
(* or not, and any bounds on edits, faults and removals.                   *)
(***************************************************************************)
EXTENDS YaceHandler, SequenceTheorems, TLAPS

-----------------------------------------------------------------------------
(* How reads, writes and deliveries act on the versions of an object       *)

(* What the cache holds and what the API server stores are objects, and    *)
(* versions among those in sight.                                          *)
LEMMA VersionsEnds ==
  ASSUME NEW Object, NEW versions \in Versions(Object)
  PROVE  /\ Cached(versions) \in Object \cup {NoObject}
         /\ Stored(versions) \in Object \cup {NoObject}
         /\ Cached(versions) \in Range(versions)
         /\ Stored(versions) \in Range(versions)
<1>1. /\ versions \in Seq(Object \cup {NoObject})
      /\ Len(versions) \in Nat \ {0}
  BY EmptySeq DEF Versions
<1>2. 1 \in DOMAIN versions /\ Len(versions) \in DOMAIN versions
  BY <1>1
<1>3. Head(versions) = versions[1]
  BY <1>1
<1> QED
  BY <1>1, <1>2, <1>3 DEF Cached, Stored, Range

(* A write adds one version.                                               *)
LEMMA VersionsWritten ==
  ASSUME NEW Object, NEW versions \in Versions(Object),
         NEW version \in Object \cup {NoObject}
  PROVE  /\ Written(versions, version) \in Versions(Object)
         /\ Range(Written(versions, version)) \subseteq Range(versions) \cup {version}
<1>1. /\ versions \in Seq(Object \cup {NoObject})
      /\ Append(versions, version) \in Seq(Object \cup {NoObject})
      /\ Len(Append(versions, version)) = Len(versions) + 1
      /\ DOMAIN Append(versions, version) = 1..(Len(versions) + 1)
      /\ DOMAIN versions = 1..Len(versions)
      /\ \A i \in 1..Len(versions) : Append(versions, version)[i] = versions[i]
      /\ Append(versions, version)[Len(versions) + 1] = version
  BY DEF Versions
<1>2. Append(versions, version) # << >>
  BY <1>1
<1>3. ASSUME NEW i \in 1..(Len(versions) + 1)
      PROVE  Append(versions, version)[i] \in Range(versions) \cup {version}
  <2>1. CASE i = Len(versions) + 1
    BY <1>1, <2>1
  <2>2. CASE i \in 1..Len(versions)
    BY <1>1, <2>2 DEF Range
  <2> QED
    BY <1>1, <2>1, <2>2
<1> QED
  BY <1>1, <1>2, <1>3 DEF Written, Versions, Range

(* A delivery drops one version, and never the last.                       *)
LEMMA VersionsDelivered ==
  ASSUME NEW Object, NEW versions \in Versions(Object), ~UpToDate(versions)
  PROVE  /\ Delivered(versions) \in Versions(Object)
         /\ Range(Delivered(versions)) \subseteq Range(versions)
<1>0. versions \in Seq(Object \cup {NoObject}) /\ versions # << >>
  BY DEF Versions
<1>1. /\ Len(versions) \in Nat
      /\ Len(versions) > 1
      /\ DOMAIN versions = 1..Len(versions)
  <2>1. Len(versions) \in Nat \ {0} /\ DOMAIN versions = 1..Len(versions)
    BY <1>0, EmptySeq, LenProperties
  <2>2. Len(versions) # 1
    BY DEF UpToDate
  <2> QED
    BY <2>1, <2>2
<1>2. /\ Tail(versions) \in Seq(Object \cup {NoObject})
      /\ Len(Tail(versions)) = Len(versions) - 1
      /\ DOMAIN Tail(versions) = 1..(Len(versions) - 1)
      /\ \A i \in 1..(Len(versions) - 1) : Tail(versions)[i] = versions[i + 1]
  BY <1>0, <1>1, HeadTailProperties
<1>3. Tail(versions) # << >>
  BY <1>1, <1>2, EmptySeq
<1>4. ASSUME NEW i \in DOMAIN Tail(versions)
      PROVE  Tail(versions)[i] \in Range(versions)
  BY <1>1, <1>2 DEF Range
<1> QED
  BY <1>2, <1>3, <1>4 DEF Delivered, Versions, Range

(* A sequence of one version.                                              *)
LEMMA VersionsSingle ==
  ASSUME NEW Object, NEW version \in Object \cup {NoObject}
  PROVE  /\ <<version>> \in Versions(Object)
         /\ Range(<<version>>) = {version}
BY DEF Versions, Range

(* A new informer starts from the stored version.                          *)
LEMMA VersionsRelisted ==
  ASSUME NEW Object, NEW versions \in Versions(Object)
  PROVE  /\ Relisted(versions) \in Versions(Object)
         /\ Range(Relisted(versions)) \subseteq Range(versions)
BY VersionsEnds, VersionsSingle DEF Relisted

(* What the API server stores after a write is what was written; what      *)
(* caches do does not change it; and a cache that is up to date holds it   *)
(* and nothing else is on its way.                                         *)
LEMMA VersionsStored ==
  ASSUME NEW Object, NEW versions \in Versions(Object), NEW version
  PROVE  /\ Stored(Written(versions, version)) = version
         /\ Stored(<<version>>) = version
         /\ Stored(Relisted(versions)) = Stored(versions)
         /\ ~UpToDate(versions) => Stored(Delivered(versions)) = Stored(versions)
         /\ UpToDate(versions) => /\ Cached(versions) = Stored(versions)
                                  /\ Range(versions) = {Stored(versions)}
<1>0. /\ versions \in Seq(Object \cup {NoObject})
      /\ versions # << >>
      /\ Len(versions) \in Nat \ {0}
  BY EmptySeq DEF Versions
<1>1. Stored(Written(versions, version)) = version
  <2>1. versions \in Seq(Object \cup {NoObject, version})
    BY <1>0
  <2>2. Len(Append(versions, version)) = Len(versions) + 1
    BY <2>1
  <2>3. Append(versions, version)[Len(versions) + 1] = version
    BY <2>1, <1>0
  <2> QED
    BY <2>2, <2>3 DEF Stored, Written
<1>2. Stored(<<version>>) = version
  BY DEF Stored
<1>3. Stored(Relisted(versions)) = Stored(versions)
  BY DEF Stored, Relisted
<1>4. ASSUME ~UpToDate(versions)
      PROVE  Stored(Delivered(versions)) = Stored(versions)
  <2>1. Len(versions) > 1
    <3>1. Len(versions) # 1
      BY <1>4 DEF UpToDate
    <3>2. \A n \in Nat \ {0} : n # 1 => n > 1
      OBVIOUS
    <3> QED
      BY <1>0, <3>1, <3>2
  <2>2. /\ Len(Tail(versions)) = Len(versions) - 1
        /\ \A i \in 1..(Len(versions) - 1) : Tail(versions)[i] = versions[i + 1]
    BY <1>0, HeadTailProperties
  <2>3. Len(versions) - 1 \in 1..(Len(versions) - 1) /\ (Len(versions) - 1) + 1 = Len(versions)
    BY <1>0, <2>1
  <2>4. Tail(versions)[Len(Tail(versions))] = versions[Len(versions)]
    BY <2>2, <2>3
  <2> QED
    BY <2>4 DEF Delivered, Stored
<1>5. ASSUME UpToDate(versions)
      PROVE  /\ Cached(versions) = Stored(versions)
             /\ Range(versions) = {Stored(versions)}
  <2>1. Len(versions) = 1 /\ DOMAIN versions = {1}
    BY <1>0, <1>5 DEF UpToDate
  <2>2. Head(versions) = versions[1]
    BY <1>0
  <2> QED
    BY <2>1, <2>2 DEF Cached, Stored, Range
<1> QED
  BY <1>1, <1>2, <1>3, <1>4, <1>5

-----------------------------------------------------------------------------
(* Types                                                                   *)

(* A write to a ConfigMap or Deployment, whether or not reads lag.         *)
LEMMA VersionsPut ==
  ASSUME NEW Object, NEW versions \in Versions(Object),
         NEW version \in Object \cup {NoObject}
  PROVE  Put(versions, version) \in Versions(Object)
BY VersionsWritten, VersionsSingle DEF Put

(* Of the working copy: a creation has its uuid before it writes anything, *)
(* the names of what it has written before it writes more, and the status  *)
(* before the finalizer; and a copy with the finalizer names its resources.*)
WorkingCopyInv ==
  job # NoJob =>
    LET status == job.tagemon.status
    IN /\ job.at \in {"createConfigMap", "createDeployment"} => status.id \in Ids
       /\ job.at \in {"createDeployment", "createStatus", "addFinalizer"} =>
            status.configMap \in Names
       /\ job.at \in {"createStatus", "addFinalizer"} => status.deployment \in Names
       /\ job.at = "addFinalizer" => status.observed > 0
       /\ job.tagemon.finalizer => RecordsResources(job.tagemon)

(* TypeOK alone is not inductive, as createConfigMap copies the working    *)
(* copy's id, nor is RecordedBeforeFinalizer, as addFinalizer writes its   *)
(* status.                                                                 *)
IndInv == TypeOK /\ RecordedBeforeFinalizer /\ WorkingCopyInv

(* Retry, Fail, GoOn and Answer leave the work queue, the worker and the   *)
(* counters well-typed.                                                    *)
LEMMA GoOnType ==
  ASSUME TypeOK, job # NoJob, NEW next \in Job \cup {NoJob}
  PROVE  /\ (GoOn(next) \/ Fail \/ Answer(next)) =>
              /\ workqueue' \subseteq Tagemons
              /\ job' \in Job \cup {NoJob}
              /\ spent' \in [creations: 0..MaxCreations, touches: 0..MaxTouches,
                             faults: 0..MaxFaults, removals: 0..MaxRemovals]
         /\ (Fault /\ Retry) =>
              /\ workqueue' \subseteq Tagemons
              /\ job' \in Job \cup {NoJob}
              /\ spent' \in [creations: 0..MaxCreations, touches: 0..MaxTouches,
                             faults: 0..MaxFaults, removals: 0..MaxRemovals]
<1>1. job.name \in Tagemons
  BY DEF TypeOK, Job
<1>2. Retry => workqueue' \subseteq Tagemons /\ job' \in Job \cup {NoJob}
  BY <1>1 DEF Retry, TypeOK
<1>3. Fault => spent' \in [creations: 0..MaxCreations, touches: 0..MaxTouches,
                           faults: 0..MaxFaults, removals: 0..MaxRemovals]
  BY BoundsAssumption DEF Fault, TypeOK
<1> QED
  BY <1>2, <1>3 DEF GoOn, Fail, Answer, TypeOK

(* The handler's working copy is a Tagemon, as are the versions it writes. *)
LEMMA WorkingCopyType ==
  ASSUME TypeOK, job # NoJob
  PROVE  /\ job \in Job
         /\ job.name \in Tagemons
         /\ job.tagemon \in Tagemon
         /\ Observed(job.tagemon) \in Tagemon
         /\ [job.tagemon EXCEPT !.finalizer = TRUE] \in Tagemon
         /\ generateYACEConfig(job.tagemon.spec) \in Config
         /\ ResourceName \in Names
         /\ \A name \in Names : WithConfigMapName(job.tagemon, name) \in Tagemon
<1>1. job \in Job /\ job.name \in Tagemons /\ job.tagemon \in Tagemon
  BY DEF TypeOK, Job
<1>2. job.tagemon.spec \in [query: Queries, interval: Intervals,
                            resources: Resources, naming: Namings]
  BY <1>1, SpecsAssumption DEF Tagemon
<1>3. generateYACEConfig(job.tagemon.spec) \in Config
  BY <1>2 DEF generateYACEConfig, Config
<1>4. ResourceName \in Names
  BY <1>1, <1>2, NamesAssumption DEF ResourceName
<1>5. Observed(job.tagemon) \in Tagemon
  BY <1>1 DEF Observed, Tagemon, Status
<1>6. [job.tagemon EXCEPT !.finalizer = TRUE] \in Tagemon
  BY <1>1 DEF Tagemon
<1>7. \A name \in Names : WithConfigMapName(job.tagemon, name) \in Tagemon
  BY <1>1 DEF WithConfigMapName, Tagemon, Status
<1> QED
  BY <1>1, <1>3, <1>4, <1>5, <1>6, <1>7

(* An Update of the Tagemon by a handler.                                  *)
LEMMA UpdateTagemonType ==
  ASSUME TypeOK, job # NoJob,
         NEW version \in Tagemon \cup {NoObject},
         NEW accepted \in Job \cup {NoJob},
         NEW other \in Job \cup {NoJob},
         UNCHANGED <<configMap, deployment>>,
         \/ UpdateTagemon(version, accepted, GoOn(other))
         \/ UpdateTagemon(version, accepted, Fail)
  PROVE  TypeOK'
<1>1. job.name \in Tagemons
  BY WorkingCopyType
<1>2. tagemon' \in [Tagemons -> Versions(Tagemon)]
  <2>1. tagemon[job.name] \in Versions(Tagemon)
    BY <1>1 DEF TypeOK
  <2>2. Written(tagemon[job.name], version) \in Versions(Tagemon)
    BY <2>1, VersionsWritten
  <2> QED
    BY <2>2 DEF UpdateTagemon, TypeOK
<1>3. GoOn(other) \/ Fail \/ Answer(accepted)
  BY DEF UpdateTagemon
<1> QED
  BY <1>2, <1>3, GoOnType DEF TypeOK

(* A write to a ConfigMap or to a Deployment keeps all of them well-typed. *)
LEMMA PutType ==
  ASSUME TypeOK, NEW name \in Names
  PROVE  /\ \A object \in ConfigMap \cup {NoObject} :
              [configMap EXCEPT ![name] = Put(@, object)]
                \in [Names -> Versions(ConfigMap)]
         /\ \A object \in Deployment \cup {NoObject} :
              [deployment EXCEPT ![name] = Put(@, object)]
                \in [Names -> Versions(Deployment)]
<1>1. configMap[name] \in Versions(ConfigMap) /\ deployment[name] \in Versions(Deployment)
  BY DEF TypeOK
<1>2. ASSUME NEW object \in ConfigMap \cup {NoObject}
      PROVE  Put(configMap[name], object) \in Versions(ConfigMap)
  BY <1>1, VersionsPut
<1>3. ASSUME NEW object \in Deployment \cup {NoObject}
      PROVE  Put(deployment[name], object) \in Versions(Deployment)
  BY <1>1, VersionsPut
<1> QED
  BY <1>2, <1>3 DEF TypeOK

(* What a handler reads by a name of a status.                             *)
LEMMA ReadType ==
  ASSUME TypeOK, NEW name \in Names \cup {NoName}
  PROVE  /\ ~IsNotFound(Read(configMap, name)) =>
              name \in Names /\ Read(configMap, name) \in ConfigMap
         /\ ~IsNotFound(Read(deployment, name)) =>
              name \in Names /\ Read(deployment, name) \in Deployment
<1>1. CASE name = NoName
  BY <1>1 DEF Read, IsNotFound
<1>2. CASE name \in Names
  <2>1. configMap[name] \in Versions(ConfigMap) /\ deployment[name] \in Versions(Deployment)
    BY <1>2 DEF TypeOK
  <2>2. /\ Cached(configMap[name]) \in ConfigMap \cup {NoObject}
        /\ Cached(deployment[name]) \in Deployment \cup {NoObject}
    BY <2>1, VersionsEnds
  <2> QED
    BY <1>2, <2>2, NamesAssumption DEF Read, IsNotFound
<1> QED
  BY <1>1, <1>2

(* Reconcile starts a handler on the cached Tagemon.                       *)
LEMMA ReconcileType ==
  ASSUME TypeOK, NEW t \in Tagemons, Reconcile(t)
  PROVE  TypeOK'
<1> DEFINE object == Cached(tagemon[t])
<1>1. tagemon[t] \in Versions(Tagemon)
  BY DEF TypeOK
<1>2. object \in Tagemon \cup {NoObject}
  BY <1>1, VersionsEnds
<1>3. ChosenHandler(object) # "none" => object \in Tagemon
  BY <1>2 DEF ChosenHandler, IsNotFound
<1>4. UpToDate(tagemon[t]) \in BOOLEAN
  BY DEF UpToDate
<1>5. ASSUME NEW step \in HandlerSteps, NEW copy \in Tagemon
      PROVE  Started(t, step, copy) \in Job
  BY <1>4 DEF Started, Job
<1>6. job' \in Job \cup {NoJob}
  <2>1. CASE ChosenHandler(object) = "none" /\ job' = NoJob
    BY <2>1
  <2>2. CASE ChosenHandler(object) = "create" /\ handleCreate(t, object)
    <3>1. PICK id \in Ids :
            job' = Started(t, "createConfigMap", [object EXCEPT !.status.id = id])
      BY <2>2 DEF handleCreate
    <3>2. [object EXCEPT !.status.id = id] \in Tagemon
      BY <1>3, <2>2 DEF Tagemon, Status
    <3> QED
      BY <1>5, <3>1, <3>2 DEF HandlerSteps
  <2>3. CASE ChosenHandler(object) = "modify" /\ handleModify(t, object)
    BY <1>3, <1>5, <2>3 DEF handleModify, HandlerSteps
  <2>4. CASE ChosenHandler(object) = "delete" /\ handleDelete(t, object)
    BY <1>3, <1>5, <2>4 DEF handleDelete, HandlerSteps
  <2> QED
    BY <2>1, <2>2, <2>3, <2>4 DEF Reconcile
<1> QED
  BY <1>6 DEF Reconcile, TypeOK, cluster

(* The steps of handleCreate.                                              *)
LEMMA CreateStepsType ==
  ASSUME IndInv, createConfigMap \/ createDeployment \/ createStatus \/ addFinalizer
  PROVE  TypeOK'
<1>0. /\ TypeOK /\ WorkingCopyInv
      /\ job # NoJob /\ job \in Job
  BY WorkingCopyType
     DEF IndInv, createConfigMap, createDeployment, createStatus, addFinalizer, At
<1>1. CASE createConfigMap
  <2> DEFINE next == [job EXCEPT !.at = "createDeployment",
                                 !.tagemon = WithConfigMapName(@, ResourceName)]
  <2>1. ResourceName \in Names /\ next \in Job
    BY <1>0, WorkingCopyType DEF Job, HandlerSteps
  <2>2. NewConfigMap \in ConfigMap
    <3>1. job.tagemon.status.id \in Ids
      BY <1>0, <1>1 DEF WorkingCopyInv, createConfigMap, At
    <3> QED
      BY <1>0, <3>1, WorkingCopyType DEF NewConfigMap, ConfigMap
  <2>3. configMap' \in [Names -> Versions(ConfigMap)]
    <3>1. CASE UNCHANGED configMap
      BY <1>0, <3>1 DEF TypeOK
    <3>2. CASE configMap' = [configMap EXCEPT ![ResourceName] = Put(@, NewConfigMap)]
      BY <1>0, <2>1, <2>2, <3>2, PutType
    <3> QED
      BY <1>1, <3>1, <3>2 DEF createConfigMap
  <2>4. Answer(next) \/ Fail
    BY <1>1 DEF createConfigMap
  <2> QED
    BY <1>0, <1>1, <2>1, <2>3, <2>4, GoOnType DEF createConfigMap, TypeOK
<1>2. CASE createDeployment
  <2> DEFINE next == [job EXCEPT !.at = "createStatus",
                                 !.tagemon.status.deployment = ResourceName]
  <2>1. ResourceName \in Names /\ job.tagemon \in Tagemon
    BY <1>0, WorkingCopyType
  <2>2. next \in Job
    <3>1. [job.tagemon EXCEPT !.status.deployment = ResourceName] \in Tagemon
      BY <2>1 DEF Tagemon, Status
    <3>2. next = [job EXCEPT !.at = "createStatus",
                    !.tagemon = [job.tagemon EXCEPT !.status.deployment = ResourceName]]
      BY <1>0, <2>1 DEF Job, Tagemon
    <3> QED
      BY <1>0, <3>1, <3>2 DEF Job, HandlerSteps
  <2>3. NewDeployment \in Deployment
    <3>1. job.tagemon.status.id \in Ids
      BY <1>0, <1>2 DEF WorkingCopyInv, createDeployment, At
    <3>2. job.tagemon.spec.interval \in Intervals /\ job.tagemon.spec.resources \in Resources
      BY <2>1, SpecsAssumption DEF Tagemon
    <3> QED
      BY <3>1, <3>2 DEF NewDeployment, Deployment
  <2>4. deployment' \in [Names -> Versions(Deployment)]
    <3>1. CASE UNCHANGED deployment
      BY <1>0, <3>1 DEF TypeOK
    <3>2. CASE deployment' = [deployment EXCEPT ![ResourceName] = Put(@, NewDeployment)]
      BY <1>0, <2>1, <2>3, <3>2, PutType
    <3> QED
      BY <1>2, <3>1, <3>2 DEF createDeployment
  <2>5. Answer(next) \/ Fail
    BY <1>2 DEF createDeployment
  <2> QED
    BY <1>0, <1>2, <2>2, <2>4, <2>5, GoOnType DEF createDeployment, TypeOK
<1>3. CASE createStatus
  <2> DEFINE next == [job EXCEPT !.at = "addFinalizer", !.tagemon = Observed(job.tagemon)]
  <2>1. next \in Job /\ Observed(job.tagemon) \in Tagemon
    BY <1>0, WorkingCopyType DEF Job, HandlerSteps
  <2> QED
    BY <1>0, <1>3, <2>1, UpdateTagemonType DEF createStatus
<1>4. CASE addFinalizer
  BY <1>0, <1>4, WorkingCopyType, UpdateTagemonType DEF addFinalizer
<1> QED
  BY <1>1, <1>2, <1>3, <1>4

(* The steps of handleModify.                                              *)
LEMMA ModifyStepsType ==
  ASSUME TypeOK,
         updateConfigMap \/ annotateDeployment \/ updateDeployment \/ modifyStatus
  PROVE  TypeOK'
<1>0. /\ job # NoJob /\ job \in Job
      /\ job.tagemon \in Tagemon
      /\ generateYACEConfig(job.tagemon.spec) \in Config
      /\ job.tagemon.spec.resources \in Resources
      /\ job.tagemon.status.configMap \in Names \cup {NoName}
      /\ job.tagemon.status.deployment \in Names \cup {NoName}
  <2>1. job # NoJob
    BY DEF updateConfigMap, annotateDeployment, updateDeployment, modifyStatus, At
  <2> QED
    BY <2>1, WorkingCopyType, SpecsAssumption DEF Tagemon, Status
<1>1. CASE updateConfigMap
  <2> DEFINE name == job.tagemon.status.configMap
             found == Read(configMap, name)
             config == generateYACEConfig(job.tagemon.spec)
             next(changed) == [job EXCEPT !.at = "annotateDeployment",
                                          !.changed = changed]
  <2>1. next(TRUE) \in Job /\ next(FALSE) \in Job
    BY <1>0 DEF Job, HandlerSteps
  <2>2. CASE GoOn(next(FALSE)) /\ UNCHANGED configMap
    BY <1>0, <1>1, <2>1, <2>2, GoOnType DEF updateConfigMap, TypeOK
  <2>3. CASE Fail /\ UNCHANGED configMap
    BY <1>0, <1>1, <2>1, <2>3, GoOnType DEF updateConfigMap, TypeOK
  <2>4. CASE /\ ~IsNotFound(found)
             /\ configMap' = [configMap EXCEPT
                                ![name] = Put(@, [found EXCEPT !.config = config])]
             /\ Answer(next(TRUE))
    <3>1. name \in Names /\ found \in ConfigMap
      BY <1>0, <2>4, ReadType
    <3>2. [found EXCEPT !.config = config] \in ConfigMap
      BY <1>0, <3>1 DEF ConfigMap
    <3>3. configMap' \in [Names -> Versions(ConfigMap)]
      BY <2>4, <3>1, <3>2, PutType
    <3> QED
      BY <1>0, <1>1, <2>1, <2>4, <3>3, GoOnType DEF updateConfigMap, TypeOK
  <2> QED
    BY <1>1, <2>2, <2>3, <2>4 DEF updateConfigMap
<1>2. ASSUME NEW name \in Names, NEW found, NEW updated \in Deployment,
             NEW next \in Job,
             UpdateDeployment(name, found, updated, next),
             UNCHANGED <<tagemon, configMap>>
      PROVE  TypeOK'
  <2>1. deployment' \in [Names -> Versions(Deployment)]
    BY <1>2, PutType DEF UpdateDeployment, TypeOK
  <2>2. Answer(next) \/ Fail
    BY <1>2 DEF UpdateDeployment
  <2> QED
    BY <1>0, <1>2, <2>1, <2>2, GoOnType DEF TypeOK
<1>3. CASE annotateDeployment
  <2> DEFINE name == job.tagemon.status.deployment
             found == Read(deployment, name)
             next == [job EXCEPT !.at = "updateDeployment"]
  <2>1. next \in Job
    BY <1>0 DEF Job, HandlerSteps
  <2>2. CASE GoOn(next) /\ UNCHANGED deployment
    BY <1>0, <1>3, <2>1, <2>2, GoOnType DEF annotateDeployment, TypeOK
  <2>3. CASE /\ ~IsNotFound(found)
             /\ \E stamp \in Stamps(found.restarted) :
                  UpdateDeployment(name, found, [found EXCEPT !.restarted = stamp], next)
    <3>1. name \in Names /\ found \in Deployment
      BY <1>0, <2>3, ReadType
    <3>2. PICK stamp \in Stamps(found.restarted) :
            UpdateDeployment(name, found, [found EXCEPT !.restarted = stamp], next)
      BY <2>3
    <3>3. stamp \in Nat
      BY <3>1, <3>2 DEF Stamps, Deployment
    <3>4. [found EXCEPT !.restarted = stamp] \in Deployment
      BY <3>1, <3>3 DEF Deployment
    <3> QED
      BY <1>2, <1>3, <2>1, <3>1, <3>2, <3>4 DEF annotateDeployment
  <2> QED
    BY <1>3, <2>2, <2>3 DEF annotateDeployment
<1>4. CASE updateDeployment
  <2> DEFINE name == job.tagemon.status.deployment
             found == Read(deployment, name)
             next == [job EXCEPT !.at = "modifyStatus"]
  <2>1. next \in Job
    BY <1>0 DEF Job, HandlerSteps
  <2>2. CASE GoOn(next) /\ UNCHANGED deployment
    BY <1>0, <1>4, <2>1, <2>2, GoOnType DEF updateDeployment, TypeOK
  <2>3. CASE /\ ~IsNotFound(found)
             /\ UpdateDeployment(name, found, applyPodResources(found), next)
    <3>1. name \in Names /\ found \in Deployment
      BY <1>0, <2>3, ReadType
    <3>2. applyPodResources(found) \in Deployment
      BY <1>0, <3>1 DEF applyPodResources, Deployment
    <3> QED
      BY <1>2, <1>4, <2>1, <2>3, <3>1, <3>2 DEF updateDeployment
  <2> QED
    BY <1>4, <2>2, <2>3 DEF updateDeployment
<1>5. CASE modifyStatus
  BY <1>0, <1>5, WorkingCopyType, UpdateTagemonType DEF modifyStatus
<1> QED
  BY <1>1, <1>3, <1>4, <1>5

(* The steps of handleDelete.                                              *)
LEMMA DeleteStepsType ==
  ASSUME TypeOK, deleteConfigMap \/ deleteDeployment \/ removeFinalizer
  PROVE  TypeOK'
<1>0. /\ job # NoJob /\ job \in Job
      /\ job.tagemon.status.configMap \in Names \cup {NoName}
      /\ job.tagemon.status.deployment \in Names \cup {NoName}
  <2>1. job # NoJob
    BY DEF deleteConfigMap, deleteDeployment, removeFinalizer, At
  <2> QED
    BY <2>1, WorkingCopyType DEF Tagemon, Status
<1>1. CASE deleteConfigMap
  <2> DEFINE name == job.tagemon.status.configMap
             next == [job EXCEPT !.at = "deleteDeployment"]
  <2>1. next \in Job
    BY <1>0 DEF Job, HandlerSteps
  <2>2. configMap' \in [Names -> Versions(ConfigMap)]
    <3>1. CASE UNCHANGED configMap
      BY <3>1 DEF TypeOK
    <3>2. CASE /\ ~IsNotFound(Read(configMap, name))
               /\ configMap' = [configMap EXCEPT ![name] = Put(@, NoObject)]
      BY <1>0, <3>2, ReadType, PutType
    <3> QED
      BY <1>1, <3>1, <3>2 DEF deleteConfigMap
  <2>3. GoOn(next) \/ Answer(next) \/ Fail
    BY <1>1 DEF deleteConfigMap
  <2> QED
    BY <1>0, <1>1, <2>1, <2>2, <2>3, GoOnType DEF deleteConfigMap, TypeOK
<1>2. CASE deleteDeployment
  <2> DEFINE name == job.tagemon.status.deployment
             next == [job EXCEPT !.at = "removeFinalizer"]
  <2>1. next \in Job
    BY <1>0 DEF Job, HandlerSteps
  <2>2. deployment' \in [Names -> Versions(Deployment)]
    <3>1. CASE UNCHANGED deployment
      BY <3>1 DEF TypeOK
    <3>2. CASE /\ ~IsNotFound(Read(deployment, name))
               /\ deployment' = [deployment EXCEPT ![name] = Put(@, NoObject)]
      BY <1>0, <3>2, ReadType, PutType
    <3> QED
      BY <1>2, <3>1, <3>2 DEF deleteDeployment
  <2>3. GoOn(next) \/ Answer(next) \/ Fail
    BY <1>2 DEF deleteDeployment
  <2> QED
    BY <1>0, <1>2, <2>1, <2>2, <2>3, GoOnType DEF deleteDeployment, TypeOK
<1>3. CASE removeFinalizer
  BY <1>0, <1>3, UpdateTagemonType DEF removeFinalizer
<1> QED
  BY <1>1, <1>2, <1>3

(* Failed calls and restarts of the manager.                               *)
LEMMA FailuresType ==
  ASSUME TypeOK, CallFails \/ Crash
  PROVE  TypeOK'
<1>1. CASE CallFails
  BY <1>1, GoOnType DEF CallFails, cluster, TypeOK
<1>2. CASE Crash
  <2>1. ASSUME NEW t \in Tagemons
        PROVE  Relisted(tagemon[t]) \in Versions(Tagemon)
    <3>1. tagemon[t] \in Versions(Tagemon)
      BY DEF TypeOK
    <3> QED
      BY <3>1, VersionsRelisted
  <2>2. ASSUME NEW n \in Names
        PROVE  /\ Relisted(configMap[n]) \in Versions(ConfigMap)
               /\ Relisted(deployment[n]) \in Versions(Deployment)
    <3>1. configMap[n] \in Versions(ConfigMap) /\ deployment[n] \in Versions(Deployment)
      BY DEF TypeOK
    <3> QED
      BY <3>1, VersionsRelisted
  <2>3. spent' \in [creations: 0..MaxCreations, touches: 0..MaxTouches,
                    faults: 0..MaxFaults, removals: 0..MaxRemovals]
    BY <1>2, BoundsAssumption DEF Crash, Fault, TypeOK
  <2> QED
    BY <1>2, <2>1, <2>2, <2>3 DEF Crash, TypeOK
<1> QED
  BY <1>1, <1>2

(* A write by a user.                                                      *)
LEMMA OthersWriteType ==
  ASSUME TypeOK, NEW t \in Tagemons, NEW version \in Tagemon \cup {NoObject},
         OthersWrite(t, version),
         spent' \in [creations: 0..MaxCreations, touches: 0..MaxTouches,
                     faults: 0..MaxFaults, removals: 0..MaxRemovals]
  PROVE  TypeOK'
<1>1. tagemon[t] \in Versions(Tagemon)
  BY DEF TypeOK
<1>2. Written(tagemon[t], version) \in Versions(Tagemon)
  BY <1>1, VersionsWritten
<1>3. job' \in Job \cup {NoJob}
  BY DEF OthersWrite, TypeOK, Job
<1> QED
  BY <1>2, <1>3 DEF OthersWrite, TypeOK

(* What is stored of a Tagemon is one, or nothing.                         *)
LEMMA StoredType ==
  ASSUME TypeOK, NEW t \in Tagemons
  PROVE  Stored(tagemon[t]) \in Tagemon \cup {NoObject}
<1>1. tagemon[t] \in Versions(Tagemon)
  BY DEF TypeOK
<1> QED
  BY <1>1, VersionsEnds

(* Counting towards a bound keeps the counters in theirs.                  *)
LEMMA SpendType ==
  ASSUME TypeOK,
         \/ Spend("creations", MaxCreations) \/ Spend("touches", MaxTouches)
         \/ Spend("removals", MaxRemovals)
  PROVE  spent' \in [creations: 0..MaxCreations, touches: 0..MaxTouches,
                     faults: 0..MaxFaults, removals: 0..MaxRemovals]
BY BoundsAssumption DEF Spend, TypeOK

(* What a user creates is a Tagemon.                                       *)
LEMMA NewTagemonType ==
  ASSUME NEW spec \in Specs
  PROVE  NewTagemon(spec) \in Tagemon
BY DEF NewTagemon, Tagemon, Status

(* The users' steps.                                                       *)
LEMMA UserStepsType ==
  ASSUME TypeOK, NEW t \in Tagemons,
         CreateTagemon(t) \/ EditSpec(t) \/ TouchTagemon(t) \/ DeleteTagemon(t)
  PROVE  TypeOK'
<1> DEFINE object == Stored(tagemon[t])
<1>0. object \in Tagemon \cup {NoObject}
  BY StoredType
<1>1. CASE CreateTagemon(t)
  BY <1>1, SpendType, NewTagemonType, OthersWriteType DEF CreateTagemon
<1>2. CASE EditSpec(t)
  <2>1. object \in Tagemon
    BY <1>0, <1>2 DEF EditSpec
  <2>2. PICK spec \in Specs :
          OthersWrite(t, [object EXCEPT !.spec = spec, !.generation = @ + 1])
    BY <1>2 DEF EditSpec
  <2>3. [object EXCEPT !.spec = spec, !.generation = @ + 1] \in Tagemon
    <3>1. object.generation \in Nat \ {0} /\ object.generation + 1 \in Nat \ {0}
      BY <2>1 DEF Tagemon
    <3> HIDE DEF object
    <3> QED
      BY <2>1, <3>1 DEF Tagemon
  <2> QED
    BY <1>2, <2>2, <2>3, OthersWriteType DEF EditSpec, TypeOK
<1>3. CASE TouchTagemon(t)
  BY <1>0, <1>3, SpendType, OthersWriteType DEF TouchTagemon
<1>4. CASE DeleteTagemon(t)
  <2>1. object \in Tagemon
    BY <1>0, <1>4 DEF DeleteTagemon
  <2>2. [object EXCEPT !.deleting = TRUE] \in Tagemon
    BY <2>1 DEF Tagemon
  <2> QED
    BY <1>4, <2>2, OthersWriteType DEF DeleteTagemon, TypeOK
<1> QED
  BY <1>1, <1>2, <1>3, <1>4

(* Watch events of Tagemons.                                               *)
LEMMA DeliverTagemonType ==
  ASSUME TypeOK, NEW t \in Tagemons, DeliverTagemon(t)
  PROVE  TypeOK'
<1>1. tagemon[t] \in Versions(Tagemon) /\ ~UpToDate(tagemon[t])
  BY DEF TypeOK, DeliverTagemon
<1>2. Delivered(tagemon[t]) \in Versions(Tagemon)
  BY <1>1, VersionsDelivered
<1> QED
  BY <1>2 DEF DeliverTagemon, TypeOK

(* What befalls ConfigMaps and Deployments.                                *)
LEMMA ClusterStepsType ==
  ASSUME TypeOK, ClusterStep
  PROVE  TypeOK'
<1>1. PICK n \in Names :
        \/ TouchDeployment(n) \/ RemoveConfigMap(n) \/ RemoveDeployment(n)
        \/ DeliverConfigMap(n) \/ DeliverDeployment(n)
  BY DEF ClusterStep
<1>2. configMap[n] \in Versions(ConfigMap) /\ deployment[n] \in Versions(Deployment)
  BY DEF TypeOK
<1>3. CASE TouchDeployment(n)
  <2>1. Written(deployment[n], Stored(deployment[n])) \in Versions(Deployment)
    BY <1>2, VersionsEnds, VersionsWritten
  <2> QED
    BY <1>3, <2>1, SpendType DEF TouchDeployment, TypeOK
<1>4. CASE RemoveConfigMap(n)
  BY <1>4, SpendType, PutType DEF RemoveConfigMap, TypeOK
<1>5. CASE RemoveDeployment(n)
  BY <1>5, SpendType, PutType DEF RemoveDeployment, TypeOK
<1>6. CASE DeliverConfigMap(n)
  <2>1. Delivered(configMap[n]) \in Versions(ConfigMap)
    BY <1>2, <1>6, VersionsDelivered DEF DeliverConfigMap
  <2> QED
    BY <1>6, <2>1 DEF DeliverConfigMap, TypeOK
<1>7. CASE DeliverDeployment(n)
  <2>1. Delivered(deployment[n]) \in Versions(Deployment)
    BY <1>2, <1>7, VersionsDelivered DEF DeliverDeployment
  <2> QED
    BY <1>7, <2>1 DEF DeliverDeployment, TypeOK
<1> QED
  BY <1>1, <1>3, <1>4, <1>5, <1>6, <1>7

(* Every step keeps the types.                                             *)
LEMMA NextType ==
  ASSUME IndInv, [Next]_vars
  PROVE  TypeOK'
<1>0. TypeOK
  BY DEF IndInv
<1>1. ASSUME NEW t \in Tagemons, Reconcile(t) \/ DeliverTagemon(t)
      PROVE  TypeOK'
  BY <1>0, <1>1, ReconcileType, DeliverTagemonType
<1>2. CASE HandlerStep
  BY <1>0, <1>2, CreateStepsType, ModifyStepsType, DeleteStepsType DEF HandlerStep
<1>3. CASE CallFails \/ Crash
  BY <1>0, <1>3, FailuresType
<1>4. CASE UserStep
  BY <1>0, <1>4, UserStepsType DEF UserStep
<1>5. CASE ClusterStep
  BY <1>0, <1>5, ClusterStepsType
<1>6. CASE UNCHANGED vars
  BY <1>0, <1>6 DEF vars, TypeOK
<1> QED
  BY <1>1, <1>2, <1>3, <1>4, <1>5, <1>6 DEF Next

-----------------------------------------------------------------------------
(* The finalizer comes after the record                                    *)

(* A Tagemon as RecordedBeforeFinalizer wants it, or none.                 *)
Finalizable(object) ==
  object # NoObject /\ object.finalizer => RecordsResources(object)

(* Whatever one version is added to the versions of a Tagemon.             *)
LEMMA VersionAdded ==
  ASSUME TypeOK, RecordedBeforeFinalizer, NEW t \in Tagemons,
         NEW versions, NEW version,
         tagemon' = [tagemon EXCEPT ![t] = versions],
         Range(versions) \subseteq Range(tagemon[t]) \cup {version},
         Finalizable(version)
  PROVE  RecordedBeforeFinalizer'
<1> SUFFICES ASSUME NEW s \in Tagemons, NEW object \in Range(tagemon'[s]),
                    object # NoObject, object.finalizer
             PROVE  RecordsResources(object)
  BY DEF RecordedBeforeFinalizer, RecordsResources
<1>1. object \in Range(tagemon[s]) \/ object = version
  BY DEF TypeOK
<1> QED
  BY <1>1 DEF RecordedBeforeFinalizer, Finalizable

(* The cached and the stored version of a Tagemon have the finalizer only  *)
(* with a record.                                                          *)
LEMMA VersionsInSight ==
  ASSUME TypeOK, RecordedBeforeFinalizer, NEW t \in Tagemons
  PROVE  /\ Finalizable(Cached(tagemon[t]))
         /\ Finalizable(Stored(tagemon[t]))
<1>1. tagemon[t] \in Versions(Tagemon)
  BY DEF TypeOK
<1> QED
  BY <1>1, VersionsEnds DEF RecordedBeforeFinalizer, Finalizable

(* An Update by a handler of a version that records what it finalizes.     *)
LEMMA UpdateTagemonRecords ==
  ASSUME TypeOK, RecordedBeforeFinalizer, job # NoJob,
         NEW version \in Tagemon \cup {NoObject}, Finalizable(version),
         NEW accepted, NEW other,
         \/ UpdateTagemon(version, accepted, GoOn(other))
         \/ UpdateTagemon(version, accepted, Fail)
  PROVE  RecordedBeforeFinalizer'
<1>1. job.name \in Tagemons
  BY WorkingCopyType
<1>2. CASE UNCHANGED tagemon
  BY <1>2 DEF RecordedBeforeFinalizer, RecordsResources
<1>3. CASE tagemon' = [tagemon EXCEPT ![job.name] = Written(tagemon[job.name], version)]
  <2>1. tagemon[job.name] \in Versions(Tagemon)
    BY <1>1 DEF TypeOK
  <2>2. Range(Written(tagemon[job.name], version))
          \subseteq Range(tagemon[job.name]) \cup {version}
    BY <2>1, VersionsWritten
  <2> QED
    BY <1>1, <1>3, <2>2, VersionAdded
<1> QED
  BY <1>2, <1>3 DEF UpdateTagemon

(* No step writes a finalizer before the status.                           *)
LEMMA NextRecords ==
  ASSUME IndInv, [Next]_vars
  PROVE  RecordedBeforeFinalizer'
<1>0. TypeOK /\ RecordedBeforeFinalizer /\ WorkingCopyInv
  BY DEF IndInv
<1>1. CASE UNCHANGED tagemon
  BY <1>0, <1>1 DEF RecordedBeforeFinalizer, RecordsResources
<1>2. CASE createStatus \/ modifyStatus
  <2>1. job # NoJob /\ job.tagemon \in Tagemon /\ Observed(job.tagemon) \in Tagemon
    BY <1>0, <1>2, WorkingCopyType DEF createStatus, modifyStatus, At
  <2>2. Finalizable(Observed(job.tagemon))
    BY <1>0, <2>1
       DEF WorkingCopyInv, Finalizable, RecordsResources, Observed, Tagemon, Status
  <2> QED
    BY <1>0, <1>2, <2>1, <2>2, UpdateTagemonRecords DEF createStatus, modifyStatus
<1>3. CASE addFinalizer
  <2> DEFINE version == [job.tagemon EXCEPT !.finalizer = TRUE]
  <2>1. job # NoJob /\ job.tagemon \in Tagemon /\ version \in Tagemon
    BY <1>0, <1>3, WorkingCopyType DEF addFinalizer, At
  <2>2. Finalizable(version)
    BY <1>0, <1>3, <2>1
       DEF addFinalizer, At, WorkingCopyInv, Finalizable, RecordsResources, Tagemon, Status
  <2> QED
    BY <1>0, <1>3, <2>1, <2>2, UpdateTagemonRecords DEF addFinalizer
<1>4. CASE removeFinalizer
  <2>1. job # NoJob
    BY <1>4 DEF removeFinalizer, At
  <2> QED
    BY <1>0, <1>4, <2>1, UpdateTagemonRecords DEF removeFinalizer, Finalizable
<1>5. ASSUME NEW t \in Tagemons, NEW version \in Tagemon \cup {NoObject},
             Finalizable(version), OthersWrite(t, version)
      PROVE  RecordedBeforeFinalizer'
  <2>1. tagemon[t] \in Versions(Tagemon)
    BY <1>0 DEF TypeOK
  <2>2. Range(Written(tagemon[t], version)) \subseteq Range(tagemon[t]) \cup {version}
    BY <2>1, VersionsWritten
  <2> QED
    BY <1>0, <1>5, <2>2, VersionAdded DEF OthersWrite
<1>6. ASSUME NEW t \in Tagemons,
             CreateTagemon(t) \/ EditSpec(t) \/ TouchTagemon(t) \/ DeleteTagemon(t)
      PROVE  RecordedBeforeFinalizer'
  <2> DEFINE object == Stored(tagemon[t])
  <2>0. object \in Tagemon \cup {NoObject} /\ Finalizable(object)
    BY <1>0, StoredType, VersionsInSight
  <2>1. CASE CreateTagemon(t)
    <3>1. PICK spec \in Specs : OthersWrite(t, NewTagemon(spec))
      BY <2>1 DEF CreateTagemon
    <3>2. Finalizable(NewTagemon(spec))
      BY DEF Finalizable, NewTagemon
    <3> QED
      BY <1>5, <3>1, <3>2, NewTagemonType
  <2>2. CASE EditSpec(t)
    <3>1. PICK spec \in Specs :
            OthersWrite(t, [object EXCEPT !.spec = spec, !.generation = @ + 1])
      BY <2>2 DEF EditSpec
    <3> DEFINE version == [object EXCEPT !.spec = spec, !.generation = @ + 1]
    <3>2. object \in Tagemon
      BY <2>0, <2>2 DEF EditSpec
    <3>3. version \in Tagemon
      <4>1. object.generation \in Nat \ {0} /\ object.generation + 1 \in Nat \ {0}
        BY <3>2 DEF Tagemon
      <4> HIDE DEF object
      <4> QED
        BY <3>2, <4>1 DEF Tagemon
    <3>4. version.finalizer = object.finalizer /\ version.status = object.status
      BY <3>2 DEF Tagemon
    <3>5. Finalizable(version)
      BY <2>0, <2>2, <3>4 DEF Finalizable, RecordsResources, EditSpec
    <3> QED
      BY <1>5, <3>1, <3>3, <3>5
  <2>3. CASE TouchTagemon(t)
    BY <1>5, <2>0, <2>3 DEF TouchTagemon
  <2>4. CASE DeleteTagemon(t)
    <3> DEFINE version == [object EXCEPT !.deleting = TRUE]
    <3>1. object \in Tagemon
      BY <2>0, <2>4 DEF DeleteTagemon
    <3>2. /\ version \in Tagemon
          /\ version.finalizer = object.finalizer /\ version.status = object.status
      BY <3>1 DEF Tagemon
    <3>3. Finalizable(version) /\ Finalizable(NoObject)
      BY <2>0, <2>4, <3>2 DEF Finalizable, RecordsResources, DeleteTagemon
    <3> QED
      BY <1>5, <2>4, <3>2, <3>3 DEF DeleteTagemon
  <2> QED
    BY <1>6, <2>1, <2>2, <2>3, <2>4
<1>7. ASSUME NEW t \in Tagemons, DeliverTagemon(t)
      PROVE  RecordedBeforeFinalizer'
  <2>1. tagemon[t] \in Versions(Tagemon) /\ ~UpToDate(tagemon[t])
    BY <1>0, <1>7 DEF TypeOK, DeliverTagemon
  <2>2. Range(Delivered(tagemon[t])) \subseteq Range(tagemon[t]) \cup {NoObject}
    BY <2>1, VersionsDelivered
  <2>3. Finalizable(NoObject)
    BY DEF Finalizable
  <2> QED
    BY <1>0, <1>7, <2>2, <2>3, VersionAdded DEF DeliverTagemon
<1>8. CASE Crash
  <2> SUFFICES ASSUME NEW t \in Tagemons, NEW object \in Range(tagemon'[t]),
                      object # NoObject, object.finalizer
               PROVE  RecordsResources(object)
    BY DEF RecordedBeforeFinalizer, RecordsResources
  <2>1. tagemon[t] \in Versions(Tagemon)
    BY <1>0 DEF TypeOK
  <2>2. object \in Range(tagemon[t])
    BY <1>8, <2>1, VersionsRelisted DEF Crash
  <2> QED
    BY <1>0, <2>2 DEF RecordedBeforeFinalizer
<1>9. CASE HandlerStep
  <2>1. CASE \/ createConfigMap \/ createDeployment
             \/ updateConfigMap \/ annotateDeployment \/ updateDeployment
             \/ deleteConfigMap \/ deleteDeployment
    BY <1>1, <2>1
       DEF createConfigMap, createDeployment, updateConfigMap, annotateDeployment,
           updateDeployment, deleteConfigMap, deleteDeployment
  <2> QED
    BY <1>2, <1>3, <1>4, <1>9, <2>1 DEF HandlerStep
<1>10. CASE ClusterStep
  BY <1>1, <1>10
     DEF ClusterStep, TouchDeployment, RemoveConfigMap, RemoveDeployment,
         DeliverConfigMap, DeliverDeployment
<1>11. ASSUME NEW t \in Tagemons, Reconcile(t)
       PROVE  RecordedBeforeFinalizer'
  BY <1>1, <1>11 DEF Reconcile, cluster
<1>12. CASE CallFails
  BY <1>1, <1>12 DEF CallFails, cluster
<1>13. CASE UNCHANGED vars
  BY <1>1, <1>13 DEF vars
<1> QED
  BY <1>6, <1>7, <1>8, <1>9, <1>10, <1>11, <1>12, <1>13 DEF Next, UserStep

(* A handler goes on with a working copy that is as it should be, or ends. *)
LEMMA CopyKept ==
  ASSUME WorkingCopyInv, UNCHANGED job \/ job' = NoJob
  PROVE  WorkingCopyInv'
BY DEF WorkingCopyInv, RecordsResources

(* The steps of handleCreate record in the working copy what they write.   *)
LEMMA CreateStepsCopy ==
  ASSUME IndInv, createConfigMap \/ createDeployment \/ createStatus \/ addFinalizer
  PROVE  WorkingCopyInv'
<1>0. /\ TypeOK /\ WorkingCopyInv
      /\ job # NoJob /\ job \in Job
      /\ job.tagemon \in Tagemon
      /\ ResourceName \in Names
  BY WorkingCopyType
     DEF IndInv, createConfigMap, createDeployment, createStatus, addFinalizer, At
<1>1. ASSUME NEW next, GoOn(next) \/ Answer(next) \/ Fail
      PROVE  job' = next \/ job' = NoJob
  BY <1>1 DEF GoOn, Answer, Fail, Retry
<1>2. CASE createConfigMap
  <2> DEFINE next == [job EXCEPT !.at = "createDeployment",
                                 !.tagemon = WithConfigMapName(@, ResourceName)]
  <2>1. job' = next \/ job' = NoJob
    BY <1>1, <1>2 DEF createConfigMap
  <2>2. CASE job' = next
    <3> DEFINE copy == WithConfigMapName(job.tagemon, ResourceName)
    <3>1. /\ copy.status.configMap = ResourceName
          /\ copy.status.id = job.tagemon.status.id
          /\ copy.status.observed = job.tagemon.status.observed
          /\ copy.status.deployment = job.tagemon.status.deployment
          /\ copy.finalizer = job.tagemon.finalizer
      BY <1>0 DEF WithConfigMapName, Tagemon, Status
    <3>2. job'.at = "createDeployment" /\ job'.tagemon = copy
      BY <1>0, <2>2 DEF Job
    <3>3. job.at = "createConfigMap"
      BY <1>2 DEF createConfigMap, At
    <3> QED
      BY <1>0, <3>1, <3>2, <3>3 DEF WorkingCopyInv, RecordsResources
  <2> QED
    BY <1>0, <2>1, <2>2, CopyKept
<1>3. CASE createDeployment
  <2> DEFINE next == [job EXCEPT !.at = "createStatus",
                                 !.tagemon.status.deployment = ResourceName]
  <2>1. job' = next \/ job' = NoJob
    BY <1>1, <1>3 DEF createDeployment
  <2>2. CASE job' = next
    <3>1. /\ job'.at = "createStatus"
          /\ job'.tagemon.status.deployment = ResourceName
          /\ job'.tagemon.status.configMap = job.tagemon.status.configMap
          /\ job'.tagemon.status.observed = job.tagemon.status.observed
          /\ job'.tagemon.finalizer = job.tagemon.finalizer
      BY <1>0, <2>2 DEF Job, Tagemon, Status
    <3>2. job.at = "createDeployment"
      BY <1>3 DEF createDeployment, At
    <3> QED
      BY <1>0, <3>1, <3>2 DEF WorkingCopyInv, RecordsResources
  <2> QED
    BY <1>0, <2>1, <2>2, CopyKept
<1>4. CASE createStatus
  <2> DEFINE next == [job EXCEPT !.at = "addFinalizer", !.tagemon = Observed(job.tagemon)]
  <2>1. job' = next \/ job' = NoJob
    BY <1>1, <1>4 DEF createStatus, UpdateTagemon
  <2>2. CASE job' = next
    <3>1. job'.at = "addFinalizer" /\ job'.tagemon = Observed(job.tagemon)
      BY <1>0, <2>2 DEF Job
    <3>2. LET copy == Observed(job.tagemon)
          IN /\ copy.status.observed > 0
             /\ copy.status.configMap = job.tagemon.status.configMap
             /\ copy.status.deployment = job.tagemon.status.deployment
      BY <1>0 DEF Observed, Tagemon, Status
    <3>3. job.at = "createStatus"
      BY <1>4 DEF createStatus, At
    <3> QED
      BY <1>0, <3>1, <3>2, <3>3 DEF WorkingCopyInv, RecordsResources
  <2> QED
    BY <1>0, <2>1, <2>2, CopyKept
<1>5. CASE addFinalizer
  <2>1. job' = NoJob
    BY <1>1, <1>5 DEF addFinalizer, UpdateTagemon
  <2> QED
    BY <1>0, <2>1, CopyKept
<1> QED
  BY <1>2, <1>3, <1>4, <1>5

(* The handler keeps its working copy right, whoever steps.                *)
LEMMA NextCopy ==
  ASSUME IndInv, [Next]_vars
  PROVE  WorkingCopyInv'
<1>0. TypeOK /\ RecordedBeforeFinalizer /\ WorkingCopyInv
  BY DEF IndInv
<1>1. ASSUME NEW t \in Tagemons, Reconcile(t)
      PROVE  WorkingCopyInv'
  <2> DEFINE object == Cached(tagemon[t])
  <2>1. tagemon[t] \in Versions(Tagemon)
    BY <1>0 DEF TypeOK
  <2>2. object \in Tagemon \cup {NoObject} /\ Finalizable(object)
    BY <1>0, <2>1, VersionsEnds, VersionsInSight
  <2>3. CASE job' = NoJob
    BY <1>0, <2>3, CopyKept
  <2>4. CASE ChosenHandler(object) = "create" /\ handleCreate(t, object)
    <3>1. PICK id \in Ids :
            job' = Started(t, "createConfigMap", [object EXCEPT !.status.id = id])
      BY <2>4 DEF handleCreate
    <3>2. object \in Tagemon /\ ~object.finalizer
      BY <2>2, <2>4 DEF ChosenHandler, IsNotFound
    <3>3. /\ job'.at = "createConfigMap"
          /\ job'.tagemon.status.id = id
          /\ job'.tagemon.finalizer = object.finalizer
      BY <3>1, <3>2 DEF Started, Tagemon, Status
    <3> QED
      BY <3>2, <3>3 DEF WorkingCopyInv
  <2>5. CASE /\ ChosenHandler(object) \in {"modify", "delete"}
             /\ handleModify(t, object) \/ handleDelete(t, object)
    <3>1. object # NoObject
      BY <2>5 DEF ChosenHandler, IsNotFound
    <3>2. /\ job'.at \in {"updateConfigMap", "deleteConfigMap"}
          /\ job'.tagemon = object
      BY <2>5 DEF handleModify, handleDelete, Started
    <3> QED
      BY <2>2, <3>1, <3>2 DEF WorkingCopyInv, Finalizable, RecordsResources
  <2> QED
    BY <1>1, <2>3, <2>4, <2>5 DEF Reconcile
<1>2. CASE createConfigMap \/ createDeployment \/ createStatus \/ addFinalizer
  BY <1>2, CreateStepsCopy
<1>3. CASE \/ updateConfigMap \/ annotateDeployment \/ updateDeployment
           \/ deleteConfigMap \/ deleteDeployment
  <2>1. job # NoJob /\ job \in Job
    BY <1>0, <1>3, WorkingCopyType
       DEF updateConfigMap, annotateDeployment, updateDeployment, deleteConfigMap,
           deleteDeployment, At
  <2>2. \/ job' = NoJob
        \/ \E step \in {"annotateDeployment", "updateDeployment", "modifyStatus",
                        "deleteDeployment", "removeFinalizer"} :
             job'.at = step /\ job'.tagemon = job.tagemon
    BY <1>3, <2>1
       DEF updateConfigMap, annotateDeployment, updateDeployment, UpdateDeployment,
           deleteConfigMap, deleteDeployment, GoOn, Answer, Fail, Retry, Job
  <2> QED
    BY <1>0, <2>1, <2>2, CopyKept DEF WorkingCopyInv, RecordsResources
<1>4. CASE modifyStatus \/ removeFinalizer
  <2>1. job' = NoJob
    BY <1>4 DEF modifyStatus, removeFinalizer, UpdateTagemon, GoOn, Answer, Fail, Retry
  <2> QED
    BY <1>0, <2>1, CopyKept
<1>5. CASE CallFails \/ Crash
  BY <1>0, <1>5, CopyKept DEF CallFails, Crash, Retry
<1>6. CASE UserStep
  <2>1. PICK t, version : t \in Tagemons /\ OthersWrite(t, version)
    BY <1>6 DEF UserStep, CreateTagemon, EditSpec, TouchTagemon, DeleteTagemon
  <2>2. CASE job' = job
    BY <1>0, <2>2, CopyKept
  <2>3. CASE job # NoJob /\ job' = [job EXCEPT !.current = FALSE]
    <3>1. job'.at = job.at /\ job'.tagemon = job.tagemon
      BY <1>0, <2>3, WorkingCopyType DEF Job
    <3> QED
      BY <1>0, <2>3, <3>1 DEF WorkingCopyInv, RecordsResources
  <2> QED
    BY <2>1, <2>2, <2>3 DEF OthersWrite
<1>7. CASE ClusterStep
  BY <1>0, <1>7, CopyKept
     DEF ClusterStep, TouchDeployment, RemoveConfigMap, RemoveDeployment,
         DeliverConfigMap, DeliverDeployment
<1>8. ASSUME NEW t \in Tagemons, DeliverTagemon(t)
      PROVE  WorkingCopyInv'
  BY <1>0, <1>8, CopyKept DEF DeliverTagemon
<1>9. CASE UNCHANGED vars
  BY <1>0, <1>9, CopyKept DEF vars
<1> QED
  BY <1>1, <1>2, <1>3, <1>4, <1>5, <1>6, <1>7, <1>8, <1>9 DEF Next, HandlerStep

-----------------------------------------------------------------------------
(* Theorems                                                                *)

(* No Tagemon and no job exist at the start.                               *)
LEMMA InitInv == Init => IndInv
<1> SUFFICES ASSUME Init
             PROVE  IndInv
  OBVIOUS
<1>1. ASSUME NEW Object
      PROVE  <<NoObject>> \in Versions(Object)
  BY VersionsSingle
<1>2. TypeOK
  BY <1>1, BoundsAssumption DEF Init, TypeOK
<1>3. Range(<<NoObject>>) = {NoObject}
  BY DEF Range
<1>4. RecordedBeforeFinalizer
  BY <1>3 DEF Init, RecordedBeforeFinalizer
<1>5. WorkingCopyInv
  BY DEF Init, WorkingCopyInv
<1> QED
  BY <1>2, <1>4, <1>5 DEF IndInv

(* Every step of the reconciler, users and failures keeps the invariant.   *)
LEMMA NextInv == IndInv /\ [Next]_vars => IndInv'
BY NextType, NextRecords, NextCopy DEF IndInv

(* Types, the record before the finalizer and what a working copy carries  *)
(* at each step of its handler hold in all behaviours: the invariant the   *)
(* theorems below and the modules above this one build on.                 *)
THEOREM Invariance == Spec => []IndInv
BY InitInv, NextInv, PTL DEF Spec

(* Every value of every variable is one the model gives a meaning to, for  *)
(* all constants: in particular a ConfigMap and a Deployment carry the     *)
(* uuid of their creation, never the empty id.                             *)
THEOREM TypeCorrect == Spec => []TypeOK
<1>1. IndInv => TypeOK
  BY DEF IndInv
<1> QED
  BY <1>1, Invariance, PTL

(* handleCreate never adds the finalizer to a Tagemon whose stored status  *)
(* does not name its ConfigMap and its Deployment: neither a conflict that *)
(* createStatus swallows, nor a lost reply, a crash, a stale cache or a    *)
(* collision of names makes it do so.                                      *)
THEOREM FinalizerAfterRecord == Spec => []RecordedBeforeFinalizer
<1>1. IndInv => RecordedBeforeFinalizer
  BY DEF IndInv
<1> QED
  BY <1>1, Invariance, PTL
===============================================================================
