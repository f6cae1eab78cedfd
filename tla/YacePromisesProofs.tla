-------------------------- MODULE YacePromisesProofs --------------------------
(***************************************************************************)
(* What the reconciler promises although its caches lag: what is reported  *)
(* as observed is applied, and a deletion leaves nothing behind, unless a  *)
(* handler goes on because an old read of a ConfigMap or Deployment told   *)
(* it that there was nothing to do.                                        *)
(***************************************************************************)
EXTENDS YaceResourcesProofs

-----------------------------------------------------------------------------
(* What a deletion has removed stays removed until the finalizer goes      *)

Gone(objects, name) == name = NoName \/ Stored(objects[name]) = NoObject

RemovedInv ==
  job # NoJob =>
    /\ job.at \in {"deleteDeployment", "removeFinalizer"} => Gone(configMap, ItsConfigMap)
    /\ job.at = "removeFinalizer" => Gone(deployment, ItsDeployment)

(* What handleDelete found or made absent stays absent until the finalizer *)
(* goes.                                                                   *)
LEMMA RemovedKept ==
  ASSUME TypeOK, RemovedInv, [Next]_vars, [DeletionsNotMisled]_vars
  PROVE  RemovedInv'
<1> SUFFICES ASSUME job' # NoJob, job'.at \in {"deleteDeployment", "removeFinalizer"}
             PROVE  /\ Gone(configMap', ItsConfigMap')
                    /\ job'.at = "removeFinalizer" => Gone(deployment', ItsDeployment')
  BY DEF RemovedInv
<1>1. ASSUME job # NoJob
      PROVE  /\ job \in Job
             /\ ItsConfigMap \in Names \cup {NoName} /\ ItsDeployment \in Names \cup {NoName}
  <2>1. job \in Job /\ job.tagemon \in Tagemon
    BY <1>1, WorkingCopyType
  <2> QED
    BY <2>1 DEF ItsConfigMap, ItsDeployment, Tagemon, Status
<1>2. ASSUME job # NoJob, job'.at = job.at, job'.tagemon = job.tagemon,
             ResourcesStay \/ ResourceRemoved
      PROVE  /\ Gone(configMap', ItsConfigMap')
             /\ job'.at = "removeFinalizer" => Gone(deployment', ItsDeployment')
  <2>1. ItsConfigMap' = ItsConfigMap /\ ItsDeployment' = ItsDeployment
    BY <1>2 DEF ItsConfigMap, ItsDeployment
  <2>2. \A n \in Names :
          /\ Stored(configMap[n]) = NoObject => Stored(configMap'[n]) = NoObject
          /\ Stored(deployment[n]) = NoObject => Stored(deployment'[n]) = NoObject
    BY <1>2 DEF ResourcesStay, ResourceRemoved, StoredBecomes
  <2> QED
    BY <1>1, <1>2, <2>1, <2>2 DEF RemovedInv, Gone
<1>3. CASE HandlerMoves /\ HandlerDoes
  <2>1. job # NoJob
    BY <1>3 DEF HandlerMoves
  <2>2. \/ job.at = "deleteConfigMap" /\ Moved("deleteDeployment", job.tagemon)
        \/ job.at = "deleteDeployment" /\ Moved("removeFinalizer", job.tagemon)
    BY <1>3 DEF HandlerMoves, Moved, ModifyMoves, DeleteMoves
  <2>3. /\ ItsConfigMap' = ItsConfigMap /\ ItsDeployment' = ItsDeployment
        /\ ~DeletionMisled
    BY <2>1, <2>2
       DEF Moved, ItsConfigMap, ItsDeployment, DeletionsNotMisled, GoesOn, vars
  <2>4. CASE job.at = "deleteConfigMap"
    <3>1. ConfigMapDeleted
      BY <1>3, <2>4
         DEF HandlerDoes, ConfigMapCreated, DeploymentCreated, ConfigMapUpdated,
             DeploymentAnnotated, DeploymentUpdated, DeploymentDeleted, TagemonSteps
    <3>2. Gone(configMap', ItsConfigMap)
      BY <2>1, <2>3, <2>4, <3>1
         DEF ConfigMapDeleted, StoredBecomes, Gone, DeletionMisled, IsNotFound, ItsConfigMap
    <3> QED
      BY <2>2, <2>3, <2>4, <3>2 DEF Moved
  <2>5. CASE job.at = "deleteDeployment"
    <3>1. DeploymentDeleted
      BY <1>3, <2>5
         DEF HandlerDoes, ConfigMapCreated, DeploymentCreated, ConfigMapUpdated,
             DeploymentAnnotated, DeploymentUpdated, ConfigMapDeleted, TagemonSteps
    <3>2. Gone(deployment', ItsDeployment)
      BY <2>1, <2>3, <2>5, <3>1
         DEF DeploymentDeleted, StoredBecomes, Gone, DeletionMisled, IsNotFound, ItsDeployment
    <3>3. Gone(configMap', ItsConfigMap)
      BY <2>1, <2>5, <3>1 DEF RemovedInv, DeploymentDeleted, Gone
    <3> QED
      BY <2>3, <3>2, <3>3
  <2> QED
    BY <2>2, <2>4, <2>5
<1>4. ASSUME NEW t \in Tagemons, HandlerStarts(t)
      PROVE  FALSE
  BY <1>4, Zenon DEF HandlerStarts
<1>5. CASE job' = job /\ ResourcesStay
  BY <1>2, <1>5
<1>6. CASE ResourceRemoved
  BY <1>2, <1>6 DEF ResourceRemoved
<1>7. ASSUME NEW t \in Tagemons, UserWrites(t)
      PROVE  /\ job # NoJob /\ job'.at = job.at /\ job'.tagemon = job.tagemon
             /\ ResourcesStay
  <2>1. job # NoJob
    BY <1>7 DEF UserWrites
  <2> QED
    BY <1>1, <1>7, <2>1 DEF UserWrites, Job, ResourcesStay
<1> QED
  BY <1>2, <1>3, <1>4, <1>5, <1>6, <1>7, NextEffects

(* The step in which a Tagemon with a finalizer goes away is the handler's *)
(* last, and leaves nothing its status names.                              *)
LEMMA DeletionStep ==
  ASSUME TagemonInv, RemovedInv, [Next]_vars, NEW t \in Tagemons,
         Stored(tagemon[t]) # NoObject, Stored(tagemon[t]).finalizer,
         Stored(tagemon'[t]) = NoObject
  PROVE  /\ Stored(configMap'[Stored(tagemon[t]).status.configMap]) = NoObject
         /\ Stored(deployment'[Stored(tagemon[t]).status.deployment]) = NoObject
<1> DEFINE object == Stored(tagemon[t])
<1>0. /\ TypeOK /\ CurrentInv /\ RecordedBeforeFinalizer
      /\ object \in Tagemon /\ object \in Range(tagemon[t])
  <2>1. TypeOK /\ CurrentInv /\ RecordedBeforeFinalizer
    BY DEF TagemonInv, IndInv
  <2> QED
    BY <2>1, RangeType
<1>1. object.status.configMap # NoName /\ object.status.deployment # NoName
  BY <1>0, NamesAssumption DEF RecordedBeforeFinalizer, RecordsResources
<1>2. CASE TagemonsStay
  BY <1>2 DEF TagemonsStay
<1>3. CASE HandlerWrites
  <2>1. PICK version : TagemonWritten(job.name, version) /\ HandlerVersion(version)
    BY <1>3 DEF HandlerWrites
  <2>2. CASE job.name # t
    BY <2>1, <2>2 DEF TagemonWritten
  <2>3. CASE job.name = t
    <3>1. version = NoObject /\ job # NoJob /\ job.current
      BY <1>3, <2>1, <2>3 DEF TagemonWritten, HandlerWrites
    <3>2. job.at = "removeFinalizer"
      <4>1. /\ Observed(job.tagemon) \in Tagemon
            /\ [job.tagemon EXCEPT !.finalizer = TRUE] \in Tagemon
        BY <1>0, <3>1, WorkingCopyType
      <4> QED
        BY <2>1, <3>1, <4>1, ObjectsAssumption DEF HandlerVersion
    <3>3. object = job.tagemon
      BY <1>0, <2>3, <3>1, <3>2 DEF CurrentInv, Unrecorded
    <3>4. Gone(configMap, ItsConfigMap) /\ Gone(deployment, ItsDeployment)
      BY <3>1, <3>2 DEF RemovedInv
    <3>5. UNCHANGED <<configMap, deployment>>
      BY <1>3 DEF HandlerWrites
    <3> QED
      BY <1>1, <3>3, <3>4, <3>5 DEF Gone, ItsConfigMap, ItsDeployment
  <2> QED
    BY <2>2, <2>3
<1>4. ASSUME NEW s \in Tagemons, UserWrites(s)
      PROVE  FALSE
  <2>1. PICK version : TagemonWritten(s, version) /\ UserVersion(Stored(tagemon[s]), version)
    BY <1>4 DEF UserWrites
  <2>2. s = t /\ version = NoObject
    BY <2>1 DEF TagemonWritten
  <2>3. ASSUME NEW spec \in Specs
        PROVE  [object EXCEPT !.spec = spec, !.generation = @ + 1] \in Tagemon
    <3>1. object.generation + 1 \in Nat \ {0}
      BY <1>0 DEF Tagemon
    <3> QED
      BY <1>0, <3>1 DEF Tagemon
  <2>4. [object EXCEPT !.deleting = TRUE] \in Tagemon
    BY <1>0 DEF Tagemon
  <2>5. UserVersion(object, NoObject) /\ object # NoObject /\ object.finalizer
    BY <2>1, <2>2
  <2> HIDE DEF object
  <2> QED
    BY <2>3, <2>4, <2>5, ObjectsAssumption DEF UserVersion
<1> QED
  BY <1>0, <1>2, <1>3, <1>4, NextWrites

(* As long as no old read misleads handleDelete, it goes from one step to  *)
(* the next only when what it removes is gone.                             *)
THEOREM RemovedInvariance ==
  Spec /\ [][DeletionsNotMisled]_vars => []RemovedInv
<1>1. Init => RemovedInv
  BY DEF Init, RemovedInv
<1>2. TypeOK /\ RemovedInv /\ [Next]_vars /\ [DeletionsNotMisled]_vars => RemovedInv'
  BY RemovedKept
<1>3. TagemonInv => TypeOK
  BY DEF TagemonInv, IndInv
<1>4. Spec => []TagemonInv
  BY TagemonInvariance
<1> QED
  BY <1>1, <1>2, <1>3, <1>4, PTL DEF Spec

(* removeFinalizer lets a Tagemon go only when the ConfigMap and the       *)
(* Deployment its status names are gone, unless handleDelete went on       *)
(* because the cache did not show it one that is stored: however far the   *)
(* caches lag otherwise, after failed calls, crashes, conflicts and        *)
(* deletions by hand, and also where two Tagemons share a name.            *)
THEOREM CleanDeletion ==
  Spec /\ [][DeletionsNotMisled]_vars => DeletionLeavesNothing
<1>1. Spec /\ [][DeletionsNotMisled]_vars => []TagemonInv /\ []RemovedInv
  BY TagemonInvariance, RemovedInvariance
<1>2. TagemonInv /\ RemovedInv /\ [Next]_vars =>
        [\A t \in Tagemons :
           LET object == Stored(tagemon[t])
           IN object # NoObject /\ object.finalizer /\ Stored(tagemon'[t]) = NoObject =>
                /\ Stored(configMap'[object.status.configMap]) = NoObject
                /\ Stored(deployment'[object.status.deployment]) = NoObject]_vars
  BY DeletionStep
<1> QED
  BY <1>1, <1>2, PTL DEF Spec, DeletionLeavesNothing

-----------------------------------------------------------------------------
(* What handleModify has applied when it reports                           *)

AppliedInv ==
  job # NoJob =>
    /\ job.at \in {"annotateDeployment", "updateDeployment", "modifyStatus"} =>
         \/ Gone(configMap, ItsConfigMap)
         \/ Stored(configMap[ItsConfigMap]).config = generateYACEConfig(job.tagemon.spec)
    /\ job.at = "modifyStatus" =>
         \/ Gone(deployment, ItsDeployment)
         \/ Stored(deployment[ItsDeployment]).resources = job.tagemon.spec.resources

(* What handleModify has written so far stays as it wrote it.              *)
LEMMA AppliedKept ==
  ASSUME NobodyRemoves, TypeOK, AppliedInv, [Next]_vars, [UpdatesNotMisled]_vars
  PROVE  AppliedInv'
<1> DEFINE
      HasConfig(versions, name, spec) ==
        Gone(versions, name) \/ Stored(versions[name]).config = generateYACEConfig(spec)
      HasSize(objects, name, spec) ==
        Gone(objects, name) \/ Stored(objects[name]).resources = spec.resources
<1> SUFFICES ASSUME job' # NoJob,
                    job'.at \in {"annotateDeployment", "updateDeployment", "modifyStatus"}
             PROVE  /\ HasConfig(configMap', ItsConfigMap', job'.tagemon.spec)
                    /\ job'.at = "modifyStatus" =>
                         HasSize(deployment', ItsDeployment', job'.tagemon.spec)
  BY DEF AppliedInv, generateYACEConfig, Gone
<1>0. ASSUME job # NoJob
      PROVE  /\ ItsConfigMap \in Names \cup {NoName} /\ ItsDeployment \in Names \cup {NoName}
             /\ job \in Job
             /\ job.at \in {"annotateDeployment", "updateDeployment", "modifyStatus"} =>
                  HasConfig(configMap, ItsConfigMap, job.tagemon.spec)
             /\ job.at = "modifyStatus" => HasSize(deployment, ItsDeployment, job.tagemon.spec)
  <2>1. job \in Job /\ job.tagemon \in Tagemon
    BY <1>0, WorkingCopyType
  <2> QED
    BY <1>0, <2>1 DEF ItsConfigMap, ItsDeployment, Tagemon, Status, AppliedInv
<1>1. ASSUME job # NoJob, job'.at = job.at, job'.tagemon = job.tagemon, ResourcesStay
      PROVE  /\ HasConfig(configMap', ItsConfigMap', job'.tagemon.spec)
             /\ job'.at = "modifyStatus" => HasSize(deployment', ItsDeployment', job'.tagemon.spec)
  <2>1. ItsConfigMap' = ItsConfigMap /\ ItsDeployment' = ItsDeployment
    BY <1>1 DEF ItsConfigMap, ItsDeployment
  <2> QED
    BY <1>0, <1>1, <2>1 DEF ResourcesStay, Gone
<1>2. CASE HandlerMoves /\ HandlerDoes
  <2>0. job # NoJob
    BY <1>2 DEF HandlerMoves
  <2>1. \/ job.at = "updateConfigMap" /\ Moved("annotateDeployment", job.tagemon)
        \/ job.at = "annotateDeployment" /\ Moved("updateDeployment", job.tagemon)
        \/ job.at = "updateDeployment" /\ Moved("modifyStatus", job.tagemon)
    BY <1>2 DEF HandlerMoves, Moved, ModifyMoves, DeleteMoves
  <2>2. /\ ItsConfigMap' = ItsConfigMap /\ ItsDeployment' = ItsDeployment
        /\ ~UpdateMisled
    BY <2>0, <2>1 DEF Moved, ItsConfigMap, ItsDeployment, UpdatesNotMisled, GoesOn, vars
  <2>3. CASE job.at = "updateConfigMap"
    <3>1. ConfigMapUpdated
      BY <1>2, <2>3
         DEF HandlerDoes, ConfigMapCreated, DeploymentCreated, DeploymentAnnotated,
             DeploymentUpdated, ConfigMapDeleted, DeploymentDeleted, TagemonSteps
    <3>2. job'.tagemon.spec = job.tagemon.spec /\ job'.at = "annotateDeployment"
      BY <2>1, <2>3 DEF Moved
    <3>3. HasConfig(configMap', ItsConfigMap, job.tagemon.spec)
      <4> DEFINE found == Read(configMap, ItsConfigMap)
                 config == generateYACEConfig(job.tagemon.spec)
                 stored == Stored(configMap[ItsConfigMap])
      <4>1. CASE UNCHANGED configMap /\ (found = NoObject \/ found.config = config)
        BY <2>0, <2>2, <2>3, <4>1
           DEF Gone, UpdateMisled, Configured, IsNotFound, ItsConfigMap
      <4>2. CASE /\ stored \in ConfigMap
                 /\ StoredBecomes(configMap', configMap, ItsConfigMap,
                                  [stored EXCEPT !.config = config])
        <5>1. [stored EXCEPT !.config = config].config = config
          BY <4>2 DEF ConfigMap
        <5> QED
          BY <4>2, <5>1 DEF StoredBecomes
      <4> QED
        BY <3>1, <4>1, <4>2 DEF ConfigMapUpdated
    <3> QED
      BY <2>2, <3>2, <3>3
  <2>4. CASE job.at = "annotateDeployment"
    <3>1. UNCHANGED configMap
      BY <1>2, <2>4
         DEF HandlerDoes, ConfigMapCreated, DeploymentCreated, DeploymentAnnotated,
             DeploymentUpdated, ConfigMapDeleted, DeploymentDeleted, ConfigMapUpdated
    <3>2. job'.tagemon = job.tagemon /\ job'.at = "updateDeployment"
      BY <2>1, <2>4 DEF Moved
    <3> QED
      BY <1>0, <2>0, <2>2, <2>4, <3>1, <3>2 DEF Gone
  <2>5. CASE job.at = "updateDeployment"
    <3>1. DeploymentUpdated
      BY <1>2, <2>5
         DEF HandlerDoes, ConfigMapCreated, DeploymentCreated, DeploymentAnnotated,
             ConfigMapUpdated, ConfigMapDeleted, DeploymentDeleted, TagemonSteps
    <3>2. job'.tagemon = job.tagemon
      BY <2>1 DEF Moved
    <3>3. HasSize(deployment', ItsDeployment, job.tagemon.spec)
      <4> DEFINE found == Read(deployment, ItsDeployment)
                 resources == job.tagemon.spec.resources
                 stored == Stored(deployment[ItsDeployment])
      <4>1. CASE UNCHANGED deployment /\ (found = NoObject \/ found.resources = resources)
        BY <2>0, <2>2, <2>5, <4>1
           DEF Gone, UpdateMisled, Sized, IsNotFound, ItsDeployment
      <4>2. CASE /\ stored \in Deployment
                 /\ StoredBecomes(deployment', deployment, ItsDeployment,
                                  [stored EXCEPT !.resources = resources])
        <5>1. [stored EXCEPT !.resources = resources].resources = resources
          BY <4>2 DEF Deployment
        <5> QED
          BY <4>2, <5>1 DEF StoredBecomes
      <4> QED
        BY <3>1, <4>1, <4>2 DEF DeploymentUpdated
    <3>4. HasConfig(configMap', ItsConfigMap, job.tagemon.spec)
      BY <1>0, <2>0, <2>5, <3>1 DEF DeploymentUpdated, Gone
    <3> QED
      BY <2>2, <3>2, <3>3, <3>4
  <2> QED
    BY <2>1, <2>3, <2>4, <2>5
<1>3. ASSUME NEW t \in Tagemons, HandlerStarts(t)
      PROVE  FALSE
  BY <1>3, Zenon DEF HandlerStarts
<1>4. CASE job' = job /\ ResourcesStay
  BY <1>1, <1>4
<1>5. ASSUME NEW t \in Tagemons, UserWrites(t)
      PROVE  /\ job # NoJob /\ job'.at = job.at /\ job'.tagemon = job.tagemon
             /\ ResourcesStay
  <2>1. job # NoJob
    BY <1>5 DEF UserWrites
  <2> QED
    BY <1>0, <1>5, <2>1 DEF UserWrites, Job, ResourcesStay
<1>6. ~ResourceRemoved
  BY DEF NobodyRemoves, ResourceRemoved
<1> QED
  BY <1>1, <1>2, <1>3, <1>4, <1>5, <1>6, NextEffects

(* Where a generation is observed nothing else is on its way to the cache, *)
(* and no handler is under way for another spec.                           *)
SettledVersion(object) ==
  RecordedVersion(object) /\ object.status.observed = object.generation

SettledInv ==
  \A t \in Tagemons : SettledVersion(Stored(tagemon[t])) =>
    LET spec == Stored(tagemon[t]).spec
    IN /\ \A version \in Range(tagemon[t]) \ {NoObject} : version.spec = spec
       /\ job # NoJob /\ job.name = t /\ job.at \in ModifySteps => job.tagemon.spec = spec

(* Users write no settled version but the one there is.                    *)
LEMMA UserVersionSettled ==
  ASSUME NEW t \in Tagemons, NEW old \in Tagemon \cup {NoObject},
         NEW version, UserVersion(old, version), SettledVersion(version),
         old # NoObject => WellRecorded(t, old)
  PROVE  version = old
<1>1. CASE old = NoObject
  BY <1>1 DEF UserVersion, NewTagemon, SettledVersion, RecordedVersion
<1>2. ASSUME old # NoObject, NEW spec \in Specs,
             version = [old EXCEPT !.spec = spec, !.generation = @ + 1]
      PROVE  FALSE
  <2>1. /\ version.status = old.status /\ version.generation = old.generation + 1
        /\ old.generation \in Nat /\ old.status.observed \in Nat
        /\ old.status.observed <= old.generation
    BY <1>2 DEF Tagemon, Status, WellRecorded
  <2> QED
    BY <2>1 DEF SettledVersion
<1>3. CASE version = NoObject
  BY <1>3 DEF SettledVersion, RecordedVersion
<1>4. CASE old # NoObject /\ version = [old EXCEPT !.deleting = TRUE]
  <2>1. version.deleting
    BY <1>4 DEF Tagemon
  <2> QED
    BY <2>1 DEF SettledVersion, RecordedVersion
<1> QED
  BY <1>1, <1>2, <1>3, <1>4 DEF UserVersion

(* A Tagemon whose generation is observed is known to every cache and      *)
(* every job by the spec it has now.                                       *)
LEMMA SettledKept ==
  ASSUME TagemonInv, SettledInv, [Next]_vars
  PROVE  SettledInv'
<1>0. TypeOK /\ CurrentInv /\ VersionsInv
  BY DEF TagemonInv, IndInv
<1> SUFFICES ASSUME NEW t \in Tagemons, SettledVersion(Stored(tagemon'[t]))
             PROVE  LET spec == Stored(tagemon'[t]).spec
                    IN /\ \A version \in Range(tagemon'[t]) \ {NoObject} : version.spec = spec
                       /\ job' # NoJob /\ job'.name = t /\ job'.at \in ModifySteps
                            => job'.tagemon.spec = spec
  BY DEF SettledInv, SettledVersion, RecordedVersion
<1> DEFINE spec == Stored(tagemon[t]).spec
           Agreed == job' # NoJob /\ job'.name = t /\ job'.at \in ModifySteps
                       => job'.tagemon.spec = spec
<1>1. ASSUME SettledVersion(Stored(tagemon[t]))
      PROVE  /\ \A version \in Range(tagemon[t]) \ {NoObject} : version.spec = spec
             /\ job # NoJob /\ job.name = t /\ job.at \in ModifySteps
                  => job.tagemon.spec = spec
  BY <1>1 DEF SettledInv
(* A handler that moves on keeps its copy's spec.                          *)
<1>2. ASSUME HandlerMoves, job' # NoJob, job'.at \in ModifySteps
      PROVE  job'.name = job.name /\ job.at \in ModifySteps /\ job'.tagemon = job.tagemon
  BY <1>2 DEF HandlerMoves, Moved, ModifyMoves, DeleteMoves, ModifySteps
<1>3. ASSUME NEW s \in Tagemons, HandlerStarts(s), job'.name = t, job'.at \in ModifySteps
      PROVE  job'.tagemon \in Range(tagemon[t]) \ {NoObject}
  <2>1. s = t /\ job'.tagemon = Cached(tagemon[t]) /\ Cached(tagemon[t]) # NoObject
    BY <1>3, Zenon DEF HandlerStarts, ModifySteps
  <2> QED
    BY <1>0, <2>1, RangeType
<1>4. ASSUME TagemonsStay,
             HandlerMoves \/ job' = NoJob \/ job' = job \/ \E s \in Tagemons : HandlerStarts(s)
      PROVE  /\ \A version \in Range(tagemon'[t]) \ {NoObject} : version.spec = spec
             /\ Agreed
             /\ Stored(tagemon'[t]) = Stored(tagemon[t])
  <2>1. /\ Stored(tagemon'[t]) = Stored(tagemon[t])
        /\ Range(tagemon'[t]) \subseteq Range(tagemon[t])
    BY <1>4 DEF TagemonsStay
  <2>2. Agreed
    <3>1. CASE HandlerMoves
      BY <1>1, <1>2, <2>1, <3>1 DEF HandlerMoves
    <3>2. CASE job' = NoJob \/ job' = job
      BY <1>1, <2>1, <3>2
    <3>3. CASE \E s \in Tagemons : HandlerStarts(s)
      BY <1>1, <1>3, <2>1, <3>3
    <3> QED
      BY <1>4, <3>1, <3>2, <3>3
  <2> QED
    BY <1>1, <2>1, <2>2
<1>5. CASE HandlerMoves /\ HandlerWrites
  <2>1. PICK version : TagemonWritten(job.name, version) /\ HandlerVersion(version)
    BY <1>5 DEF HandlerWrites
  <2>2. CASE t # job.name
    BY <1>1, <1>2, <1>5, <2>1, <2>2 DEF TagemonWritten
  <2>3. CASE t = job.name
    <3>1. version = Stored(tagemon'[t]) /\ version # NoObject /\ job # NoJob /\ job.current
      BY <1>5, <2>1, <2>3
         DEF TagemonWritten, HandlerWrites, SettledVersion, RecordedVersion
    <3>2. /\ version.spec = job.tagemon.spec
          /\ job.at \in {"createStatus", "addFinalizer", "modifyStatus"}
      BY <2>1, <3>1, HandlerVersionFacts
    <3>3. \A older \in Range(tagemon[t]) : older.spec = job.tagemon.spec
      BY <1>0, <2>3, <3>1, <3>2 DEF CurrentInv, CreateSteps, ModifySteps
    <3>4. job' # NoJob /\ job'.at \in ModifySteps => job'.tagemon = job.tagemon
      BY <1>2, <1>5
    <3> QED
      BY <2>1, <2>3, <3>1, <3>2, <3>3, <3>4 DEF TagemonWritten
  <2> QED
    BY <2>2, <2>3
<1>6. ASSUME NEW s \in Tagemons, UserWrites(s)
      PROVE  /\ Stored(tagemon'[t]) = Stored(tagemon[t])
             /\ Range(tagemon'[t]) \subseteq Range(tagemon[t])
             /\ Agreed
  <2>1. PICK version : TagemonWritten(s, version) /\ UserVersion(Stored(tagemon[s]), version)
    BY <1>6 DEF UserWrites
  <2>2. /\ Stored(tagemon'[t]) = Stored(tagemon[t])
        /\ Range(tagemon'[t]) \subseteq Range(tagemon[t])
    <3>1. CASE t # s
      BY <2>1, <3>1 DEF TagemonWritten
    <3>2. CASE t = s
      <4>1. /\ Stored(tagemon[s]) \in Tagemon \cup {NoObject}
            /\ Stored(tagemon[s]) \in Range(tagemon[s])
            /\ Stored(tagemon[s]) # NoObject => WellRecorded(s, Stored(tagemon[s]))
        BY <1>0, RangeType DEF VersionsInv
      <4>2. version = Stored(tagemon'[t])
        BY <2>1, <3>2 DEF TagemonWritten
      <4>3. version = Stored(tagemon[s])
        BY <2>1, <4>1, <4>2, UserVersionSettled
      <4> QED
        BY <2>1, <3>2, <4>1, <4>2, <4>3 DEF TagemonWritten
    <3> QED
      BY <3>1, <3>2
  <2>3. ASSUME job # NoJob
        PROVE  job'.name = job.name /\ job'.at = job.at /\ job'.tagemon = job.tagemon
    <3>1. job \in Job
      BY <1>0, <2>3 DEF TypeOK
    <3> QED
      BY <1>6, <2>3, <3>1 DEF UserWrites, Job
  <2>4. job = NoJob => job' = NoJob
    BY <1>6 DEF UserWrites
  <2> QED
    BY <1>1, <2>2, <2>3, <2>4
<1> QED
  BY <1>0, <1>1, <1>4, <1>5, <1>6, NextEffects DEF ResourceRemoved, TagemonsStay

-----------------------------------------------------------------------------
(* What is observed is applied                                             *)

Applied(configs, pods, object) ==
  /\ Stored(configs[object.status.configMap]).config = generateYACEConfig(object.spec)
  /\ Stored(pods[object.status.deployment]).resources = object.spec.resources

PromisesInv ==
  /\ ResourcesInv /\ AppliedInv /\ SettledInv
  /\ ObservedMeansApplied

(* ObservedMeansApplied in the words of this module.                       *)
LEMMA ObservedMeans ==
  ObservedMeansApplied <=>
    \A t \in Tagemons : SettledVersion(Stored(tagemon[t])) =>
      Applied(configMap, deployment, Stored(tagemon[t]))
BY RecordedStored DEF ObservedMeansApplied, SettledVersion, Applied

(* The steps that leave the Tagemon as it is.                              *)
LEMMA AppliedStays ==
  ASSUME NamesDiffer, NobodyRemoves, PromisesInv, [Next]_vars,
         NEW t \in Tagemons, SettledVersion(Stored(tagemon[t]))
  PROVE  Applied(configMap', deployment', Stored(tagemon[t]))
<1> DEFINE object == Stored(tagemon[t])
           status == object.status
           config == Stored(configMap[status.configMap])
           pods == Stored(deployment[status.deployment])
<1>0. /\ TypeOK /\ TagemonInv /\ OwnsWhatItRecords /\ SettledInv /\ Recorded(t)
      /\ Applied(configMap, deployment, object)
  BY ObservedMeans, RecordedStored
     DEF PromisesInv, ResourcesInv, TagemonInv, IndInv, SettledVersion
<1>1. ConfigMapKept(t) /\ DeploymentKept(t)
  BY <1>0, OwnResourcesOnly
<1>2. ASSUME job # NoJob, job.name = t, job.at \in ModifySteps
      PROVE  job.tagemon.spec = object.spec
  BY <1>0, <1>2 DEF SettledInv
<1>3. Stored(configMap'[status.configMap]).config = generateYACEConfig(object.spec)
  <2>1. CASE Stored(configMap'[status.configMap]) = config
    BY <1>0, <2>1 DEF Applied
  <2>2. CASE /\ job # NoJob /\ job.name = t /\ job.at = "updateConfigMap"
             /\ config \in ConfigMap
             /\ Stored(configMap'[status.configMap]) =
                  [config EXCEPT !.config = generateYACEConfig(job.tagemon.spec)]
    <3>1. Stored(configMap'[status.configMap]).config = generateYACEConfig(job.tagemon.spec)
      BY <2>2 DEF ConfigMap
    <3>2. job.tagemon.spec = object.spec
      BY <1>2, <2>2 DEF ModifySteps
    <3> QED
      BY <3>1, <3>2
  <2> QED
    BY <1>1, <2>1, <2>2 DEF ConfigMapKept
<1>4. Stored(deployment'[status.deployment]).resources = object.spec.resources
  <2>1. CASE Stored(deployment'[status.deployment]) = pods
    BY <1>0, <2>1 DEF Applied
  <2>2. ASSUME pods \in Deployment, NEW stamp \in Nat,
               Stored(deployment'[status.deployment]) = [pods EXCEPT !.restarted = stamp]
        PROVE  Stored(deployment'[status.deployment]).resources = object.spec.resources
    <3>1. Stored(deployment'[status.deployment]).resources = pods.resources
      BY <2>2 DEF Deployment
    <3> QED
      BY <1>0, <3>1 DEF Applied
  <2>3. CASE /\ job # NoJob /\ job.name = t /\ job.at = "updateDeployment"
             /\ pods \in Deployment
             /\ Stored(deployment'[status.deployment]) =
                  [pods EXCEPT !.resources = job.tagemon.spec.resources]
    <3>1. Stored(deployment'[status.deployment]).resources = job.tagemon.spec.resources
      BY <2>3 DEF Deployment
    <3>2. job.tagemon.spec = object.spec
      BY <1>2, <2>3 DEF ModifySteps
    <3> QED
      BY <3>1, <3>2
  <2> QED
    BY <1>1, <2>1, <2>2, <2>3 DEF DeploymentKept
<1> QED
  BY <1>3, <1>4 DEF Applied

(* The steps that report.                                                  *)
LEMMA AppliedWhenReported ==
  ASSUME PromisesInv, HandlerWrites, SettledVersion(Stored(tagemon'[job.name]))
  PROVE  Applied(configMap', deployment', Stored(tagemon'[job.name]))
<1>0. /\ TypeOK /\ TagemonInv /\ CreatedInv /\ OwnsWhatItRecords
      /\ AppliedInv /\ CurrentInv /\ CopyInv /\ job # NoJob /\ job.name \in Tagemons
  <2>1. /\ TypeOK /\ TagemonInv /\ CreatedInv /\ OwnsWhatItRecords
        /\ AppliedInv /\ CurrentInv /\ CopyInv
    BY DEF PromisesInv, ResourcesInv, TagemonInv, IndInv
  <2> QED
    BY <2>1, WorkingCopyType DEF HandlerWrites
<1>1. PICK version : TagemonWritten(job.name, version) /\ HandlerVersion(version)
  BY DEF HandlerWrites
<1>2. /\ version = Stored(tagemon'[job.name]) /\ version # NoObject
      /\ job.current /\ UNCHANGED <<configMap, deployment>>
  BY <1>1 DEF HandlerWrites, TagemonWritten, SettledVersion, RecordedVersion
<1>3. /\ version.spec = job.tagemon.spec
      /\ version.status.configMap = ItsConfigMap
      /\ version.status.deployment = ItsDeployment
      /\ job.at \in {"createStatus", "addFinalizer", "modifyStatus"}
  BY <1>0, <1>1, <1>2, HandlerVersionFacts DEF ItsConfigMap, ItsDeployment
<1>4. CASE job.at \in {"createStatus", "addFinalizer"}
  <2>1. /\ Stored(configMap[ItsConfigMap]) = NewConfigMap
        /\ Stored(deployment[ItsDeployment]) = NewDeployment
    BY <1>0, <1>4 DEF CreatedInv, ItsConfigMap, ItsDeployment
  <2> QED
    BY <1>2, <1>3, <2>1 DEF Applied, NewConfigMap, NewDeployment
<1>5. CASE job.at = "modifyStatus"
  <2>1. Stored(tagemon[job.name]) = job.tagemon /\ Stored(tagemon[job.name]) # NoObject
    BY <1>0, <1>2, <1>5 DEF CurrentInv, Unrecorded
  <2>2. Recorded(job.name)
    BY <1>0, <1>5, <2>1 DEF CopyInv, WellCopied, ModifySteps, Recorded, Live
  <2>3. /\ Stored(configMap[ItsConfigMap]) # NoObject
        /\ Stored(deployment[ItsDeployment]) # NoObject
    BY <1>0, <2>1, <2>2 DEF OwnsWhatItRecords, ItsConfigMap, ItsDeployment
  <2>4. ItsConfigMap # NoName /\ ItsDeployment # NoName
    BY <1>0, <2>1, <2>2, RecordedFacts, NamesAssumption DEF ItsConfigMap, ItsDeployment
  <2>5. /\ Stored(configMap[ItsConfigMap]).config = generateYACEConfig(job.tagemon.spec)
        /\ Stored(deployment[ItsDeployment]).resources = job.tagemon.spec.resources
    BY <1>0, <1>5, <2>3, <2>4 DEF AppliedInv, Gone
  <2> QED
    BY <1>2, <1>3, <2>5 DEF Applied
<1> QED
  BY <1>3, <1>4, <1>5

(* Every step keeps ObservedMeansApplied.                                  *)
LEMMA ObservedKept ==
  ASSUME NamesDiffer, NobodyRemoves, PromisesInv, [Next]_vars
  PROVE  ObservedMeansApplied'
<1>0. TypeOK /\ TagemonInv /\ VersionsInv
  BY DEF PromisesInv, ResourcesInv, TagemonInv, IndInv
<1> SUFFICES ASSUME NEW t \in Tagemons, SettledVersion(Stored(tagemon'[t]))
             PROVE  Applied(configMap', deployment', Stored(tagemon'[t]))
  BY DEF ObservedMeansApplied, SettledVersion, RecordedVersion, Recorded, Live, Applied,
         generateYACEConfig
<1>1. ASSUME Stored(tagemon'[t]) = Stored(tagemon[t])
      PROVE  Applied(configMap', deployment', Stored(tagemon'[t]))
  BY <1>1, AppliedStays
<1>2. CASE TagemonsStay
  BY <1>1, <1>2 DEF TagemonsStay
<1>3. CASE HandlerWrites
  <2>1. CASE t = job.name
    BY <1>3, <2>1, AppliedWhenReported
  <2>2. CASE t # job.name
    BY <1>1, <1>3, <2>2 DEF HandlerWrites, TagemonWritten
  <2> QED
    BY <2>1, <2>2
<1>4. ASSUME NEW s \in Tagemons, UserWrites(s)
      PROVE  Applied(configMap', deployment', Stored(tagemon'[t]))
  <2>1. PICK version : TagemonWritten(s, version) /\ UserVersion(Stored(tagemon[s]), version)
    BY <1>4 DEF UserWrites
  <2>2. CASE t # s
    BY <1>1, <2>1, <2>2 DEF TagemonWritten
  <2>3. CASE t = s
    <3>1. /\ Stored(tagemon[s]) \in Tagemon \cup {NoObject}
          /\ Stored(tagemon[s]) # NoObject => WellRecorded(s, Stored(tagemon[s]))
      BY <1>0, RangeType DEF VersionsInv
    <3>2. version = Stored(tagemon'[t])
      BY <2>1, <2>3 DEF TagemonWritten
    <3>3. version = Stored(tagemon[s])
      BY <2>1, <3>1, <3>2, UserVersionSettled
    <3> QED
      BY <1>1, <2>3, <3>2, <3>3
  <2> QED
    BY <2>2, <2>3
<1> QED
  BY <1>0, <1>2, <1>3, <1>4, NextWrites

(* With names of their own, nobody who deletes by hand and no old read     *)
(* that misleads handleModify, what it has written, what is observed and   *)
(* what is stored agree at every moment.                                   *)
THEOREM PromisesInvariance ==
  ASSUME NamesDiffer, NobodyRemoves
  PROVE  Spec /\ [][UpdatesNotMisled]_vars => []PromisesInv
<1>1. Init => AppliedInv /\ SettledInv /\ ObservedMeansApplied
  BY DEF Init, AppliedInv, SettledInv, SettledVersion,
         RecordedVersion, ObservedMeansApplied, Recorded, Live, Stored
<1>2. PromisesInv /\ [Next]_vars /\ [UpdatesNotMisled]_vars
        => AppliedInv' /\ SettledInv' /\ ObservedMeansApplied'
  <2> SUFFICES ASSUME PromisesInv, [Next]_vars, [UpdatesNotMisled]_vars
               PROVE  AppliedInv' /\ SettledInv' /\ ObservedMeansApplied'
    OBVIOUS
  <2>1. TypeOK /\ TagemonInv /\ AppliedInv /\ SettledInv
    BY DEF PromisesInv, ResourcesInv, TagemonInv, IndInv
  <2> QED
    BY <2>1, AppliedKept, SettledKept, ObservedKept
<1>3. ResourcesInv /\ AppliedInv /\ SettledInv /\ ObservedMeansApplied <=> PromisesInv
  BY DEF PromisesInv
<1>4. Spec => []ResourcesInv
  BY ResourcesInvariance
<1> QED
  BY <1>1, <1>2, <1>3, <1>4, PTL DEF Spec

(* As long as Tagemons have names of their own, nobody deletes a ConfigMap *)
(* or a Deployment by hand, and handleModify does not go on because the    *)
(* cache still holds an object that would need no update, a generation     *)
(* that it reports as observed is the one whose configuration and pod      *)
(* resources are stored: through edits between any two calls, conflicts    *)
(* that end handleModify as if it had succeeded, lost replies, crashes and *)
(* caches that lag.                                                        *)
THEOREM ObservedIsApplied ==
  ASSUME NamesDiffer, NobodyRemoves
  PROVE  Spec /\ [][UpdatesNotMisled]_vars => []ObservedMeansApplied
<1>1. PromisesInv => ObservedMeansApplied
  BY DEF PromisesInv
<1> QED
  BY <1>1, PromisesInvariance, PTL
===============================================================================
