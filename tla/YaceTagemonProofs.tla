--------------------------- MODULE YaceTagemonProofs ---------------------------
(***************************************************************************)
(* What the versions of a Tagemon and the working copy of the handler know *)
(* of each other, in YaceHandler with any number of Tagemons, lagging      *)
(* caches, conflicts, failures and crashes: the invariant TagemonInv, and  *)
(* what a step does to the Tagemons and to the handler under way.          *)
(***************************************************************************)
EXTENDS YaceHandlerProofs

(* The names buildResourceName makes for a Tagemon.                        *)
NamesOf(t) == {BuiltName[t, naming] : naming \in Namings}

CreateSteps == {"createConfigMap", "createDeployment", "createStatus", "addFinalizer"}

ModifySteps == {"updateConfigMap", "annotateDeployment", "updateDeployment", "modifyStatus"}

DeleteSteps == {"deleteConfigMap", "deleteDeployment", "removeFinalizer"}

(* A creation that has written nothing to the Tagemon yet.                 *)
Unrecorded == {"createConfigMap", "createDeployment", "createStatus"}

-----------------------------------------------------------------------------
(* The invariant of Tagemons and working copies                            *)

(* A version's status names resources of this Tagemon, all of them once it *)
(* was observed, and observes no generation there has not been.            *)
WellRecorded(t, object) ==
  /\ object.status.configMap \in NamesOf(t) \cup {NoName}
  /\ object.status.deployment \in NamesOf(t) \cup {NoName}
  /\ object.status.observed > 0 => RecordsResources(object)
  /\ object.status.observed <= object.generation

VersionsInv ==
  \A t \in Tagemons : \A version \in Range(tagemon[t]) \ {NoObject} :
    WellRecorded(t, version)

(* A Tagemon that is being deleted is not served again, also where the     *)
(* cache still has to learn that it is gone and was created anew.          *)
NoRevivalInv ==
  \A t \in Tagemons : Recorded(t) =>
    \A version \in Range(tagemon[t]) \ {NoObject} : ~version.deleting

(* What a handler knows of its working copy.                               *)
WellCopied(at, t, copy, recorded) ==
  /\ WellRecorded(t, copy)
  /\ at \in CreateSteps \cup ModifySteps => ~copy.deleting
  /\ at \in Unrecorded => copy.status.observed = 0 /\ ~copy.finalizer
  /\ at \in ModifySteps => copy.status.observed > 0
  /\ at \in DeleteSteps => copy.deleting /\ ~recorded

CopyInv ==
  job # NoJob => WellCopied(job.at, job.name, job.tagemon, Recorded(job.name))

(* A working copy that is current is what the API server stores, but for   *)
(* what a creation has not written yet; and a handler that creates or      *)
(* modifies started when nothing else was on its way to the cache.         *)
CurrentInv ==
  job # NoJob /\ job.current =>
    LET copy == job.tagemon
        stored == Stored(tagemon[job.name])
    IN /\ stored # NoObject
       /\ job.at \in Unrecorded =>
            /\ stored.spec = copy.spec /\ stored.generation = copy.generation
            /\ stored.status.observed = 0 /\ ~stored.finalizer /\ ~stored.deleting
       /\ job.at \notin Unrecorded => stored = copy
       /\ job.at \in CreateSteps \cup ModifySteps =>
            \A version \in Range(tagemon[job.name]) :
              version # NoObject /\ ~version.deleting /\ version.spec = copy.spec

TagemonInv == IndInv /\ VersionsInv /\ NoRevivalInv /\ CopyInv /\ CurrentInv

-----------------------------------------------------------------------------
(* What a step does to the Tagemons                                        *)

(* Nothing but what the caches learn.                                      *)
TagemonsStay ==
  \A t \in Tagemons : /\ Stored(tagemon'[t]) = Stored(tagemon[t])
                      /\ Range(tagemon'[t]) \subseteq Range(tagemon[t])

TagemonWritten(t, version) ==
  /\ Stored(tagemon'[t]) = version
  /\ Range(tagemon'[t]) \subseteq Range(tagemon[t]) \cup {version}
  /\ \A s \in Tagemons \ {t} : tagemon'[s] = tagemon[s]

(* The versions a user can write after another.                            *)
UserVersion(old, version) ==
  \/ old = NoObject /\ \E spec \in Specs : version = NewTagemon(spec)
  \/ /\ old # NoObject
     /\ \E spec \in Specs \ {old.spec} :
          version = [old EXCEPT !.spec = spec, !.generation = @ + 1]
  \/ old # NoObject /\ version = old
  \/ /\ old # NoObject /\ ~old.deleting
     /\ version = IF old.finalizer THEN [old EXCEPT !.deleting = TRUE] ELSE NoObject

UserWrites(t) ==
  \E version \in Tagemon \cup {NoObject} :
    /\ TagemonWritten(t, version)
    /\ UserVersion(Stored(tagemon[t]), version)
    /\ UNCHANGED <<configMap, deployment>>
    /\ job' = IF job # NoJob /\ job.name = t
              THEN [job EXCEPT !.current = FALSE] ELSE job

(* The versions a handler can write.                                       *)
HandlerVersion(version) ==
  \/ job.at \in {"createStatus", "modifyStatus"} /\ version = Observed(job.tagemon)
  \/ job.at = "addFinalizer" /\ version = [job.tagemon EXCEPT !.finalizer = TRUE]
  \/ job.at = "removeFinalizer" /\ version = NoObject

HandlerWrites ==
  /\ job # NoJob /\ job.current
  /\ Stored(tagemon[job.name]) # NoObject
  /\ UNCHANGED <<configMap, deployment>>
  /\ \E version \in Tagemon \cup {NoObject} :
       TagemonWritten(job.name, version) /\ HandlerVersion(version)

(* An update of one Tagemon in the API server adds one version to those in *)
(* sight.                                                                  *)
LEMMA WrittenOnce ==
  ASSUME TypeOK, NEW t \in Tagemons, NEW version \in Tagemon \cup {NoObject},
         tagemon' = [tagemon EXCEPT ![t] = Written(@, version)]
  PROVE  TagemonWritten(t, version)
<1>1. tagemon[t] \in Versions(Tagemon) /\ tagemon \in [Tagemons -> Versions(Tagemon)]
  BY DEF TypeOK
<1>2. tagemon'[t] = Written(tagemon[t], version)
  BY <1>1
<1>3. /\ Stored(Written(tagemon[t], version)) = version
      /\ Range(Written(tagemon[t], version)) \subseteq Range(tagemon[t]) \cup {version}
  BY <1>1, VersionsStored, VersionsWritten
<1>4. \A s \in Tagemons \ {t} : tagemon'[s] = tagemon[s]
  BY <1>1
<1> QED
  BY <1>2, <1>3, <1>4 DEF TagemonWritten

(* A delivery or a restart only forgets versions the cache has moved past. *)
LEMMA LearntOnly ==
  ASSUME TypeOK,
         UNCHANGED tagemon \/ Crash \/ \E t \in Tagemons : DeliverTagemon(t)
  PROVE  TagemonsStay
<1>1. tagemon \in [Tagemons -> Versions(Tagemon)]
  BY DEF TypeOK
<1>2. CASE UNCHANGED tagemon
  BY <1>2 DEF TagemonsStay
<1>3. CASE Crash
  <2>1. \A t \in Tagemons : tagemon'[t] = Relisted(tagemon[t])
    BY <1>3 DEF Crash
  <2> QED
    BY <1>1, <2>1, VersionsStored, VersionsRelisted DEF TagemonsStay
<1>4. ASSUME NEW t \in Tagemons, DeliverTagemon(t)
      PROVE  TagemonsStay
  <2>1. /\ tagemon[t] \in Versions(Tagemon) /\ ~UpToDate(tagemon[t])
        /\ tagemon' = [tagemon EXCEPT ![t] = Delivered(@)]
    BY <1>1, <1>4 DEF DeliverTagemon
  <2>2. /\ Stored(Delivered(tagemon[t])) = Stored(tagemon[t])
        /\ Range(Delivered(tagemon[t])) \subseteq Range(tagemon[t])
    BY <2>1, VersionsStored, VersionsDelivered
  <2> QED
    BY <1>1, <2>1, <2>2 DEF TagemonsStay
<1> QED
  BY <1>2, <1>3, <1>4

(* An Update by a handler writes its version, or nothing.                  *)
LEMMA UpdateWrites ==
  ASSUME TypeOK, job # NoJob, NEW version \in Tagemon \cup {NoObject},
         NEW accepted, NEW other, HandlerVersion(version),
         UNCHANGED <<configMap, deployment>>,
         \/ UpdateTagemon(version, accepted, GoOn(other))
         \/ UpdateTagemon(version, accepted, Fail)
  PROVE  \/ UNCHANGED tagemon
         \/ HandlerWrites
<1>1. job.name \in Tagemons
  BY WorkingCopyType
<1>2. CASE /\ Stored(tagemon[job.name]) # NoObject
           /\ job.current
           /\ tagemon' = [tagemon EXCEPT ![job.name] = Written(@, version)]
  <2>1. TagemonWritten(job.name, version)
    BY <1>1, <1>2, WrittenOnce
  <2> QED
    BY <1>2, <2>1 DEF HandlerWrites
<1> QED
  BY <1>2 DEF UpdateTagemon, Accepted

(* The steps of users.                                                     *)
LEMMA UserStepWrites ==
  ASSUME TypeOK, UserStep
  PROVE  \E t \in Tagemons : UserWrites(t)
<1>1. PICK t \in Tagemons :
        CreateTagemon(t) \/ EditSpec(t) \/ TouchTagemon(t) \/ DeleteTagemon(t)
  BY DEF UserStep
<1> DEFINE object == Stored(tagemon[t])
<1>2. object \in Tagemon \cup {NoObject}
  BY StoredType
<1>3. ASSUME NEW version \in Tagemon \cup {NoObject},
             UserVersion(object, version), OthersWrite(t, version)
      PROVE  UserWrites(t)
  <2>1. TagemonWritten(t, version)
    BY <1>3, WrittenOnce DEF OthersWrite
  <2> QED
    BY <1>3, <2>1 DEF UserWrites, OthersWrite
<1>4. CASE CreateTagemon(t)
  <2>1. PICK spec \in Specs : OthersWrite(t, NewTagemon(spec))
    BY <1>4 DEF CreateTagemon
  <2>2. UserVersion(object, NewTagemon(spec))
    BY <1>4 DEF CreateTagemon, UserVersion
  <2> QED
    BY <1>3, <2>1, <2>2, NewTagemonType
<1>5. CASE EditSpec(t)
  <2>1. PICK spec \in Specs \ {object.spec} :
          OthersWrite(t, [object EXCEPT !.spec = spec, !.generation = @ + 1])
    BY <1>5 DEF EditSpec
  <2> DEFINE version == [object EXCEPT !.spec = spec, !.generation = @ + 1]
  <2>2. object # NoObject /\ object \in Tagemon
    BY <1>2, <1>5 DEF EditSpec
  <2>3. UserVersion(object, version)
    BY <2>2 DEF UserVersion
  <2>4. version \in Tagemon
    <3>1. object.generation \in Nat \ {0} /\ object.generation + 1 \in Nat \ {0}
      BY <2>2 DEF Tagemon
    <3> HIDE DEF object
    <3> QED
      BY <2>2, <3>1 DEF Tagemon
  <2> QED
    BY <1>3, <2>1, <2>3, <2>4
<1>6. CASE TouchTagemon(t)
  BY <1>2, <1>3, <1>6 DEF TouchTagemon, UserVersion
<1>7. CASE DeleteTagemon(t)
  <2> DEFINE version == IF object.finalizer THEN [object EXCEPT !.deleting = TRUE] ELSE NoObject
  <2>1. object # NoObject /\ object \in Tagemon /\ ~object.deleting
    BY <1>2, <1>7 DEF DeleteTagemon
  <2>2. version \in Tagemon \cup {NoObject}
    BY <2>1 DEF Tagemon
  <2>3. UserVersion(object, version)
    BY <2>1 DEF UserVersion
  <2>4. OthersWrite(t, version)
    BY <1>7 DEF DeleteTagemon
  <2> QED
    BY <1>3, <2>2, <2>3, <2>4
<1> QED
  BY <1>1, <1>4, <1>5, <1>6, <1>7

(* A step leaves the stored Tagemons alone, or the handler or a user       *)
(* writes one.                                                             *)
LEMMA NextWrites ==
  ASSUME TypeOK, [Next]_vars
  PROVE  TagemonsStay \/ HandlerWrites \/ \E t \in Tagemons : UserWrites(t)
<1>1. CASE HandlerStep
  <2>1. job # NoJob
    BY <1>1 DEF HandlerStep, createConfigMap, createDeployment, createStatus,
                addFinalizer, updateConfigMap, annotateDeployment, updateDeployment,
                modifyStatus, deleteConfigMap, deleteDeployment, removeFinalizer, At
  <2>2. /\ Observed(job.tagemon) \in Tagemon
        /\ [job.tagemon EXCEPT !.finalizer = TRUE] \in Tagemon
    BY <2>1, WorkingCopyType
  <2>3. UNCHANGED tagemon \/ HandlerWrites
    <3>1. CASE createStatus \/ modifyStatus
      BY <2>1, <2>2, <3>1, UpdateWrites DEF createStatus, modifyStatus, At, HandlerVersion
    <3>2. CASE addFinalizer
      BY <2>1, <2>2, <3>2, UpdateWrites DEF addFinalizer, At, HandlerVersion
    <3>3. CASE removeFinalizer
      BY <2>1, <3>3, UpdateWrites DEF removeFinalizer, At, HandlerVersion
    <3> QED
      BY <1>1, <3>1, <3>2, <3>3
         DEF HandlerStep, createConfigMap, createDeployment, updateConfigMap,
             annotateDeployment, updateDeployment, deleteConfigMap, deleteDeployment
  <2> QED
    BY <2>3, LearntOnly
<1>2. CASE UserStep
  BY <1>2, UserStepWrites
<1>3. CASE UNCHANGED tagemon \/ Crash \/ \E t \in Tagemons : DeliverTagemon(t)
  BY <1>3, LearntOnly
<1>4. CASE CallFails \/ ClusterStep \/ UNCHANGED vars \/ \E t \in Tagemons : Reconcile(t)
  BY <1>3, <1>4
     DEF CallFails, cluster, ClusterStep, TouchDeployment, RemoveConfigMap,
         RemoveDeployment, DeliverConfigMap, DeliverDeployment, vars, Reconcile
<1> QED
  BY <1>1, <1>2, <1>3, <1>4 DEF Next
(* How the versions of a Tagemon change in a step.                         *)
TagemonMoves(t) ==
  \/ tagemon'[t] = tagemon[t]
  \/ tagemon'[t] = Relisted(tagemon[t])
  \/ ~UpToDate(tagemon[t]) /\ tagemon'[t] = Delivered(tagemon[t])
  \/ tagemon'[t] = Written(tagemon[t], Stored(tagemon'[t]))

(* Every step adds one version of a Tagemon or lets the cache learn.       *)
LEMMA NextMoves ==
  ASSUME TypeOK, [Next]_vars, NEW t \in Tagemons
  PROVE  TagemonMoves(t)
<1>0. tagemon \in [Tagemons -> Versions(Tagemon)] /\ tagemon[t] \in Versions(Tagemon)
  BY DEF TypeOK
<1>1. ASSUME NEW s, NEW version, tagemon' = [tagemon EXCEPT ![s] = Written(@, version)]
      PROVE  TagemonMoves(t)
  <2>1. tagemon'[t] = tagemon[t] \/ tagemon'[t] = Written(tagemon[t], version)
    BY <1>0, <1>1
  <2>2. Stored(Written(tagemon[t], version)) = version
    BY <1>0, VersionsStored
  <2> QED
    BY <2>1, <2>2 DEF TagemonMoves
<1>2. CASE UNCHANGED tagemon
  BY <1>2 DEF TagemonMoves
<1>3. CASE HandlerStep
  <2>1. ASSUME NEW version, NEW accepted, NEW conflict,
               UpdateTagemon(version, accepted, conflict)
        PROVE  TagemonMoves(t)
    BY <1>1, <1>2, <2>1 DEF UpdateTagemon
  <2>2. CASE createStatus \/ addFinalizer \/ modifyStatus \/ removeFinalizer
    BY <2>1, <2>2 DEF createStatus, addFinalizer, modifyStatus, removeFinalizer
  <2> QED
    BY <1>2, <1>3, <2>2
       DEF HandlerStep, createConfigMap, createDeployment, updateConfigMap,
           annotateDeployment, updateDeployment, deleteConfigMap, deleteDeployment
<1>4. CASE UserStep
  <2>1. ASSUME NEW s, NEW version, OthersWrite(s, version)
        PROVE  TagemonMoves(t)
    BY <1>1, <2>1 DEF OthersWrite
  <2> QED
    BY <1>4, <2>1 DEF UserStep, CreateTagemon, EditSpec, TouchTagemon, DeleteTagemon
<1>5. CASE Crash
  BY <1>0, <1>5 DEF Crash, TagemonMoves
<1>6. ASSUME NEW s \in Tagemons, DeliverTagemon(s)
      PROVE  TagemonMoves(t)
  BY <1>0, <1>6 DEF DeliverTagemon, TagemonMoves
<1>7. CASE CallFails \/ ClusterStep \/ UNCHANGED vars \/ \E s \in Tagemons : Reconcile(s)
  BY <1>2, <1>7
     DEF CallFails, cluster, ClusterStep, TouchDeployment, RemoveConfigMap,
         RemoveDeployment, DeliverConfigMap, DeliverDeployment, vars, Reconcile
<1> QED
  BY <1>3, <1>4, <1>5, <1>6, <1>7 DEF Next

-----------------------------------------------------------------------------
(* What a step does to the handler under way                               *)

Moved(step, copy) ==
  /\ job' # NoJob
  /\ job'.at = step /\ job'.tagemon = copy
  /\ job'.name = job.name /\ job'.current = job.current

ModifyMoves ==
  {<<"updateConfigMap", "annotateDeployment">>,
   <<"annotateDeployment", "updateDeployment">>,
   <<"updateDeployment", "modifyStatus">>}

DeleteMoves ==
  {<<"deleteConfigMap", "deleteDeployment">>, <<"deleteDeployment", "removeFinalizer">>}

HandlerMoves ==
  /\ job # NoJob
  /\ \/ job' = NoJob
     \/ /\ job.at = "createConfigMap" /\ UNCHANGED tagemon
        /\ Moved("createDeployment", WithConfigMapName(job.tagemon, ResourceName))
     \/ /\ job.at = "createDeployment" /\ UNCHANGED tagemon
        /\ Moved("createStatus", [job.tagemon EXCEPT !.status.deployment = ResourceName])
     \/ /\ job.at = "createStatus"
        /\ Moved("addFinalizer", Observed(job.tagemon))
        /\ job.current => TagemonWritten(job.name, Observed(job.tagemon))
     \/ /\ UNCHANGED tagemon
        /\ \E move \in ModifyMoves \cup DeleteMoves :
             job.at = move[1] /\ Moved(move[2], job.tagemon)

(* A handler that goes on has a job to go on with.                         *)
LEMMA HandlerStepMoves ==
  ASSUME TypeOK, HandlerStep
  PROVE  HandlerMoves
<1>0. job # NoJob /\ job \in Job /\ job.tagemon \in Tagemon /\ job.name \in Tagemons
  <2>1. job # NoJob
    BY DEF HandlerStep, createConfigMap, createDeployment, createStatus,
           addFinalizer, updateConfigMap, annotateDeployment, updateDeployment,
           modifyStatus, deleteConfigMap, deleteDeployment, removeFinalizer, At
  <2> QED
    BY <2>1, WorkingCopyType
<1>1. ASSUME NEW next, GoOn(next) \/ Answer(next) \/ Fail
      PROVE  job' = next \/ job' = NoJob
  BY <1>1 DEF GoOn, Answer, Fail, Retry
<1>2. CASE createConfigMap
  <2> DEFINE next == [job EXCEPT !.at = "createDeployment",
                                 !.tagemon = WithConfigMapName(@, ResourceName)]
  <2>1. job.at = "createConfigMap" /\ UNCHANGED tagemon /\ (job' = next \/ job' = NoJob)
    BY <1>1, <1>2 DEF createConfigMap, At
  <2>2. ASSUME job' # NoJob
        PROVE  Moved("createDeployment", WithConfigMapName(job.tagemon, ResourceName))
    BY <1>0, <2>1, <2>2 DEF Moved, Job
  <2> QED
    BY <1>0, <2>1, <2>2 DEF HandlerMoves
<1>3. CASE createDeployment
  <2> DEFINE copy == [job.tagemon EXCEPT !.status.deployment = ResourceName]
             next == [job EXCEPT !.at = "createStatus",
                                 !.tagemon.status.deployment = ResourceName]
  <2>1. job.at = "createDeployment" /\ UNCHANGED tagemon /\ (job' = next \/ job' = NoJob)
    BY <1>1, <1>3 DEF createDeployment, At
  <2>2. next = [job EXCEPT !.at = "createStatus", !.tagemon = copy]
    BY <1>0 DEF Job, Tagemon
  <2>3. ASSUME job' # NoJob
        PROVE  Moved("createStatus", copy)
    BY <1>0, <2>1, <2>2, <2>3 DEF Moved, Job
  <2> QED
    BY <1>0, <2>1, <2>3 DEF HandlerMoves
<1>4. CASE createStatus
  <2> DEFINE version == Observed(job.tagemon)
             next == [job EXCEPT !.at = "addFinalizer", !.tagemon = version]
  <2>1. job.at = "createStatus" /\ version \in Tagemon /\ UpdateTagemon(version, next, GoOn(next))
    BY <1>0, <1>4, WorkingCopyType DEF createStatus, At
  <2>2. job' = next \/ job' = NoJob
    BY <1>1, <2>1 DEF UpdateTagemon
  <2>3. ASSUME job' # NoJob
        PROVE  Moved("addFinalizer", version)
    BY <1>0, <2>2, <2>3 DEF Moved, Job
  <2>4. ASSUME job' # NoJob, job.current
        PROVE  TagemonWritten(job.name, version)
    <3>1. tagemon' = [tagemon EXCEPT ![job.name] = Written(@, version)]
      BY <2>1, <2>4 DEF UpdateTagemon, Accepted, Fail, Retry
    <3> QED
      BY <1>0, <2>1, <3>1, WrittenOnce
  <2> QED
    BY <1>0, <2>1, <2>3, <2>4 DEF HandlerMoves
<1>5. ASSUME NEW move \in ModifyMoves \cup DeleteMoves,
             job.at = move[1], UNCHANGED tagemon,
             NEW changed \in BOOLEAN,
             \/ job' = NoJob
             \/ job' = [job EXCEPT !.at = move[2]]
             \/ job' = [job EXCEPT !.at = move[2], !.changed = changed]
      PROVE  HandlerMoves
  <2>1. job' # NoJob => Moved(move[2], job.tagemon)
    BY <1>0, <1>5 DEF Moved, Job
  <2> QED
    BY <1>0, <1>5, <2>1 DEF HandlerMoves
<1>6. CASE updateConfigMap
  <2>1. \/ job' = NoJob
        \/ \E changed \in BOOLEAN :
             job' = [job EXCEPT !.at = "annotateDeployment", !.changed = changed]
    BY <1>6 DEF updateConfigMap, GoOn, Answer, Fail, Retry
  <2> DEFINE move == <<"updateConfigMap", "annotateDeployment">>
  <2>2. move \in ModifyMoves /\ job.at = move[1] /\ UNCHANGED tagemon
    BY <1>6 DEF updateConfigMap, At, ModifyMoves
  <2>3. ASSUME NEW changed \in BOOLEAN,
               job' = [job EXCEPT !.at = move[2], !.changed = changed]
        PROVE  HandlerMoves
    BY <1>5, <2>2, <2>3
  <2>4. CASE job' = NoJob
    BY <1>0, <2>4 DEF HandlerMoves
  <2> QED
    BY <2>1, <2>3, <2>4
<1>7. CASE annotateDeployment
  <2> DEFINE move == <<"annotateDeployment", "updateDeployment">>
  <2>1. job' = NoJob \/ job' = [job EXCEPT !.at = move[2]]
    BY <1>7 DEF annotateDeployment, UpdateDeployment, GoOn, Answer, Fail, Retry
  <2>2. move \in ModifyMoves /\ job.at = move[1] /\ UNCHANGED tagemon
    BY <1>7 DEF annotateDeployment, At, ModifyMoves
  <2> QED
    BY <1>5, <2>1, <2>2
<1>8. CASE updateDeployment
  <2> DEFINE move == <<"updateDeployment", "modifyStatus">>
  <2>1. job' = NoJob \/ job' = [job EXCEPT !.at = move[2]]
    BY <1>8 DEF updateDeployment, UpdateDeployment, GoOn, Answer, Fail, Retry
  <2>2. move \in ModifyMoves /\ job.at = move[1] /\ UNCHANGED tagemon
    BY <1>8 DEF updateDeployment, At, ModifyMoves
  <2> QED
    BY <1>5, <2>1, <2>2
<1>9. CASE deleteConfigMap
  <2> DEFINE move == <<"deleteConfigMap", "deleteDeployment">>
  <2>1. job' = NoJob \/ job' = [job EXCEPT !.at = move[2]]
    BY <1>9 DEF deleteConfigMap, GoOn, Answer, Fail, Retry
  <2>2. move \in DeleteMoves /\ job.at = move[1] /\ UNCHANGED tagemon
    BY <1>9 DEF deleteConfigMap, At, DeleteMoves
  <2> QED
    BY <1>5, <2>1, <2>2
<1>10. CASE deleteDeployment
  <2> DEFINE move == <<"deleteDeployment", "removeFinalizer">>
  <2>1. job' = NoJob \/ job' = [job EXCEPT !.at = move[2]]
    BY <1>10 DEF deleteDeployment, GoOn, Answer, Fail, Retry
  <2>2. move \in DeleteMoves /\ job.at = move[1] /\ UNCHANGED tagemon
    BY <1>10 DEF deleteDeployment, At, DeleteMoves
  <2> QED
    BY <1>5, <2>1, <2>2
<1>11. CASE addFinalizer \/ modifyStatus \/ removeFinalizer
  <2>1. job' = NoJob
    BY <1>11
       DEF addFinalizer, modifyStatus, removeFinalizer, UpdateTagemon, GoOn, Answer,
           Fail, Retry
  <2> QED
    BY <1>0, <2>1 DEF HandlerMoves
<1> QED
  BY <1>2, <1>3, <1>4, <1>6, <1>7, <1>8, <1>9, <1>10, <1>11 DEF HandlerStep

(* Reconcile starts a handler on the version in the cache.                 *)
HandlerStarts(t) ==
  /\ job = NoJob /\ UNCHANGED cluster
  /\ job' # NoJob
  /\ job'.name = t
  /\ job'.current = UpToDate(tagemon[t])
  /\ LET object == Cached(tagemon[t])
     IN /\ object # NoObject
        /\ \/ /\ job'.at = "createConfigMap"
              /\ ~object.deleting /\ ~object.finalizer /\ object.status.observed = 0
              /\ \E id \in Ids : job'.tagemon = [object EXCEPT !.status.id = id]
           \/ /\ job'.at = "updateConfigMap" /\ job'.tagemon = object
              /\ ~object.deleting
              /\ object.finalizer \/ object.status.observed # 0
              /\ object.status.observed # object.generation
           \/ /\ job'.at = "deleteConfigMap" /\ job'.tagemon = object
              /\ object.deleting

(* Reconcile starts one of the three handlers with the cached version, or  *)
(* nothing.                                                                *)
LEMMA ReconcileStarts ==
  ASSUME NEW t \in Tagemons, Reconcile(t)
  PROVE  job' = NoJob \/ HandlerStarts(t)
<1> DEFINE object == Cached(tagemon[t])
<1> SUFFICES ASSUME job' # NoJob
             PROVE  HandlerStarts(t)
  OBVIOUS
<1>1. ASSUME NEW step, NEW copy, job' = Started(t, step, copy)
      PROVE  /\ job'.name = t /\ job'.current = UpToDate(tagemon[t])
             /\ job'.at = step /\ job'.tagemon = copy
  BY <1>1 DEF Started
<1>2. job = NoJob /\ UNCHANGED cluster
  BY DEF Reconcile
<1>3. CASE ChosenHandler(object) = "create" /\ handleCreate(t, object)
  <2>1. PICK id \in Ids :
          job' = Started(t, "createConfigMap", [object EXCEPT !.status.id = id])
    BY <1>3 DEF handleCreate
  <2>2. object # NoObject /\ ~object.deleting /\ ~object.finalizer /\ object.status.observed = 0
    BY <1>3 DEF ChosenHandler, IsNotFound
  <2> QED
    BY <1>1, <1>2, <2>1, <2>2 DEF HandlerStarts
<1>4. CASE ChosenHandler(object) = "modify" /\ handleModify(t, object)
  <2>1. /\ object # NoObject /\ ~object.deleting
        /\ object.finalizer \/ object.status.observed # 0
        /\ object.status.observed # object.generation
    BY <1>4 DEF ChosenHandler, IsNotFound
  <2> QED
    BY <1>1, <1>2, <1>4, <2>1 DEF HandlerStarts, handleModify
<1>5. CASE ChosenHandler(object) = "delete" /\ handleDelete(t, object)
  <2>1. object # NoObject /\ object.deleting
    BY <1>5 DEF ChosenHandler, IsNotFound
  <2> QED
    BY <1>1, <1>2, <1>5, <2>1 DEF HandlerStarts, handleDelete
<1> QED
  BY <1>3, <1>4, <1>5 DEF Reconcile

(* Whatever steps, the handler under way stays, starts, moves, ends, or    *)
(* learns that its working copy is old.                                    *)
LEMMA NextJob ==
  ASSUME TypeOK, [Next]_vars
  PROVE  \/ job' = NoJob
         \/ job' = job /\ TagemonsStay
         \/ \E t \in Tagemons : HandlerStarts(t) /\ TagemonsStay
         \/ HandlerMoves
         \/ \E t \in Tagemons : UserWrites(t)
<1>1. CASE HandlerStep
  BY <1>1, HandlerStepMoves
<1>2. CASE UserStep
  BY <1>2, UserStepWrites
<1>3. CASE CallFails \/ Crash
  BY <1>3 DEF CallFails, Crash, Retry
<1>4. ASSUME NEW t \in Tagemons, Reconcile(t)
      PROVE  job' = NoJob \/ (HandlerStarts(t) /\ TagemonsStay)
  BY <1>4, ReconcileStarts, LearntOnly DEF Reconcile, cluster
<1>5. CASE ClusterStep \/ UNCHANGED vars \/ \E t \in Tagemons : DeliverTagemon(t)
  BY <1>5, LearntOnly
     DEF ClusterStep, TouchDeployment, RemoveConfigMap, RemoveDeployment,
         DeliverConfigMap, DeliverDeployment, vars, DeliverTagemon
<1> QED
  BY <1>1, <1>2, <1>3, <1>4, <1>5 DEF Next
-----------------------------------------------------------------------------
(* Versions                                                                *)

(* The versions in sight are Tagemons, the cached and the stored one among *)
(* them.                                                                   *)
LEMMA RangeType ==
  ASSUME TypeOK, NEW t \in Tagemons
  PROVE  /\ Range(tagemon[t]) \subseteq Tagemon \cup {NoObject}
         /\ Cached(tagemon[t]) \in Range(tagemon[t])
         /\ Stored(tagemon[t]) \in Range(tagemon[t])
<1>1. tagemon[t] \in Versions(Tagemon)
  BY DEF TypeOK
<1>2. tagemon[t] \in Seq(Tagemon \cup {NoObject})
  BY <1>1 DEF Versions
<1>3. Range(tagemon[t]) \subseteq Tagemon \cup {NoObject}
  BY <1>2 DEF Range
<1> QED
  BY <1>1, <1>3, VersionsEnds

RecordedVersion(object) ==
  object # NoObject /\ ~object.deleting /\ object.status.observed > 0

(* Recorded is a matter of the stored version.                             *)
LEMMA RecordedStored ==
  \A t \in Tagemons : Recorded(t) <=> RecordedVersion(Stored(tagemon[t]))
BY DEF Recorded, Live, RecordedVersion

(* Users leave the status alone.                                           *)
LEMMA UserVersionFacts ==
  ASSUME NEW t \in Tagemons, NEW old \in Tagemon \cup {NoObject},
         NEW version, UserVersion(old, version)
  PROVE  /\ (old # NoObject => WellRecorded(t, old))
              => (version # NoObject => WellRecorded(t, version))
         /\ RecordedVersion(version) => RecordedVersion(old)
         /\ RecordedVersion(old) => version = NoObject \/ version.status = old.status
<1>1. CASE old = NoObject
  <2>1. PICK spec \in Specs : version = NewTagemon(spec)
    BY <1>1 DEF UserVersion
  <2> QED
    BY <1>1, <2>1 DEF NewTagemon, WellRecorded, RecordedVersion
<1>2. CASE old # NoObject
  <2>0. old \in Tagemon
    BY <1>2
  <2>1. CASE version = old
    BY <2>1
  <2>2. ASSUME NEW spec \in Specs,
               version = [old EXCEPT !.spec = spec, !.generation = @ + 1]
        PROVE  /\ version.status = old.status
               /\ version.deleting = old.deleting
               /\ version.generation = old.generation + 1
    BY <2>0, <2>2 DEF Tagemon
  <2>3. CASE version = [old EXCEPT !.deleting = TRUE]
    <3>1. /\ version.status = old.status
          /\ version.deleting
          /\ version.generation = old.generation
      BY <2>0, <2>3 DEF Tagemon
    <3> QED
      BY <1>2, <3>1 DEF WellRecorded, RecordedVersion, RecordsResources
  <2>4. CASE version = NoObject
    BY <2>4 DEF WellRecorded, RecordedVersion
  <2>5. ASSUME version.status = old.status, version.deleting = old.deleting,
               version.generation = old.generation + 1
        PROVE  /\ WellRecorded(t, old) => WellRecorded(t, version)
               /\ RecordedVersion(version) => RecordedVersion(old)
    <3>1. /\ old.generation \in Nat /\ old.status.observed \in Nat
          /\ old.status.observed <= old.generation
               => old.status.observed <= old.generation + 1
      BY <2>0 DEF Tagemon, Status
    <3> QED
      BY <1>2, <2>5, <3>1 DEF WellRecorded, RecordedVersion, RecordsResources
  <2> QED
    BY <1>2, <2>1, <2>2, <2>3, <2>4, <2>5 DEF UserVersion
<1> QED
  BY <1>1, <1>2

(* What a handler writes, its copy being as it should.                     *)
LEMMA HandlerVersionFacts ==
  ASSUME TagemonInv, job # NoJob, NEW version, HandlerVersion(version)
  PROVE  version # NoObject =>
              /\ WellRecorded(job.name, version)
              /\ version.spec = job.tagemon.spec
              /\ version.generation = job.tagemon.generation
              /\ ~version.deleting
              /\ version.status.observed > 0
              /\ version.status.configMap = job.tagemon.status.configMap
              /\ version.status.deployment = job.tagemon.status.deployment
              /\ version.status.id = job.tagemon.status.id
              /\ job.at \in {"createStatus", "addFinalizer", "modifyStatus"}
<1>0. /\ TypeOK /\ WorkingCopyInv /\ CopyInv /\ WellRecorded(job.name, job.tagemon)
      /\ job.tagemon \in Tagemon
  BY WorkingCopyType DEF TagemonInv, IndInv, CopyInv, WellCopied
<1>1. CASE version = NoObject
  BY <1>1
<1>2. CASE job.at \in {"createStatus", "modifyStatus"} /\ version = Observed(job.tagemon)
  <2>1. /\ version.spec = job.tagemon.spec
        /\ version.generation = job.tagemon.generation
        /\ version.deleting = job.tagemon.deleting
        /\ version.status.observed = job.tagemon.generation
        /\ version.status.configMap = job.tagemon.status.configMap
        /\ version.status.deployment = job.tagemon.status.deployment
        /\ version.status.id = job.tagemon.status.id
        /\ job.tagemon.generation \in Nat \ {0}
    BY <1>0, <1>2 DEF Observed, Tagemon, Status
  <2>2. ~job.tagemon.deleting
    BY <1>0, <1>2 DEF CopyInv, WellCopied, CreateSteps, ModifySteps
  <2>3. /\ job.tagemon.status.configMap \in Names
        /\ job.tagemon.status.deployment \in Names
    <3>1. CASE job.at = "createStatus"
      BY <1>0, <3>1 DEF WorkingCopyInv
    <3>2. CASE job.at = "modifyStatus"
      BY <1>0, <3>2 DEF CopyInv, WellCopied, ModifySteps, WellRecorded, RecordsResources
    <3> QED
      BY <1>2, <3>1, <3>2
  <2>4. WellRecorded(job.name, version)
    BY <1>0, <2>1, <2>3 DEF WellRecorded, RecordsResources
  <2> QED
    BY <1>2, <2>1, <2>2, <2>4
<1>3. CASE job.at = "addFinalizer" /\ version = [job.tagemon EXCEPT !.finalizer = TRUE]
  <2>1. /\ version.spec = job.tagemon.spec
        /\ version.generation = job.tagemon.generation
        /\ version.deleting = job.tagemon.deleting
        /\ version.status = job.tagemon.status
    BY <1>0, <1>3 DEF Tagemon
  <2>2. ~job.tagemon.deleting /\ job.tagemon.status.observed > 0
    BY <1>0, <1>3 DEF CopyInv, WellCopied, CreateSteps, WorkingCopyInv
  <2> QED
    BY <1>0, <1>3, <2>1, <2>2 DEF WellRecorded, RecordsResources
<1> QED
  BY <1>1, <1>2, <1>3 DEF HandlerVersion

(* Every version of a Tagemon that is written is well recorded.            *)
LEMMA VersionsKept ==
  ASSUME TagemonInv, [Next]_vars
  PROVE  VersionsInv'
<1>0. TypeOK /\ VersionsInv
  BY DEF TagemonInv, IndInv
<1>1. ASSUME NEW t \in Tagemons, NEW version, TagemonWritten(t, version),
             version # NoObject => WellRecorded(t, version)
      PROVE  VersionsInv'
  BY <1>0, <1>1 DEF TagemonWritten, VersionsInv, WellRecorded, RecordsResources
<1>2. CASE TagemonsStay
  BY <1>0, <1>2 DEF TagemonsStay, VersionsInv, WellRecorded, RecordsResources
<1>3. CASE HandlerWrites
  <2>1. PICK version : TagemonWritten(job.name, version) /\ HandlerVersion(version)
    BY <1>3 DEF HandlerWrites
  <2>2. job # NoJob /\ job.name \in Tagemons
    BY <1>0, <1>3, WorkingCopyType DEF HandlerWrites
  <2> QED
    BY <1>1, <2>1, <2>2, HandlerVersionFacts
<1>4. ASSUME NEW t \in Tagemons, UserWrites(t)
      PROVE  VersionsInv'
  <2>1. PICK version : TagemonWritten(t, version) /\ UserVersion(Stored(tagemon[t]), version)
    BY <1>4 DEF UserWrites
  <2>2. Stored(tagemon[t]) \in (Tagemon \cup {NoObject}) \cap Range(tagemon[t])
    BY <1>0, RangeType
  <2>3. Stored(tagemon[t]) # NoObject => WellRecorded(t, Stored(tagemon[t]))
    BY <1>0, <2>2 DEF VersionsInv
  <2> QED
    BY <1>1, <2>1, <2>2, <2>3, UserVersionFacts
<1> QED
  BY <1>0, <1>2, <1>3, <1>4, NextWrites

(* No version of a recorded Tagemon that a cache still has to learn is a   *)
(* deleted one.                                                            *)
LEMMA NoRevivalKept ==
  ASSUME TagemonInv, [Next]_vars
  PROVE  NoRevivalInv'
<1>0. TypeOK /\ NoRevivalInv /\ CurrentInv
  BY DEF TagemonInv, IndInv
<1> SUFFICES ASSUME NEW t \in Tagemons, RecordedVersion(Stored(tagemon'[t]))
             PROVE  \A version \in Range(tagemon'[t]) \ {NoObject} : ~version.deleting
  BY DEF NoRevivalInv, Recorded, Live, RecordedVersion
<1>1. ASSUME RecordedVersion(Stored(tagemon[t]))
      PROVE  \A version \in Range(tagemon[t]) \ {NoObject} : ~version.deleting
  BY <1>0, <1>1, RecordedStored DEF NoRevivalInv
<1>2. CASE TagemonsStay
  BY <1>1, <1>2 DEF TagemonsStay
<1>3. CASE HandlerWrites
  <2>1. PICK version : TagemonWritten(job.name, version) /\ HandlerVersion(version)
    BY <1>3 DEF HandlerWrites
  <2>2. CASE t # job.name
    BY <1>1, <2>1, <2>2 DEF TagemonWritten
  <2>3. CASE t = job.name
    <3>1. version = Stored(tagemon'[t]) /\ version # NoObject /\ job # NoJob
      BY <1>3, <2>1, <2>3 DEF TagemonWritten, HandlerWrites, RecordedVersion
    <3>2. /\ ~version.deleting
          /\ job.at \in {"createStatus", "addFinalizer", "modifyStatus"}
      BY <2>1, <3>1, HandlerVersionFacts
    <3>3. \A older \in Range(tagemon[t]) : ~older.deleting
      BY <1>0, <1>3, <2>3, <3>2 DEF CurrentInv, HandlerWrites, CreateSteps, ModifySteps
    <3> QED
      BY <2>1, <2>3, <3>2, <3>3 DEF TagemonWritten
  <2> QED
    BY <2>2, <2>3
<1>4. ASSUME NEW s \in Tagemons, UserWrites(s)
      PROVE  \A version \in Range(tagemon'[t]) \ {NoObject} : ~version.deleting
  <2>1. PICK version : TagemonWritten(s, version) /\ UserVersion(Stored(tagemon[s]), version)
    BY <1>4 DEF UserWrites
  <2>2. CASE t # s
    BY <1>1, <2>1, <2>2 DEF TagemonWritten
  <2>3. CASE t = s
    <3>1. Stored(tagemon[s]) \in Tagemon \cup {NoObject}
      BY <1>0, RangeType
    <3>2. RecordedVersion(version) /\ RecordedVersion(Stored(tagemon[t]))
      BY <2>1, <2>3, <3>1, UserVersionFacts DEF TagemonWritten
    <3> QED
      BY <1>1, <2>1, <2>3, <3>2 DEF TagemonWritten, RecordedVersion
  <2> QED
    BY <2>2, <2>3
<1> QED
  BY <1>0, <1>2, <1>3, <1>4, NextWrites

-----------------------------------------------------------------------------
(* Working copies                                                          *)

(* The name a handler builds is one of those its Tagemon may give.         *)
LEMMA ResourceNameType ==
  ASSUME TypeOK, job # NoJob
  PROVE  ResourceName \in NamesOf(job.name) /\ ResourceName \in Names
BY WorkingCopyType, NamesAssumption, SpecsAssumption
   DEF ResourceName, NamesOf, Tagemon

(* What a handler starts from.                                             *)
LEMMA StartFacts ==
  ASSUME TagemonInv, NEW t \in Tagemons, HandlerStarts(t)
  PROVE  LET object == Cached(tagemon[t])
         IN /\ object \in Tagemon /\ object \in Range(tagemon[t])
            /\ WellRecorded(t, object)
            /\ object.finalizer => object.status.observed > 0
            /\ object.deleting => ~Recorded(t)
<1>1. TypeOK /\ VersionsInv /\ NoRevivalInv /\ RecordedBeforeFinalizer
  BY DEF TagemonInv, IndInv
<1>2. Cached(tagemon[t]) # NoObject
  BY Zenon DEF HandlerStarts
<1>3. Cached(tagemon[t]) \in Range(tagemon[t]) \ {NoObject}
  BY <1>1, <1>2, RangeType
<1> QED
  BY <1>1, <1>3, RangeType
     DEF VersionsInv, NoRevivalInv, RecordedBeforeFinalizer, RecordsResources

(* Every step keeps what a working copy tells of its Tagemon.              *)
LEMMA WellCopiedKept ==
  ASSUME TagemonInv, [Next]_vars
  PROVE  CopyInv'
<1>0. TypeOK /\ CopyInv /\ WorkingCopyInv /\ VersionsInv
  BY DEF TagemonInv, IndInv
<1> SUFFICES ASSUME job' # NoJob
             PROVE  WellCopied(job'.at, job'.name, job'.tagemon, Recorded(job.name)')
  BY DEF CopyInv, WellCopied, WellRecorded, RecordsResources
<1>1. ASSUME job # NoJob, job'.at = job.at, job'.name = job.name,
             job'.tagemon = job.tagemon, Recorded(job.name)' => Recorded(job.name)
      PROVE  WellCopied(job'.at, job'.name, job'.tagemon, Recorded(job.name)')
  BY <1>0, <1>1 DEF CopyInv, WellCopied
<1>2. CASE job' = job /\ TagemonsStay
  <2>1. job.name \in Tagemons /\ job # NoJob
    BY <1>0, <1>2, WorkingCopyType
  <2>2. Recorded(job.name)' <=> Recorded(job.name)
    BY <1>2, <2>1 DEF TagemonsStay, Recorded, Live
  <2> QED
    BY <1>1, <1>2, <2>1, <2>2
<1>3. ASSUME NEW t \in Tagemons, HandlerStarts(t), TagemonsStay
      PROVE  WellCopied(job'.at, job'.name, job'.tagemon, Recorded(job.name)')
  <2> DEFINE object == Cached(tagemon[t])
  <2>1. /\ object \in Tagemon /\ WellRecorded(t, object)
        /\ object.finalizer => object.status.observed > 0
        /\ object.deleting => ~Recorded(t)
    BY <1>3, StartFacts
  <2>2. job'.name = t
    BY <1>3 DEF HandlerStarts
  <2>3. Recorded(job.name)' <=> Recorded(t)
    BY <1>3, <2>2 DEF TagemonsStay, Recorded, Live
  <2>4. ASSUME NEW id \in Ids, job'.tagemon = [object EXCEPT !.status.id = id],
               job'.at = "createConfigMap", ~object.deleting, ~object.finalizer,
               object.status.observed = 0
        PROVE  WellCopied(job'.at, job'.name, job'.tagemon, Recorded(job.name)')
    <3>1. /\ job'.tagemon.deleting = object.deleting
          /\ job'.tagemon.finalizer = object.finalizer
          /\ job'.tagemon.generation = object.generation
          /\ job'.tagemon.status.observed = object.status.observed
          /\ job'.tagemon.status.configMap = object.status.configMap
          /\ job'.tagemon.status.deployment = object.status.deployment
      BY <2>1, <2>4 DEF Tagemon, Status
    <3>2. WellRecorded(t, job'.tagemon)
      BY <2>1, <3>1 DEF WellRecorded, RecordsResources
    <3> QED
      BY <2>2, <2>4, <3>1, <3>2 DEF WellCopied, ModifySteps, DeleteSteps
  <2>5. CASE /\ job'.at = "updateConfigMap" /\ job'.tagemon = object
             /\ ~object.deleting
             /\ object.finalizer \/ object.status.observed # 0
    <3>1. object.status.observed > 0
      BY <2>1, <2>5 DEF Tagemon, Status
    <3> QED
      BY <2>1, <2>2, <2>5, <3>1 DEF WellCopied, Unrecorded, ModifySteps, DeleteSteps
  <2>6. CASE job'.at = "deleteConfigMap" /\ job'.tagemon = object /\ object.deleting
    BY <2>1, <2>3, <2>2, <2>6 DEF WellCopied, Unrecorded, CreateSteps, ModifySteps, DeleteSteps
  <2> QED
    BY <1>3, <2>4, <2>5, <2>6 DEF HandlerStarts
<1>4. CASE HandlerMoves
  <2>0. /\ job # NoJob /\ job.tagemon \in Tagemon
        /\ WellCopied(job.at, job.name, job.tagemon, Recorded(job.name))
        /\ job'.name = job.name
    BY <1>0, <1>4, WorkingCopyType
       DEF HandlerMoves, CopyInv, Moved, WellRecorded, RecordsResources
  <2>1. CASE /\ job.at = "createConfigMap"
             /\ Moved("createDeployment", WithConfigMapName(job.tagemon, ResourceName))
    <3> DEFINE copy == WithConfigMapName(job.tagemon, ResourceName)
    <3>1. /\ copy.status.configMap = ResourceName
          /\ copy.status.deployment = job.tagemon.status.deployment
          /\ copy.status.observed = job.tagemon.status.observed
          /\ copy.generation = job.tagemon.generation
          /\ copy.deleting = job.tagemon.deleting
          /\ copy.finalizer = job.tagemon.finalizer
      BY <2>0 DEF WithConfigMapName, Tagemon, Status
    <3>2. ResourceName \in NamesOf(job.name) /\ ResourceName \in Names
      BY <1>0, <2>0, ResourceNameType
    <3>3. job.tagemon.status.observed = 0 /\ ~job.tagemon.finalizer /\ ~job.tagemon.deleting
      BY <2>0, <2>1 DEF WellCopied, Unrecorded, CreateSteps, DeleteSteps
    <3>4. WellRecorded(job.name, copy)
      <4> HIDE DEF copy
      <4>1. WellRecorded(job.name, job.tagemon)
        BY <2>0 DEF WellCopied
      <4> QED
        BY <3>1, <3>2, <3>3, <4>1 DEF WellRecorded
    <3> QED
      BY <2>0, <2>1, <3>1, <3>3, <3>4 DEF WellCopied, Moved, Unrecorded, ModifySteps, DeleteSteps
  <2>2. CASE /\ job.at = "createDeployment"
             /\ Moved("createStatus", [job.tagemon EXCEPT !.status.deployment = ResourceName])
    <3> DEFINE copy == [job.tagemon EXCEPT !.status.deployment = ResourceName]
    <3>1. /\ copy.status.configMap = job.tagemon.status.configMap
          /\ copy.status.deployment = ResourceName
          /\ copy.status.observed = job.tagemon.status.observed
          /\ copy.generation = job.tagemon.generation
          /\ copy.deleting = job.tagemon.deleting
          /\ copy.finalizer = job.tagemon.finalizer
      BY <2>0 DEF Tagemon, Status
    <3>2. ResourceName \in NamesOf(job.name) /\ ResourceName \in Names
      BY <1>0, <2>0, ResourceNameType
    <3>3. job.tagemon.status.observed = 0 /\ ~job.tagemon.finalizer /\ ~job.tagemon.deleting
      BY <2>0, <2>2 DEF WellCopied, Unrecorded, CreateSteps, DeleteSteps
    <3>4. WellRecorded(job.name, copy)
      <4> HIDE DEF copy
      <4>1. WellRecorded(job.name, job.tagemon)
        BY <2>0 DEF WellCopied
      <4> QED
        BY <3>1, <3>2, <3>3, <4>1 DEF WellRecorded
    <3> QED
      BY <2>0, <2>2, <3>1, <3>3, <3>4 DEF WellCopied, Moved, Unrecorded, ModifySteps, DeleteSteps
  <2>3. CASE job.at = "createStatus" /\ Moved("addFinalizer", Observed(job.tagemon))
    <3> DEFINE copy == Observed(job.tagemon)
    <3>1. HandlerVersion(copy) /\ copy # NoObject
      <4>1. copy \in Tagemon
        BY <1>0, <2>0, WorkingCopyType
      <4> QED
        BY <2>3, <4>1, ObjectsAssumption DEF HandlerVersion
    <3>2. WellRecorded(job.name, copy) /\ ~copy.deleting
      BY <2>0, <3>1, HandlerVersionFacts
    <3> QED
      BY <2>0, <2>3, <3>2 DEF WellCopied, Moved, Unrecorded, ModifySteps, DeleteSteps
  <2>4. ASSUME UNCHANGED tagemon, NEW move \in ModifyMoves \cup DeleteMoves,
               job.at = move[1], Moved(move[2], job.tagemon)
        PROVE  WellCopied(job'.at, job'.name, job'.tagemon, Recorded(job.name)')
    <3>1. Recorded(job.name)' <=> Recorded(job.name)
      BY <2>4 DEF Moved, Recorded, Live
    <3>2. CASE move \in ModifyMoves
      BY <2>0, <2>4, <3>2
         DEF WellCopied, ModifyMoves, Moved, Unrecorded, CreateSteps, ModifySteps, DeleteSteps
    <3>3. CASE move \in DeleteMoves
      <4>1. job.at \in DeleteSteps /\ move[2] \in DeleteSteps
        BY <2>4, <3>3 DEF DeleteMoves, DeleteSteps
      <4>2. /\ WellRecorded(job.name, job.tagemon)
            /\ job.tagemon.deleting /\ ~Recorded(job.name)
        BY <1>0, <2>0, <4>1 DEF CopyInv, WellCopied
      <4> QED
        BY <2>4, <3>1, <4>1, <4>2 DEF WellCopied, Moved, Unrecorded, CreateSteps, ModifySteps, DeleteSteps
    <3> QED
      BY <2>4, <3>2, <3>3
  <2> QED
    BY <1>4, <2>1, <2>2, <2>3, <2>4 DEF HandlerMoves
<1>5. ASSUME NEW t \in Tagemons, UserWrites(t)
      PROVE  WellCopied(job'.at, job'.name, job'.tagemon, Recorded(job.name)')
  <2>1. PICK version \in Tagemon \cup {NoObject} :
          TagemonWritten(t, version) /\ UserVersion(Stored(tagemon[t]), version)
    BY <1>5 DEF UserWrites
  <2>2. /\ job # NoJob /\ job \in Job /\ job.name \in Tagemons
        /\ job'.at = job.at /\ job'.name = job.name /\ job'.tagemon = job.tagemon
    <3>1. job # NoJob
      BY <1>5 DEF UserWrites
    <3>2. job \in Job
      BY <1>0, <3>1 DEF TypeOK
    <3> QED
      BY <1>5, <3>1, <3>2 DEF UserWrites, Job
  <2>3. Recorded(job.name)' => Recorded(job.name)
    <3>1. CASE job.name = t
      <4>1. Stored(tagemon[t]) \in Tagemon \cup {NoObject}
        BY <1>0, RangeType
      <4>2. RecordedVersion(version) => RecordedVersion(Stored(tagemon[t]))
        BY <2>1, <4>1, UserVersionFacts
      <4> QED
        BY <2>1, <2>2, <3>1, <4>2 DEF TagemonWritten, RecordedVersion, Recorded, Live
    <3>2. CASE job.name # t
      BY <2>1, <2>2, <3>2 DEF TagemonWritten, Recorded, Live
    <3> QED
      BY <3>1, <3>2
  <2> QED
    BY <1>1, <2>2, <2>3
<1> QED
  BY <1>0, <1>2, <1>3, <1>4, <1>5, NextJob

(* What a copy that is current says of the stored versions.                *)
LEMMA CurrentCopyKept ==
  ASSUME TagemonInv, [Next]_vars
  PROVE  CurrentInv'
<1>0. TypeOK /\ CopyInv /\ CurrentInv /\ VersionsInv
  BY DEF TagemonInv, IndInv
<1> DEFINE
      Current(at, copy, versions) ==
        LET stored == Stored(versions)
        IN /\ stored # NoObject
           /\ at \in Unrecorded =>
                /\ stored.spec = copy.spec /\ stored.generation = copy.generation
                /\ stored.status.observed = 0 /\ ~stored.finalizer /\ ~stored.deleting
           /\ at \notin Unrecorded => stored = copy
           /\ at \in CreateSteps \cup ModifySteps =>
                \A version \in Range(versions) :
                  version # NoObject /\ ~version.deleting /\ version.spec = copy.spec
<1>1. SUFFICES ASSUME job' # NoJob, job'.current
               PROVE  Current(job'.at, job'.tagemon, tagemon'[job'.name])
  BY DEF CurrentInv
<1>2. ASSUME job # NoJob, job.current
      PROVE  Current(job.at, job.tagemon, tagemon[job.name])
  BY <1>0, <1>2 DEF CurrentInv
<1>3. CASE job' = job /\ TagemonsStay
  <2>1. /\ job # NoJob /\ job.current /\ job.name \in Tagemons
        /\ job'.at = job.at /\ job'.tagemon = job.tagemon /\ job'.name = job.name
    BY <1>0, <1>1, <1>3, WorkingCopyType
  <2>2. /\ Stored(tagemon'[job.name]) = Stored(tagemon[job.name])
        /\ Range(tagemon'[job.name]) \subseteq Range(tagemon[job.name])
    BY <1>3, <2>1 DEF TagemonsStay
  <2> QED
    BY <1>2, <2>1, <2>2
<1>4. ASSUME NEW t \in Tagemons, HandlerStarts(t), TagemonsStay
      PROVE  Current(job'.at, job'.tagemon, tagemon'[job'.name])
  <2> DEFINE object == Cached(tagemon[t])
  <2>1. /\ object \in Tagemon /\ object \in Range(tagemon[t])
        /\ WellRecorded(t, object)
        /\ object.finalizer => object.status.observed > 0
        /\ object # NoObject
    <3>1. object # NoObject
      BY <1>4, Zenon DEF HandlerStarts
    <3> QED
      BY <1>4, <3>1, StartFacts
  <2>2. job'.name = t /\ UpToDate(tagemon[t]) /\ UNCHANGED tagemon
    BY <1>1, <1>4 DEF HandlerStarts, cluster
  <2>3. tagemon[t] = <<object>> /\ Stored(tagemon[t]) = object /\ Range(tagemon[t]) = {object}
    <3>1. tagemon[t] \in Seq(Tagemon \cup {NoObject}) /\ Len(tagemon[t]) = 1
      BY <1>0, <2>2 DEF TypeOK, Versions, UpToDate
    <3> QED
      BY <3>1 DEF Cached, Stored, Range
  <2> HIDE DEF object
  <2>4. ASSUME NEW id \in Ids, job'.tagemon = [object EXCEPT !.status.id = id],
               job'.at = "createConfigMap", ~object.deleting, ~object.finalizer,
               object.status.observed = 0
        PROVE  Current(job'.at, job'.tagemon, tagemon'[job'.name])
    <3>1. job'.tagemon.spec = object.spec /\ job'.tagemon.generation = object.generation
      BY <2>1, <2>4 DEF Tagemon
    <3> QED
      BY <2>1, <2>2, <2>3, <2>4, <3>1 DEF Unrecorded
  <2>5. CASE job'.at = "updateConfigMap" /\ job'.tagemon = object /\ ~object.deleting
    BY <2>1, <2>2, <2>3, <2>5 DEF Unrecorded
  <2>6. CASE job'.at = "deleteConfigMap" /\ job'.tagemon = object
    BY <2>1, <2>2, <2>3, <2>6 DEF Unrecorded, CreateSteps, ModifySteps
  <2> QED
    BY <1>4, <2>4, <2>5, <2>6 DEF HandlerStarts, object
<1>5. CASE HandlerMoves
  <2>0. /\ job # NoJob /\ job.tagemon \in Tagemon /\ job.name \in Tagemons
        /\ job'.name = job.name /\ job.current
    BY <1>0, <1>1, <1>5, WorkingCopyType DEF HandlerMoves, Moved
  <2> DEFINE old == tagemon[job.name]
  <2>1. Current(job.at, job.tagemon, old)
    BY <1>2, <2>0
  <2>2. ASSUME UNCHANGED tagemon, job.at \in Unrecorded, job'.at \in Unrecorded,
               job'.tagemon.spec = job.tagemon.spec,
               job'.tagemon.generation = job.tagemon.generation
        PROVE  Current(job'.at, job'.tagemon, tagemon'[job'.name])
    BY <2>0, <2>1, <2>2 DEF Unrecorded, CreateSteps
  <2>3. CASE /\ job.at = "createConfigMap" /\ UNCHANGED tagemon
             /\ Moved("createDeployment", WithConfigMapName(job.tagemon, ResourceName))
    <3>1. /\ job'.tagemon.spec = job.tagemon.spec
          /\ job'.tagemon.generation = job.tagemon.generation
      BY <2>0, <2>3 DEF Moved, WithConfigMapName, Tagemon
    <3> QED
      BY <2>2, <2>3, <3>1 DEF Moved, Unrecorded
  <2>4. CASE /\ job.at = "createDeployment" /\ UNCHANGED tagemon
             /\ Moved("createStatus", [job.tagemon EXCEPT !.status.deployment = ResourceName])
    <3>1. /\ job'.tagemon.spec = job.tagemon.spec
          /\ job'.tagemon.generation = job.tagemon.generation
      BY <2>0, <2>4 DEF Moved, Tagemon
    <3> QED
      BY <2>2, <2>4, <3>1 DEF Moved, Unrecorded
  <2>5. CASE /\ job.at = "createStatus"
             /\ Moved("addFinalizer", Observed(job.tagemon))
             /\ job.current => TagemonWritten(job.name, Observed(job.tagemon))
    <3> DEFINE copy == Observed(job.tagemon)
    <3>1. copy \in Tagemon /\ copy # NoObject
      BY <1>0, <2>0, WorkingCopyType, ObjectsAssumption
    <3>2. HandlerVersion(copy)
      BY <2>5 DEF HandlerVersion
    <3>3. copy.spec = job.tagemon.spec /\ ~copy.deleting
      BY <2>0, <3>1, <3>2, HandlerVersionFacts
    <3>4. /\ Stored(tagemon'[job.name]) = copy
          /\ Range(tagemon'[job.name]) \subseteq Range(old) \cup {copy}
      BY <2>0, <2>5 DEF TagemonWritten
    <3>5. job'.at = "addFinalizer" /\ job'.tagemon = copy
      BY <2>5 DEF Moved
    <3> HIDE DEF copy
    <3> QED
      BY <2>0, <2>1, <2>5, <3>1, <3>3, <3>4, <3>5 DEF Unrecorded, CreateSteps
  <2>6. ASSUME UNCHANGED tagemon, NEW move \in ModifyMoves \cup DeleteMoves,
               job.at = move[1], Moved(move[2], job.tagemon)
        PROVE  Current(job'.at, job'.tagemon, tagemon'[job'.name])
    <3>1. /\ job.at \notin Unrecorded /\ job'.at \notin Unrecorded
          /\ job'.at \in CreateSteps \cup ModifySteps => job.at \in ModifySteps
      BY <2>6 DEF Moved, ModifyMoves, DeleteMoves, Unrecorded, CreateSteps, ModifySteps
    <3> QED
      BY <2>0, <2>1, <2>6, <3>1 DEF Moved
  <2> QED
    BY <1>1, <1>5, <2>3, <2>4, <2>5, <2>6 DEF HandlerMoves
<1>6. ASSUME NEW t \in Tagemons, UserWrites(t)
      PROVE  Current(job'.at, job'.tagemon, tagemon'[job'.name])
  <2>1. job # NoJob /\ job \in Job /\ job.name \in Tagemons
    <3>1. job # NoJob
      BY <1>1, <1>6 DEF UserWrites
    <3> QED
      BY <1>0, <3>1, WorkingCopyType DEF TypeOK
  <2>2. t # job.name /\ job' = job
    BY <1>1, <1>6, <2>1 DEF UserWrites, Job
  <2>3. tagemon'[job.name] = tagemon[job.name]
    BY <1>6, <2>1, <2>2 DEF UserWrites, TagemonWritten
  <2> QED
    BY <1>1, <1>2, <2>1, <2>2, <2>3
<1> QED
  BY <1>0, <1>1, <1>3, <1>4, <1>5, <1>6, NextJob

(* What the versions in sight and the working copy tell of each other, in  *)
(* all behaviours: every version is well recorded, a recorded Tagemon is   *)
(* never about to be seen deleted, and a copy that the API server would    *)
(* accept is the stored version.                                           *)
THEOREM TagemonInvariance == Spec => []TagemonInv
<1>1. Init => TagemonInv
  <2>1. Init => IndInv
    BY InitInv
  <2>2. Init => VersionsInv /\ NoRevivalInv /\ CopyInv /\ CurrentInv
    BY DEF Init, VersionsInv, NoRevivalInv, CopyInv, CurrentInv, Recorded, Live,
           Stored, Range
  <2> QED
    BY <2>1, <2>2 DEF TagemonInv
<1>2. TagemonInv /\ [Next]_vars => TagemonInv'
  <2> SUFFICES ASSUME TagemonInv, [Next]_vars
               PROVE  TagemonInv'
    OBVIOUS
  <2>1. IndInv'
    BY NextInv DEF TagemonInv
  <2> QED
    BY <2>1, VersionsKept, NoRevivalKept, WellCopiedKept, CurrentCopyKept DEF TagemonInv
<1> QED
  BY <1>1, <1>2, PTL DEF Spec

-----------------------------------------------------------------------------
(* What holds of a process also where another one writes                   *)

(* A working copy that is current was taken from the stored version: an    *)
(* unrecorded one for a creation that has not reported yet, else one of    *)
(* the same status.                                                        *)
CopyFollows ==
  job # NoJob /\ job.current =>
    LET stored == Stored(tagemon[job.name])
    IN /\ stored # NoObject
       /\ job.at \in Unrecorded => stored.status.observed = 0
       /\ job.at \notin Unrecorded => stored.status = job.tagemon.status

(* The process's own steps, and those of users, keep it so.                *)
LEMMA CopyFollowsKept ==
  ASSUME TypeOK, CopyFollows, [Next]_vars
  PROVE  CopyFollows'
<1> SUFFICES ASSUME job' # NoJob, job'.current
             PROVE  LET stored == Stored(tagemon'[job'.name])
                    IN /\ stored # NoObject
                       /\ job'.at \in Unrecorded => stored.status.observed = 0
                       /\ job'.at \notin Unrecorded =>
                            stored.status = job'.tagemon.status
  BY DEF CopyFollows
<1>0. job # NoJob => job \in Job /\ job.name \in Tagemons /\ job.tagemon \in Tagemon
  BY WorkingCopyType
<1>1. CASE job' = job /\ TagemonsStay
  BY <1>0, <1>1 DEF CopyFollows, TagemonsStay
<1>2. ASSUME NEW t \in Tagemons, HandlerStarts(t)
      PROVE  LET stored == Stored(tagemon'[job'.name])
             IN /\ stored # NoObject
                /\ job'.at \in Unrecorded => stored.status.observed = 0
                /\ job'.at \notin Unrecorded => stored.status = job'.tagemon.status
  <2>1. /\ job'.name = t /\ UpToDate(tagemon[t]) /\ tagemon' = tagemon
        /\ tagemon[t] \in Versions(Tagemon)
    BY <1>2, Zenon DEF HandlerStarts, cluster, TypeOK
  <2>2. Stored(tagemon[t]) = Cached(tagemon[t])
    BY <2>1, VersionsStored
  <2>3. /\ Cached(tagemon[t]) # NoObject
        /\ \/ job'.at = "createConfigMap" /\ Cached(tagemon[t]).status.observed = 0
           \/ /\ job'.at \in {"updateConfigMap", "deleteConfigMap"}
              /\ job'.tagemon = Cached(tagemon[t])
    BY <1>2 DEF HandlerStarts
  <2> QED
    BY <2>1, <2>2, <2>3 DEF Unrecorded
<1>3. CASE HandlerMoves
  <2>1. job # NoJob /\ job'.name = job.name /\ job.current
    BY <1>3 DEF HandlerMoves, Moved
  <2>2. CASE job.at = "createStatus"
    <3>1. /\ job'.at = "addFinalizer" /\ job'.tagemon = Observed(job.tagemon)
          /\ TagemonWritten(job.name, Observed(job.tagemon))
      BY <1>3, <2>1, <2>2 DEF HandlerMoves, Moved, ModifyMoves, DeleteMoves
    <3>2. Observed(job.tagemon) # NoObject
      BY <2>1, WorkingCopyType, ObjectsAssumption
    <3> QED
      BY <2>1, <3>1, <3>2 DEF TagemonWritten, Unrecorded
  <2>3. CASE job.at # "createStatus"
    <3>1. /\ UNCHANGED tagemon
          /\ \/ job.at \in Unrecorded /\ job'.at \in Unrecorded
             \/ /\ job.at \notin Unrecorded /\ job'.at \notin Unrecorded
                /\ job'.tagemon = job.tagemon
      <4>1. CASE job.at \in {"createConfigMap", "createDeployment"}
        <5>1. ~ \E move \in ModifyMoves \cup DeleteMoves : job.at = move[1]
          BY <4>1 DEF ModifyMoves, DeleteMoves
        <5>2. UNCHANGED tagemon /\ job'.at \in {"createDeployment", "createStatus"}
          BY <1>3, <4>1, <5>1 DEF HandlerMoves, Moved
        <5> QED
          BY <4>1, <5>2 DEF Unrecorded
      <4>2. CASE job.at \notin {"createConfigMap", "createDeployment"}
        <5>1. /\ UNCHANGED tagemon
              /\ \E move \in ModifyMoves \cup DeleteMoves :
                   job.at = move[1] /\ Moved(move[2], job.tagemon)
          BY <1>3, <2>3, <4>2 DEF HandlerMoves
        <5> QED
          BY <5>1 DEF Moved, ModifyMoves, DeleteMoves, Unrecorded
      <4> QED
        BY <4>1, <4>2
    <3> QED
      BY <2>1, <3>1 DEF CopyFollows
  <2> QED
    BY <2>2, <2>3
<1>4. ASSUME NEW t \in Tagemons, UserWrites(t)
      PROVE  job' = job /\ job.name # t /\ tagemon'[job.name] = tagemon[job.name]
  <2>1. job # NoJob
    BY <1>4 DEF UserWrites
  <2>2. job.name # t /\ job' = job
    BY <1>0, <1>4, <2>1 DEF UserWrites, Job
  <2> QED
    BY <1>0, <1>4, <2>1, <2>2 DEF UserWrites, TagemonWritten
<1> QED
  BY <1>1, <1>2, <1>3, <1>4, NextJob DEF CopyFollows

(* What a status records of one creation.                                  *)
RecordKept(before, after) ==
  RecordedVersion(before) /\ RecordedVersion(after) =>
    /\ after.status.id = before.status.id
    /\ after.status.configMap = before.status.configMap
    /\ after.status.deployment = before.status.deployment

(* No step of the process, or of users, replaces what is recorded.         *)
LEMMA RecordStays ==
  ASSUME TypeOK, CopyFollows, [Next]_vars, NEW t \in Tagemons
  PROVE  RecordKept(Stored(tagemon[t]), Stored(tagemon'[t]))
<1> DEFINE before == Stored(tagemon[t])
           after == Stored(tagemon'[t])
<1> SUFFICES ASSUME RecordedVersion(before), RecordedVersion(after)
             PROVE  /\ after.status.id = before.status.id
                    /\ after.status.configMap = before.status.configMap
                    /\ after.status.deployment = before.status.deployment
  BY DEF RecordKept
<1>0. before \in Tagemon \cup {NoObject} /\ before # NoObject /\ after # NoObject
  BY RangeType DEF RecordedVersion
<1>1. CASE TagemonsStay
  BY <1>1 DEF TagemonsStay
<1>2. CASE HandlerWrites
  <2>1. PICK version : TagemonWritten(job.name, version) /\ HandlerVersion(version)
    BY <1>2 DEF HandlerWrites
  <2>2. CASE job.name # t
    BY <2>1, <2>2 DEF TagemonWritten
  <2>3. CASE job.name = t
    <3>1. after = version /\ job # NoJob /\ job.current /\ job.tagemon \in Tagemon
      BY <1>2, <2>1, <2>3, WorkingCopyType DEF TagemonWritten, HandlerWrites
    <3>2. job.at \notin Unrecorded => before.status = job.tagemon.status
      BY <2>3, <3>1 DEF CopyFollows
    <3>3. job.at \in Unrecorded => before.status.observed = 0
      BY <2>3, <3>1 DEF CopyFollows
    <3>4. job.at \notin Unrecorded
      BY <3>3 DEF RecordedVersion
    <3>5. \/ version = Observed(job.tagemon)
          \/ version = [job.tagemon EXCEPT !.finalizer = TRUE]
      BY <1>0, <2>1, <3>1 DEF HandlerVersion
    <3>6. /\ version.status.id = job.tagemon.status.id
          /\ version.status.configMap = job.tagemon.status.configMap
          /\ version.status.deployment = job.tagemon.status.deployment
      BY <3>1, <3>5 DEF Observed, Tagemon, Status
    <3> QED
      BY <3>1, <3>2, <3>4, <3>6
  <2> QED
    BY <2>2, <2>3
<1>3. ASSUME NEW s \in Tagemons, UserWrites(s)
      PROVE  after.status = before.status
  <2>1. PICK version : TagemonWritten(s, version) /\ UserVersion(Stored(tagemon[s]), version)
    BY <1>3 DEF UserWrites
  <2>2. CASE s # t
    BY <2>1, <2>2 DEF TagemonWritten
  <2>3. CASE s = t
    <3>1. version = after /\ UserVersion(before, version)
      BY <2>1, <2>3 DEF TagemonWritten
    <3> HIDE DEF before, after
    <3> QED
      BY <1>0, <3>1, UserVersionFacts
  <2> QED
    BY <2>2, <2>3
<1> QED
  BY <1>1, <1>2, <1>3, NextWrites
===============================================================================
