-------------------------- MODULE YaceLifecycleProofs --------------------------
(***************************************************************************)
(* YaceHandler implements TagemonLifecycle, with any number of Tagemons,   *)
(* edits, conflicts, failures and crashes and caches that lag, as long as  *)
(* no handler is misled by an old read of a ConfigMap or Deployment,       *)
(* Tagemons have names of their own and nobody deletes a ConfigMap or a    *)
(* Deployment by hand.                                                     *)
(***************************************************************************)
EXTENDS YaceLifecycle, YacePromisesProofs

-----------------------------------------------------------------------------
(* The order of the versions of a Tagemon                                  *)

IsLeaving(object) == object # NoObject /\ object.deleting

(* After a version that is being deleted there are only such.              *)
Ordered(versions) ==
  \A i, j \in DOMAIN versions :
    i <= j /\ IsLeaving(versions[i]) => IsLeaving(versions[j])

AllLeaving(versions) == \A version \in Range(versions) : IsLeaving(version)

(* A cache that holds a deleted version has nothing else to learn.         *)
LEMMA OrderedFromFirst ==
  ASSUME NEW Object, NEW versions \in Versions(Object),
         Ordered(versions), IsLeaving(Cached(versions))
  PROVE  AllLeaving(versions)
<1>1. versions \in Seq(Object \cup {NoObject}) /\ versions # << >>
  BY DEF Versions
<1>2. /\ Len(versions) \in Nat \ {0}
      /\ DOMAIN versions = 1..Len(versions)
      /\ Cached(versions) = versions[1]
  BY <1>1, EmptySeq DEF Cached
<1>3. ASSUME NEW j \in DOMAIN versions
      PROVE  IsLeaving(versions[j])
  BY <1>2 DEF Ordered
<1> QED
  BY <1>3 DEF AllLeaving, Range

(* What a cache learns leaves the order as it is.                          *)
LEMMA OrderedLearnt ==
  ASSUME NEW Object, NEW versions \in Versions(Object), Ordered(versions)
  PROVE  /\ Ordered(Relisted(versions))
         /\ ~UpToDate(versions) => Ordered(Delivered(versions))
<1>1. versions \in Seq(Object \cup {NoObject}) /\ versions # << >>
  BY DEF Versions
<1>2. Ordered(Relisted(versions))
  BY DEF Relisted, Ordered
<1>3. Ordered(Delivered(versions))
  <2>1. /\ Len(versions) \in Nat \ {0}
        /\ DOMAIN versions = 1..Len(versions)
        /\ Len(Tail(versions)) = Len(versions) - 1
        /\ DOMAIN Tail(versions) = 1..(Len(versions) - 1)
        /\ \A i \in 1..(Len(versions) - 1) : Tail(versions)[i] = versions[i + 1]
    BY <1>1, EmptySeq
  <2>2. ASSUME NEW i \in DOMAIN Tail(versions), NEW j \in DOMAIN Tail(versions),
               i <= j, IsLeaving(Tail(versions)[i])
        PROVE  IsLeaving(Tail(versions)[j])
    <3>1. i + 1 \in DOMAIN versions /\ j + 1 \in DOMAIN versions /\ i + 1 <= j + 1
      BY <2>1, <2>2
    <3>2. IsLeaving(versions[i + 1])
      BY <2>1, <2>2
    <3>3. IsLeaving(versions[j + 1])
      BY <3>1, <3>2 DEF Ordered
    <3> QED
      BY <2>1, <3>3
  <2> QED
    BY <2>2 DEF Ordered, Delivered
<1> QED
  BY <1>2, <1>3

(* Nor does the writing of a version that is being deleted, after others   *)
(* that are or none that is.                                               *)
LEMMA OrderedWritten ==
  ASSUME NEW Object, NEW versions \in Versions(Object), NEW version,
         IsLeaving(version),
         Ordered(versions) \/ \A other \in Range(versions) : ~IsLeaving(other)
  PROVE  Ordered(Written(versions, version))
<1>1. versions \in Seq(Object \cup {NoObject})
  BY DEF Versions
<1> DEFINE longer == Append(versions, version)
<1>2. /\ Len(versions) \in Nat
      /\ DOMAIN versions = 1..Len(versions)
      /\ DOMAIN longer = 1..(Len(versions) + 1)
      /\ \A i \in 1..Len(versions) : longer[i] = versions[i]
      /\ longer[Len(versions) + 1] = version
  BY <1>1
<1> HIDE DEF longer
<1>3. ASSUME NEW i \in DOMAIN longer, NEW j \in DOMAIN longer,
             i <= j, IsLeaving(longer[i])
      PROVE  IsLeaving(longer[j])
  <2>1. CASE j = Len(versions) + 1
    BY <1>2, <2>1
  <2>2. CASE j # Len(versions) + 1
    <3>1. i \in DOMAIN versions /\ j \in DOMAIN versions
      BY <1>2, <1>3, <2>2
    <3>2. IsLeaving(versions[i]) /\ versions[i] \in Range(versions)
      BY <1>2, <1>3, <3>1 DEF Range
    <3>3. Ordered(versions)
      BY <3>2
    <3>4. IsLeaving(versions[j])
      BY <1>3, <3>1, <3>2, <3>3 DEF Ordered
    <3> QED
      BY <1>2, <3>1, <3>4
  <2> QED
    BY <2>1, <2>2
<1>4. Ordered(longer)
  BY <1>3 DEF Ordered
<1> QED
  BY <1>4 DEF Written, longer

-----------------------------------------------------------------------------
(* A Tagemon that is being deleted                                         *)

OrderInv == \A t \in Tagemons : Deleting(t) => Ordered(tagemon[t])

(* It has the finalizer; once handleDelete is at work or has removed       *)
(* something, every version in sight is being deleted, so that no handler  *)
(* but handleDelete will run for it.                                       *)
LeavingInv ==
  \A t \in Tagemons : Deleting(t) =>
    LET object == Stored(tagemon[t])
    IN /\ object.finalizer
       /\ job # NoJob /\ job.name = t /\ job.at \in DeleteSteps => AllLeaving(tagemon[t])
       /\ \/ Gone(configMap, object.status.configMap)
          \/ Gone(deployment, object.status.deployment)
          => /\ AllLeaving(tagemon[t])
             /\ job # NoJob /\ job.name = t => job.at \in DeleteSteps

(* What addFinalizer writes is what createStatus reported.                 *)
ReportedInv ==
  job # NoJob /\ job.at = "addFinalizer" =>
    job.tagemon.status.observed = job.tagemon.generation

LifecycleInv ==
  /\ PromisesInv /\ RemovedInv
  /\ OrderInv /\ LeavingInv /\ ReportedInv

(* Where a Tagemon that is being deleted comes from: it was before, or a   *)
(* user has just deleted a recorded one; its status is the same.           *)
LEMMA DeletingBefore ==
  ASSUME TagemonInv, LeavingInv, [Next]_vars, NEW t \in Tagemons,
         IsLeaving(Stored(tagemon'[t]))
  PROVE  LET old == Stored(tagemon[t])
             new == Stored(tagemon'[t])
         IN /\ old # NoObject /\ new.status = old.status /\ new.finalizer
            /\ \/ IsLeaving(old) /\ Range(tagemon'[t]) \subseteq Range(tagemon[t]) \cup {new}
               \/ Recorded(t) /\ UserWrites(t)
<1> DEFINE old == Stored(tagemon[t])
           new == Stored(tagemon'[t])
<1>0. TypeOK /\ RecordedBeforeFinalizer /\ old \in Range(tagemon[t])
  BY RangeType DEF TagemonInv, IndInv
<1>1. ASSUME IsLeaving(old)
      PROVE  old.finalizer
  BY <1>1 DEF LeavingInv, Deleting, IsLeaving
<1>2. CASE TagemonsStay
  BY <1>1, <1>2 DEF TagemonsStay, IsLeaving
<1>3. CASE HandlerWrites
  <2>1. PICK version : TagemonWritten(job.name, version) /\ HandlerVersion(version)
    BY <1>3 DEF HandlerWrites
  <2>2. CASE t = job.name
    <3>1. new = version /\ job # NoJob
      BY <1>3, <2>1, <2>2 DEF TagemonWritten, HandlerWrites
    <3>2. ~IsLeaving(version)
      BY <2>1, <3>1, HandlerVersionFacts DEF IsLeaving
    <3> QED
      BY <3>1, <3>2
  <2>3. CASE t # job.name
    BY <1>0, <1>1, <2>1, <2>3 DEF TagemonWritten, IsLeaving
  <2> QED
    BY <2>2, <2>3
<1>4. ASSUME NEW s \in Tagemons, UserWrites(s)
      PROVE  /\ old # NoObject /\ new.status = old.status /\ new.finalizer
             /\ \/ IsLeaving(old) /\ Range(tagemon'[t]) \subseteq Range(tagemon[t]) \cup {new}
                \/ Recorded(t) /\ UserWrites(t)
  <2>1. PICK version \in Tagemon \cup {NoObject} :
          TagemonWritten(s, version) /\ UserVersion(Stored(tagemon[s]), version)
    BY <1>4 DEF UserWrites
  <2>2. CASE t # s
    BY <1>0, <1>1, <2>1, <2>2 DEF TagemonWritten, IsLeaving
  <2>3. CASE t = s
    <3>1. /\ new = version /\ Range(tagemon'[t]) \subseteq Range(tagemon[t]) \cup {new}
          /\ old \in Tagemon \cup {NoObject} /\ UserVersion(old, new)
          /\ new # NoObject /\ new.deleting
      BY <1>0, <2>1, <2>3, RangeType DEF TagemonWritten, IsLeaving
    <3>2. old # NoObject
      <4> SUFFICES ASSUME old = NoObject
                   PROVE  FALSE
        OBVIOUS
      <4>1. PICK spec \in Specs : new = NewTagemon(spec)
        BY <3>1 DEF UserVersion
      <4> QED
        BY <3>1, <4>1 DEF NewTagemon
    <3>3. /\ new.status = old.status /\ new.finalizer = old.finalizer
          /\ IsLeaving(old) \/ (old.finalizer /\ ~old.deleting)
      <4>1. old \in Tagemon
        BY <3>1, <3>2
      <4>2. ASSUME NEW spec, new = [old EXCEPT !.spec = spec, !.generation = @ + 1]
            PROVE  /\ new.status = old.status /\ new.finalizer = old.finalizer
                   /\ new.deleting = old.deleting
        BY <4>1, <4>2 DEF Tagemon
      <4>3. ASSUME new = [old EXCEPT !.deleting = TRUE]
            PROVE  new.status = old.status /\ new.finalizer = old.finalizer
        BY <4>1, <4>3 DEF Tagemon
      <4>4. \/ \E spec : new = [old EXCEPT !.spec = spec, !.generation = @ + 1]
            \/ new = old
            \/ ~old.deleting /\ old.finalizer /\ new = [old EXCEPT !.deleting = TRUE]
        BY <3>1, <3>2, Zenon DEF UserVersion
      <4>5. CASE \E spec : new = [old EXCEPT !.spec = spec, !.generation = @ + 1]
        <5>1. /\ new.status = old.status /\ new.finalizer = old.finalizer
              /\ new.deleting = old.deleting
          BY <4>2, <4>5, Zenon
        <5> HIDE DEF old, new
        <5> QED
          BY <3>1, <3>2, <5>1 DEF IsLeaving
      <4>6. CASE new = old
        BY <3>1, <4>6 DEF IsLeaving
      <4> QED
        BY <4>3, <4>4, <4>5, <4>6, Zenon
    <3>4. ASSUME ~IsLeaving(old)
          PROVE  Recorded(t)
      BY <1>0, <3>2, <3>3, <3>4
         DEF RecordedBeforeFinalizer, RecordsResources, Recorded, Live, IsLeaving
    <3> QED
      BY <1>1, <1>4, <2>3, <3>1, <3>2, <3>3, <3>4
  <2> QED
    BY <2>2, <2>3
<1> QED
  BY <1>0, <1>2, <1>3, <1>4, NextWrites

(* Every step keeps the versions of a deleted Tagemon in order.            *)
LEMMA OrderKept ==
  ASSUME TagemonInv, OrderInv, LeavingInv, [Next]_vars
  PROVE  OrderInv'
<1>0. TypeOK /\ NoRevivalInv
  BY DEF TagemonInv, IndInv
<1> SUFFICES ASSUME NEW t \in Tagemons, IsLeaving(Stored(tagemon'[t]))
             PROVE  Ordered(tagemon'[t])
  BY DEF OrderInv, Deleting, IsLeaving
<1>1. tagemon[t] \in Versions(Tagemon) /\ TagemonMoves(t)
  BY <1>0, NextMoves DEF TypeOK
<1>2. CASE IsLeaving(Stored(tagemon[t]))
  <2>1. Ordered(tagemon[t])
    BY <1>2 DEF OrderInv, Deleting, IsLeaving
  <2> QED
    BY <1>1, <2>1, OrderedLearnt, OrderedWritten DEF TagemonMoves
<1>3. CASE Recorded(t) /\ ~IsLeaving(Stored(tagemon[t]))
  <2>1. \A version \in Range(tagemon[t]) : ~IsLeaving(version)
    BY <1>0, <1>3 DEF NoRevivalInv, IsLeaving
  <2>2. tagemon'[t] = Written(tagemon[t], Stored(tagemon'[t]))
    BY <1>1, <1>3, VersionsStored DEF TagemonMoves
  <2> QED
    BY <1>1, <2>1, <2>2, OrderedWritten
<1> QED
  BY <1>2, <1>3, DeletingBefore

(* createStatus hands addFinalizer a copy that observes its generation.    *)
LEMMA ReportedKept ==
  ASSUME TypeOK, ReportedInv, [Next]_vars
  PROVE  ReportedInv'
<1> SUFFICES ASSUME job' # NoJob, job'.at = "addFinalizer"
             PROVE  job'.tagemon.status.observed = job'.tagemon.generation
  BY DEF ReportedInv
<1>1. CASE job' = job
  BY <1>1 DEF ReportedInv
<1>2. ASSUME NEW t \in Tagemons, HandlerStarts(t)
      PROVE  FALSE
  BY <1>2, Zenon DEF HandlerStarts
<1>3. CASE HandlerMoves
  <2>1. Moved("addFinalizer", Observed(job.tagemon))
    BY <1>3 DEF HandlerMoves, Moved, ModifyMoves, DeleteMoves
  <2>2. job.tagemon \in Tagemon
    BY <1>3, WorkingCopyType DEF HandlerMoves
  <2> QED
    BY <2>1, <2>2 DEF Moved, Observed, Tagemon, Status
<1>4. ASSUME NEW t \in Tagemons, UserWrites(t)
      PROVE  job'.tagemon.status.observed = job'.tagemon.generation
  <2>1. job # NoJob /\ job \in Job
    BY <1>4, WorkingCopyType DEF UserWrites
  <2>2. job'.at = job.at /\ job'.tagemon = job.tagemon
    BY <1>4, <2>1 DEF UserWrites, Job
  <2> QED
    BY <2>1, <2>2 DEF ReportedInv
<1> QED
  BY <1>1, <1>2, <1>3, <1>4, NextJob

(* The names in the status of an observed Tagemon are its own, and so are  *)
(* those in the working copy of a handler.                                 *)
LEMMA ObservedFacts ==
  ASSUME TagemonInv, NEW t \in Tagemons,
         Stored(tagemon[t]) # NoObject, Stored(tagemon[t]).status.observed > 0
  PROVE  LET object == Stored(tagemon[t])
         IN /\ object \in Tagemon
            /\ object.status.configMap \in NamesOf(t) \cap Names
            /\ object.status.deployment \in NamesOf(t) \cap Names
<1>1. TypeOK /\ VersionsInv
  BY DEF TagemonInv, IndInv
<1>2. Stored(tagemon[t]) \in Range(tagemon[t]) \ {NoObject} /\ Stored(tagemon[t]) \in Tagemon
  BY <1>1, RangeType
<1>3. WellRecorded(t, Stored(tagemon[t]))
  BY <1>1, <1>2 DEF VersionsInv
<1> QED
  BY <1>2, <1>3, NamesAssumption DEF WellRecorded, RecordsResources

(* An observed Tagemon is recorded or being deleted.                       *)
LEMMA DeletingObserved ==
  ASSUME TagemonInv, LeavingInv, NEW t \in Tagemons, IsLeaving(Stored(tagemon[t]))
  PROVE  Stored(tagemon[t]).status.observed > 0
<1>1. TypeOK /\ RecordedBeforeFinalizer /\ Stored(tagemon[t]) \in Range(tagemon[t])
  BY RangeType DEF TagemonInv, IndInv
<1>2. Stored(tagemon[t]).finalizer
  BY DEF LeavingInv, Deleting, IsLeaving
<1> QED
  BY <1>1, <1>2 DEF RecordedBeforeFinalizer, RecordsResources, IsLeaving

(* A write to a resource by a handler that is not at work for a Tagemon    *)
(* leaves that Tagemon's resources alone.                                  *)
LEMMA OtherNames ==
  ASSUME NamesDiffer, TagemonInv, NEW t \in Tagemons, job # NoJob,
         Stored(tagemon[t]) # NoObject, Stored(tagemon[t]).status.observed > 0,
         job.name # t
  PROVE  LET status == Stored(tagemon[t]).status
         IN /\ status.configMap \notin {ResourceName, ItsConfigMap}
            /\ status.deployment \notin {ResourceName, ItsDeployment}
<1>1. TypeOK /\ CopyInv
  BY DEF TagemonInv, IndInv
<1>2. /\ job.name \in Tagemons /\ ResourceName \in NamesOf(job.name)
      /\ ItsConfigMap \in NamesOf(job.name) \cup {NoName}
      /\ ItsDeployment \in NamesOf(job.name) \cup {NoName}
  BY <1>1, WorkingCopyType, ResourceNameType
     DEF CopyInv, WellCopied, WellRecorded, ItsConfigMap, ItsDeployment
<1> QED
  BY <1>2, ObservedFacts, NamesAssumption DEF NamesDiffer

(* What a step may do to the ConfigMap and the Deployment of a Tagemon:    *)
(* its own handler adapts one of them or takes it away.                    *)
OwnStep(t) ==
  LET object == Stored(tagemon[t])
      config == ConfigIn(Stored(configMap[object.status.configMap]))
      newConfig == ConfigIn(Stored(configMap'[object.status.configMap]))
      resources == ResourcesIn(Stored(deployment[object.status.deployment]))
      newResources == ResourcesIn(Stored(deployment'[object.status.deployment]))
  IN /\ job # NoJob /\ job.name = t
     /\ \/ /\ job.at \in ModifySteps /\ newResources = resources
           /\ config # Nothing /\ newConfig = generateYACEConfig(job.tagemon.spec)
        \/ /\ job.at \in ModifySteps /\ newConfig = config
           /\ resources # Nothing /\ newResources = job.tagemon.spec.resources
        \/ job.at \in DeleteSteps /\ newResources = resources /\ newConfig = Nothing
        \/ job.at \in DeleteSteps /\ newConfig = config /\ newResources = Nothing

NoStep(t) ==
  LET object == Stored(tagemon[t])
  IN /\ ConfigIn(Stored(configMap'[object.status.configMap])) =
          ConfigIn(Stored(configMap[object.status.configMap]))
     /\ ResourcesIn(Stored(deployment'[object.status.deployment])) =
          ResourcesIn(Stored(deployment[object.status.deployment]))

(* The handlers of other Tagemons do not touch what it has.                *)
LEMMA OthersDoNothing ==
  ASSUME NamesDiffer, TagemonInv, NEW t \in Tagemons,
         Stored(tagemon[t]) # NoObject, Stored(tagemon[t]).status.observed > 0,
         job # NoJob, job.name # t, HandlerDoes
  PROVE  LET status == Stored(tagemon[t]).status
         IN /\ Stored(configMap'[status.configMap]) = Stored(configMap[status.configMap])
            /\ Stored(deployment'[status.deployment]) = Stored(deployment[status.deployment])
<1> DEFINE cm == Stored(tagemon[t]).status.configMap
           dep == Stored(tagemon[t]).status.deployment
<1>1. /\ cm \notin {ResourceName, ItsConfigMap} /\ cm \in Names
      /\ dep \notin {ResourceName, ItsDeployment} /\ dep \in Names
  BY OtherNames, ObservedFacts
<1>2. ASSUME NEW name, name # cm, NEW object, StoredBecomes(configMap', configMap, name, object)
      PROVE  Stored(configMap'[cm]) = Stored(configMap[cm])
  BY <1>1, <1>2 DEF StoredBecomes
<1>3. ASSUME NEW name, name # dep, NEW object, StoredBecomes(deployment', deployment, name, object)
      PROVE  Stored(deployment'[dep]) = Stored(deployment[dep])
  BY <1>1, <1>3 DEF StoredBecomes
<1>4. \/ Stored(configMap'[cm]) = Stored(configMap[cm]) /\ UNCHANGED deployment
      \/ Stored(deployment'[dep]) = Stored(deployment[dep]) /\ UNCHANGED configMap
  <2> HIDE DEF cm, dep
  <2>1. CASE UNCHANGED <<configMap, deployment>>
    BY <2>1
  <2>2. CASE ConfigMapCreated
    BY <1>1, <1>2, <2>2 DEF ConfigMapCreated
  <2>3. CASE DeploymentCreated
    BY <1>1, <1>3, <2>3 DEF DeploymentCreated
  <2>4. CASE ConfigMapUpdated
    BY <1>1, <1>2, <2>4 DEF ConfigMapUpdated
  <2>5. CASE DeploymentAnnotated
    BY <1>1, <1>3, <2>5 DEF DeploymentAnnotated
  <2>6. CASE DeploymentUpdated
    BY <1>1, <1>3, <2>6 DEF DeploymentUpdated
  <2>7. CASE ConfigMapDeleted
    BY <1>1, <1>2, <2>7 DEF ConfigMapDeleted
  <2>8. CASE DeploymentDeleted
    BY <1>1, <1>3, <2>8 DEF DeploymentDeleted
  <2> QED
    BY <2>1, <2>2, <2>3, <2>4, <2>5, <2>6, <2>7, <2>8 DEF HandlerDoes
<1> QED
  BY <1>4

(* What its own handler does.                                              *)
LEMMA OwnHandlerDoes ==
  ASSUME LifecycleInv, NEW t \in Tagemons,
         Stored(tagemon[t]) # NoObject, Stored(tagemon[t]).status.observed > 0,
         job # NoJob, job.name = t, HandlerDoes
  PROVE  NoStep(t) \/ OwnStep(t)
<1> DEFINE object == Stored(tagemon[t])
           cm == object.status.configMap
           dep == object.status.deployment
<1>0. /\ TypeOK /\ TagemonInv /\ OwnsWhatItRecords /\ LeavingInv
      /\ object \in Tagemon /\ cm \in Names /\ dep \in Names
      /\ cm # NoName /\ dep # NoName
  BY ObservedFacts, NamesAssumption DEF LifecycleInv, PromisesInv, ResourcesInv, TagemonInv, IndInv
<1>1. ASSUME NEW name, NEW written, StoredBecomes(configMap', configMap, name, written)
      PROVE  \/ Stored(configMap'[cm]) = Stored(configMap[cm])
             \/ name = cm /\ Stored(configMap'[cm]) = written
  BY <1>0, <1>1 DEF StoredBecomes
<1>2. ASSUME NEW name, NEW written, StoredBecomes(deployment', deployment, name, written)
      PROVE  \/ Stored(deployment'[dep]) = Stored(deployment[dep])
             \/ name = dep /\ Stored(deployment'[dep]) = written
  BY <1>0, <1>2 DEF StoredBecomes
<1>3. ASSUME job.at \in Unrecorded
      PROVE  Stored(configMap[cm]) # NoObject /\ Stored(deployment[dep]) # NoObject
  <2>1. CASE Recorded(t)
    BY <1>0, <2>1 DEF OwnsWhatItRecords
  <2>2. CASE ~Recorded(t)
    <3>1. Deleting(t)
      BY <2>2 DEF Recorded, Live, Deleting
    <3>2. ~Gone(configMap, cm) /\ ~Gone(deployment, dep)
      BY <1>0, <1>3, <3>1 DEF LeavingInv, Unrecorded, DeleteSteps
    <3> QED
      BY <3>2 DEF Gone
  <2> QED
    BY <2>1, <2>2
<1>4. ASSUME Stored(configMap'[cm]) = Stored(configMap[cm]),
             Stored(deployment'[dep]) = Stored(deployment[dep])
      PROVE  NoStep(t)
  BY <1>4 DEF NoStep
<1>5. generateYACEConfig(job.tagemon.spec) \in Config /\ job.tagemon.spec.resources \in Resources
  BY <1>0, WorkingCopyType, SpecsAssumption DEF Tagemon
<1>6. CASE ConfigMapCreated
  <2>1. Stored(configMap'[cm]) = Stored(configMap[cm]) /\ UNCHANGED deployment
    BY <1>1, <1>3, <1>6 DEF ConfigMapCreated, Unrecorded
  <2> QED
    BY <1>4, <2>1
<1>7. CASE DeploymentCreated
  <2>1. Stored(deployment'[dep]) = Stored(deployment[dep]) /\ UNCHANGED configMap
    BY <1>2, <1>3, <1>7 DEF DeploymentCreated, Unrecorded
  <2> QED
    BY <1>4, <2>1
<1>8. CASE ConfigMapUpdated
  <2>1. UNCHANGED deployment /\ job.at \in ModifySteps
    BY <1>8 DEF ConfigMapUpdated, ModifySteps
  <2>2. CASE Stored(configMap'[cm]) = Stored(configMap[cm])
    BY <1>4, <2>1, <2>2
  <2>3. CASE Stored(configMap'[cm]) # Stored(configMap[cm])
    <3>1. /\ Stored(configMap[cm]) \in ConfigMap
          /\ Stored(configMap'[cm]) =
               [Stored(configMap[cm]) EXCEPT !.config = generateYACEConfig(job.tagemon.spec)]
      <4>1. PICK stored : /\ stored = Stored(configMap[ItsConfigMap]) /\ stored \in ConfigMap
                          /\ StoredBecomes(configMap', configMap, ItsConfigMap,
                               [stored EXCEPT !.config = generateYACEConfig(job.tagemon.spec)])
        BY <1>8, <2>3 DEF ConfigMapUpdated
      <4> QED
        BY <1>1, <2>3, <4>1
    <3>2. Stored(configMap'[cm]) \in ConfigMap
      BY <1>5, <3>1 DEF ConfigMap
    <3>3. /\ Stored(configMap'[cm]).config = generateYACEConfig(job.tagemon.spec)
          /\ Stored(configMap[cm]).config \in Config
      BY <1>5, <3>1 DEF ConfigMap
    <3>4. /\ ConfigIn(Stored(configMap'[cm])) = generateYACEConfig(job.tagemon.spec)
          /\ ConfigIn(Stored(configMap[cm])) # Nothing
      BY <3>1, <3>2, <3>3, ObjectsAssumption, LifecycleAssumption DEF ConfigIn, IsNotFound
    <3> QED
      BY <2>1, <3>4 DEF OwnStep
  <2> QED
    BY <2>2, <2>3
<1>9. CASE DeploymentAnnotated
  <2>1. UNCHANGED configMap
    BY <1>9 DEF DeploymentAnnotated
  <2>2. CASE Stored(deployment'[dep]) = Stored(deployment[dep])
    BY <1>4, <2>1, <2>2
  <2>3. CASE Stored(deployment'[dep]) # Stored(deployment[dep])
    <3>1. PICK stamp \in Nat :
             /\ Stored(deployment[dep]) \in Deployment
             /\ Stored(deployment'[dep]) = [Stored(deployment[dep]) EXCEPT !.restarted = stamp]
      <4>1. PICK stamp \in Nat :
              /\ Stored(deployment[ItsDeployment]) \in Deployment
              /\ StoredBecomes(deployment', deployment, ItsDeployment,
                               [Stored(deployment[ItsDeployment]) EXCEPT !.restarted = stamp])
        BY <1>9, <2>3 DEF DeploymentAnnotated
      <4> QED
        BY <1>2, <2>3, <4>1
    <3>2. /\ Stored(deployment'[dep]) \in Deployment
          /\ Stored(deployment'[dep]).resources = Stored(deployment[dep]).resources
      BY <3>1 DEF Deployment
    <3>3. ResourcesIn(Stored(deployment'[dep])) = ResourcesIn(Stored(deployment[dep]))
      BY <3>1, <3>2, ObjectsAssumption DEF ResourcesIn, IsNotFound
    <3> QED
      BY <2>1, <3>3 DEF NoStep
  <2> QED
    BY <2>2, <2>3
<1>10. CASE DeploymentUpdated
  <2>1. UNCHANGED configMap /\ job.at \in ModifySteps
    BY <1>10 DEF DeploymentUpdated, ModifySteps
  <2>2. CASE Stored(deployment'[dep]) = Stored(deployment[dep])
    BY <1>4, <2>1, <2>2
  <2>3. CASE Stored(deployment'[dep]) # Stored(deployment[dep])
    <3>1. /\ Stored(deployment[dep]) \in Deployment
          /\ Stored(deployment'[dep]) =
               [Stored(deployment[dep]) EXCEPT !.resources = job.tagemon.spec.resources]
      <4>1. PICK stored : /\ stored = Stored(deployment[ItsDeployment]) /\ stored \in Deployment
                          /\ StoredBecomes(deployment', deployment, ItsDeployment,
                               [stored EXCEPT !.resources = job.tagemon.spec.resources])
        BY <1>10, <2>3 DEF DeploymentUpdated
      <4> QED
        BY <1>2, <2>3, <4>1
    <3>2. Stored(deployment'[dep]) \in Deployment
      BY <1>5, <3>1 DEF Deployment
    <3>3. /\ Stored(deployment'[dep]).resources = job.tagemon.spec.resources
          /\ Stored(deployment[dep]).resources \in Resources
      BY <1>5, <3>1 DEF Deployment
    <3>4. /\ ResourcesIn(Stored(deployment'[dep])) = job.tagemon.spec.resources
          /\ ResourcesIn(Stored(deployment[dep])) # Nothing
      BY <3>1, <3>2, <3>3, ObjectsAssumption, LifecycleAssumption DEF ResourcesIn, IsNotFound
    <3> QED
      BY <2>1, <3>4 DEF OwnStep
  <2> QED
    BY <2>2, <2>3
<1>11. CASE ConfigMapDeleted
  <2>1. UNCHANGED deployment /\ job.at \in DeleteSteps
    BY <1>11 DEF ConfigMapDeleted, DeleteSteps
  <2>2. CASE Stored(configMap'[cm]) = Stored(configMap[cm])
    BY <1>4, <2>1, <2>2
  <2>3. CASE Stored(configMap'[cm]) # Stored(configMap[cm])
    <3>1. Stored(configMap'[cm]) = NoObject
      BY <1>1, <1>11, <2>3 DEF ConfigMapDeleted
    <3>2. ConfigIn(Stored(configMap'[cm])) = Nothing
      BY <3>1 DEF ConfigIn, IsNotFound
    <3> QED
      BY <2>1, <3>2 DEF OwnStep
  <2> QED
    BY <2>2, <2>3
<1>12. CASE DeploymentDeleted
  <2>1. UNCHANGED configMap /\ job.at \in DeleteSteps
    BY <1>12 DEF DeploymentDeleted, DeleteSteps
  <2>2. CASE Stored(deployment'[dep]) = Stored(deployment[dep])
    BY <1>4, <2>1, <2>2
  <2>3. CASE Stored(deployment'[dep]) # Stored(deployment[dep])
    <3>1. Stored(deployment'[dep]) = NoObject
      BY <1>2, <1>12, <2>3 DEF DeploymentDeleted
    <3>2. ResourcesIn(Stored(deployment'[dep])) = Nothing
      BY <3>1 DEF ResourcesIn, IsNotFound
    <3> QED
      BY <2>1, <3>2 DEF OwnStep
  <2> QED
    BY <2>2, <2>3
<1>13. CASE UNCHANGED <<configMap, deployment>>
  BY <1>4, <1>13
<1> QED
  BY <1>6, <1>7, <1>8, <1>9, <1>10, <1>11, <1>12, <1>13 DEF HandlerDoes

(* With names of their own, no step but one of its handler changes what a  *)
(* Tagemon has.                                                            *)
LEMMA GivenSteps ==
  ASSUME NamesDiffer, NobodyRemoves, LifecycleInv, [Next]_vars, NEW t \in Tagemons,
         Stored(tagemon[t]) # NoObject, Stored(tagemon[t]).status.observed > 0
  PROVE  \/ NoStep(t)
         \/ OwnStep(t) /\ HandlerMoves /\ HandlerDoes /\ (TagemonsStay \/ HandlerWrites)
<1>0. /\ TypeOK /\ TagemonInv
      /\ Stored(tagemon[t]).status.configMap \in Names
      /\ Stored(tagemon[t]).status.deployment \in Names
  BY ObservedFacts DEF LifecycleInv, PromisesInv, ResourcesInv, TagemonInv, IndInv
<1>1. CASE ResourcesStay
  BY <1>0, <1>1 DEF ResourcesStay, NoStep
<1>2. ASSUME NEW s \in Tagemons, UserWrites(s)
      PROVE  NoStep(t)
  BY <1>2 DEF UserWrites, NoStep
<1>3. ~ResourceRemoved
  BY DEF NobodyRemoves, ResourceRemoved
<1>4. ASSUME HandlerMoves, HandlerDoes
      PROVE  NoStep(t) \/ OwnStep(t)
  <2>1. job # NoJob
    BY <1>4 DEF HandlerMoves
  <2>2. CASE job.name = t
    BY <1>4, <2>1, <2>2, OwnHandlerDoes
  <2>3. CASE job.name # t
    BY <1>0, <1>4, <2>1, <2>3, OthersDoNothing DEF NoStep
  <2> QED
    BY <2>2, <2>3
<1> QED
  BY <1>0, <1>1, <1>2, <1>3, <1>4, NextEffects

(* A configuration is there exactly where a ConfigMap is, and so it is     *)
(* with pod resources and Deployments.                                     *)
LEMMA NothingIsNoObject ==
  /\ \A object \in ConfigMap \cup {NoObject} :
       ConfigIn(object) = Nothing <=> object = NoObject
  /\ \A object \in Deployment \cup {NoObject} :
       ResourcesIn(object) = Nothing <=> object = NoObject
<1>1. ASSUME NEW object \in ConfigMap, object # NoObject
      PROVE  ConfigIn(object) # Nothing
  BY <1>1, LifecycleAssumption DEF ConfigIn, IsNotFound, ConfigMap
<1>2. ASSUME NEW object \in Deployment, object # NoObject
      PROVE  ResourcesIn(object) # Nothing
  BY <1>2, LifecycleAssumption DEF ResourcesIn, IsNotFound, Deployment
<1> QED
  BY <1>1, <1>2 DEF ConfigIn, ResourcesIn, IsNotFound

(* handleDelete goes on with handleDelete.                                 *)
LEMMA DeleteStaysDelete ==
  ASSUME HandlerMoves, job' # NoJob
  PROVE  /\ job'.name = job.name
         /\ job'.at \in DeleteSteps <=> job.at \in DeleteSteps
<1>1. CASE \E move \in ModifyMoves \cup DeleteMoves :
             job.at = move[1] /\ Moved(move[2], job.tagemon)
  <2>1. PICK move \in ModifyMoves \cup DeleteMoves :
          job.at = move[1] /\ Moved(move[2], job.tagemon)
    BY <1>1
  <2>2. CASE move \in ModifyMoves
    BY <2>1, <2>2 DEF ModifyMoves, Moved, DeleteSteps
  <2>3. CASE move \in DeleteMoves
    BY <2>1, <2>3 DEF DeleteMoves, Moved, DeleteSteps
  <2> QED
    BY <2>2, <2>3
<1>2. CASE ~\E move \in ModifyMoves \cup DeleteMoves :
             job.at = move[1] /\ Moved(move[2], job.tagemon)
  BY <1>2 DEF HandlerMoves, Moved, DeleteSteps
<1> QED
  BY <1>1, <1>2

(* A ConfigMap or a Deployment of a recorded Tagemon is not gone, and one  *)
(* of a Tagemon that is being deleted goes in a step of handleDelete.      *)
LEMMA GoneBy ==
  ASSUME NamesDiffer, NobodyRemoves, LifecycleInv, [Next]_vars, NEW t \in Tagemons,
         Stored(tagemon[t]) # NoObject, Stored(tagemon[t]).status.observed > 0
  PROVE  LET status == Stored(tagemon[t]).status
         IN \/ Gone(configMap', status.configMap) \/ Gone(deployment', status.deployment)
            => \/ Gone(configMap, status.configMap) \/ Gone(deployment, status.deployment)
               \/ /\ job # NoJob /\ job.name = t /\ job.at \in DeleteSteps
                  /\ HandlerMoves
<1> DEFINE cm == Stored(tagemon[t]).status.configMap
           dep == Stored(tagemon[t]).status.deployment
           config == Stored(configMap[cm])
           newConfig == Stored(configMap'[cm])
           pods == Stored(deployment[dep])
           newPods == Stored(deployment'[dep])
<1>0. /\ TypeOK /\ TypeOK' /\ TagemonInv /\ IndInv
      /\ cm \in Names /\ dep \in Names /\ cm # NoName /\ dep # NoName
  BY ObservedFacts, NextType, NamesAssumption
     DEF LifecycleInv, PromisesInv, ResourcesInv, TagemonInv, IndInv
<1>1. /\ config \in ConfigMap \cup {NoObject} /\ newConfig \in ConfigMap \cup {NoObject}
      /\ pods \in Deployment \cup {NoObject} /\ newPods \in Deployment \cup {NoObject}
  <2>1. /\ configMap[cm] \in Versions(ConfigMap) /\ configMap'[cm] \in Versions(ConfigMap)
        /\ deployment[dep] \in Versions(Deployment) /\ deployment'[dep] \in Versions(Deployment)
    BY <1>0 DEF TypeOK
  <2> QED
    BY <2>1, VersionsEnds
<1>2. /\ ConfigIn(config) = Nothing <=> Gone(configMap, cm)
      /\ ConfigIn(newConfig) = Nothing <=> Gone(configMap', cm)
      /\ ResourcesIn(pods) = Nothing <=> Gone(deployment, dep)
      /\ ResourcesIn(newPods) = Nothing <=> Gone(deployment', dep)
  BY <1>0, <1>1, NothingIsNoObject DEF Gone
<1>3. ASSUME ConfigIn(newConfig) = Nothing \/ ResourcesIn(newPods) = Nothing,
             ConfigIn(config) # Nothing, ResourcesIn(pods) # Nothing
      PROVE  /\ job # NoJob /\ job.name = t /\ job.at \in DeleteSteps
             /\ HandlerMoves
  <2>1. OwnStep(t) /\ HandlerMoves
    BY <1>3, GivenSteps DEF NoStep
  <2>2. /\ generateYACEConfig(job.tagemon.spec) # Nothing
        /\ job.tagemon.spec.resources # Nothing
    BY <1>0, <2>1, WorkingCopyType, SpecsAssumption, LifecycleAssumption DEF Tagemon, HandlerMoves
  <2> QED
    BY <1>3, <2>1, <2>2 DEF OwnStep
<1> HIDE DEF config, newConfig, pods, newPods
<1> QED
  BY <1>2, <1>3

(* handleDelete begins only when the cache has learnt of the deletion, and *)
(* the cache then has nothing else to learn.                               *)
LEMMA LeavingKept ==
  ASSUME NamesDiffer, NobodyRemoves, LifecycleInv, [Next]_vars
  PROVE  LeavingInv'
<1>0. /\ TypeOK /\ TagemonInv /\ CopyInv /\ OwnsWhatItRecords
      /\ OrderInv /\ LeavingInv
  BY DEF LifecycleInv, PromisesInv, ResourcesInv, TagemonInv, IndInv
<1> SUFFICES ASSUME NEW t \in Tagemons, IsLeaving(Stored(tagemon'[t]))
             PROVE  LET object == Stored(tagemon'[t])
                    IN /\ object.finalizer
                       /\ job' # NoJob /\ job'.name = t /\ job'.at \in DeleteSteps =>
                            AllLeaving(tagemon'[t])
                       /\ \/ Gone(configMap', object.status.configMap)
                          \/ Gone(deployment', object.status.deployment)
                          => /\ AllLeaving(tagemon'[t])
                             /\ job' # NoJob /\ job'.name = t => job'.at \in DeleteSteps
  BY DEF LeavingInv, Deleting, IsLeaving
<1> DEFINE old == Stored(tagemon[t])
           new == Stored(tagemon'[t])
           cm == old.status.configMap
           dep == old.status.deployment
<1>1. /\ old # NoObject /\ new.status = old.status /\ new.finalizer
      /\ \/ IsLeaving(old) /\ Range(tagemon'[t]) \subseteq Range(tagemon[t]) \cup {new}
         \/ Recorded(t) /\ UserWrites(t)
  BY <1>0, DeletingBefore
<1>2. CASE Recorded(t) /\ UserWrites(t)
  <2>1. ~Gone(configMap, cm) /\ ~Gone(deployment, dep)
    BY <1>0, <1>2, RecordedFacts, NamesAssumption DEF OwnsWhatItRecords, Gone
  <2>2. ~Gone(configMap', cm) /\ ~Gone(deployment', dep)
    BY <1>2, <2>1 DEF UserWrites, Gone
  <2>3. ~(job # NoJob /\ job.name = t /\ job.at \in DeleteSteps)
    BY <1>0, <1>2 DEF CopyInv, WellCopied
  <2>4. ~(job' # NoJob /\ job'.name = t /\ job'.at \in DeleteSteps)
    <3>1. CASE job = NoJob
      BY <1>2, <3>1 DEF UserWrites
    <3>2. CASE job # NoJob
      BY <1>0, <1>2, <2>3, <3>2, WorkingCopyType DEF UserWrites, Job
    <3> QED
      BY <3>1, <3>2
  <2> QED
    BY <1>1, <2>2, <2>4
<1>3. CASE IsLeaving(old) /\ Range(tagemon'[t]) \subseteq Range(tagemon[t]) \cup {new}
  <2>1. AllLeaving(tagemon[t]) => AllLeaving(tagemon'[t])
    BY <1>3 DEF AllLeaving
  <2>2. /\ Ordered(tagemon[t]) /\ tagemon[t] \in Versions(Tagemon)
        /\ Cached(tagemon[t]) \in Range(tagemon[t])
        /\ job # NoJob /\ job.name = t /\ job.at \in DeleteSteps => AllLeaving(tagemon[t])
        /\ \/ Gone(configMap, cm) \/ Gone(deployment, dep)
           => /\ AllLeaving(tagemon[t])
              /\ job # NoJob /\ job.name = t => job.at \in DeleteSteps
    BY <1>0, <1>3, RangeType DEF OrderInv, LeavingInv, Deleting, IsLeaving, TypeOK
  <2>3. ASSUME job' # NoJob, job'.name = t
        PROVE  /\ job'.at \in DeleteSteps => AllLeaving(tagemon[t])
               /\ \/ /\ job # NoJob /\ job.name = t
                     /\ job.at \in DeleteSteps => job'.at \in DeleteSteps
                  \/ /\ job = NoJob
                     /\ AllLeaving(tagemon[t]) => job'.at \in DeleteSteps
    <3>1. CASE job' = job
      BY <2>2, <2>3, <3>1
    <3>2. ASSUME NEW s \in Tagemons, HandlerStarts(s)
          PROVE  /\ job'.at \in DeleteSteps => AllLeaving(tagemon[t])
                 /\ job = NoJob
                 /\ AllLeaving(tagemon[t]) => job'.at \in DeleteSteps
      <4>1. s = t /\ job = NoJob
        BY <2>3, <3>2 DEF HandlerStarts
      <4>2. job'.at \in DeleteSteps <=> IsLeaving(Cached(tagemon[t]))
        BY <3>2, <4>1 DEF HandlerStarts, DeleteSteps, IsLeaving
      <4> QED
        BY <2>2, <4>1, <4>2, OrderedFromFirst DEF AllLeaving
    <3>3. CASE HandlerMoves
      BY <2>2, <2>3, <3>3, DeleteStaysDelete DEF HandlerMoves
    <3>4. ASSUME NEW s \in Tagemons, UserWrites(s)
          PROVE  job # NoJob /\ job.name = job'.name /\ job.at = job'.at
      <4>1. job # NoJob /\ job \in Job
        BY <1>0, <2>3, <3>4, WorkingCopyType DEF UserWrites
      <4> QED
        BY <3>4, <4>1 DEF UserWrites, Job
    <3> QED
      BY <1>0, <2>2, <2>3, <3>1, <3>2, <3>3, <3>4, NextJob
  <2>4. old.status.observed > 0
    BY <1>0, <1>3, DeletingObserved
  <2>5. ASSUME Gone(configMap', cm) \/ Gone(deployment', dep)
        PROVE  /\ AllLeaving(tagemon[t])
               /\ job # NoJob /\ job.name = t => job.at \in DeleteSteps
    BY <1>1, <2>2, <2>4, <2>5, GoneBy
  <2> QED
    BY <1>1, <2>1, <2>3, <2>5
<1> QED
  BY <1>1, <1>2, <1>3

(* What the lifecycle's proof knows of every state.                        *)
THEOREM LifecycleInvariance ==
  ASSUME NamesDiffer, NobodyRemoves
  PROVE  Spec /\ [][UpdatesNotMisled]_vars /\ [][DeletionsNotMisled]_vars => []LifecycleInv
<1>1. Init => OrderInv /\ LeavingInv /\ ReportedInv
  BY DEF Init, OrderInv, LeavingInv, ReportedInv, Deleting, Stored
<1>2. LifecycleInv /\ [Next]_vars => OrderInv' /\ LeavingInv' /\ ReportedInv'
  <2> SUFFICES ASSUME LifecycleInv, [Next]_vars
               PROVE  OrderInv' /\ LeavingInv' /\ ReportedInv'
    OBVIOUS
  <2>1. TypeOK /\ TagemonInv /\ OrderInv /\ LeavingInv /\ ReportedInv
    BY DEF LifecycleInv, PromisesInv, ResourcesInv, TagemonInv, IndInv
  <2> QED
    BY <2>1, OrderKept, LeavingKept, ReportedKept
<1>3. LifecycleInv <=> PromisesInv /\ RemovedInv /\ OrderInv /\ LeavingInv /\ ReportedInv
  BY DEF LifecycleInv
<1>4. Spec /\ [][UpdatesNotMisled]_vars => []PromisesInv
  BY PromisesInvariance
<1>5. Spec /\ [][DeletionsNotMisled]_vars => []RemovedInv
  BY RemovedInvariance
<1> QED
  BY <1>1, <1>2, <1>3, <1>4, <1>5, PTL DEF Spec

-----------------------------------------------------------------------------
(* What is remembered                                                      *)

(* A handler works for the spec it started with, which was in the cache.   *)
LEMMA SpecOfJob ==
  ASSUME TypeOK, [Next]_vars, job' # NoJob
  PROVE  \/ /\ job # NoJob /\ job.name = job'.name
            /\ job'.tagemon.spec = job.tagemon.spec
         \/ \E t \in Tagemons : \E version \in Range(tagemon[t]) \ {NoObject} :
              job'.name = t /\ job'.tagemon.spec = version.spec
<1>1. CASE job' = job
  BY <1>1
<1>2. ASSUME NEW t \in Tagemons, HandlerStarts(t)
      PROVE  \E version \in Range(tagemon[t]) \ {NoObject} :
               job'.name = t /\ job'.tagemon.spec = version.spec
  <2>1. /\ Cached(tagemon[t]) \in Range(tagemon[t]) \ {NoObject}
        /\ Cached(tagemon[t]) \in Tagemon
    BY <1>2, RangeType DEF HandlerStarts
  <2>2. job'.name = t /\ job'.tagemon.spec = Cached(tagemon[t]).spec
    BY <1>2, <2>1 DEF HandlerStarts, Tagemon
  <2> QED
    BY <2>1, <2>2
<1>3. CASE HandlerMoves
  <2>1. job # NoJob /\ job.tagemon \in Tagemon /\ ResourceName \in Names
    BY <1>3, WorkingCopyType DEF HandlerMoves
  <2>2. /\ Observed(job.tagemon).spec = job.tagemon.spec
        /\ WithConfigMapName(job.tagemon, ResourceName).spec = job.tagemon.spec
        /\ [job.tagemon EXCEPT !.status.deployment = ResourceName].spec = job.tagemon.spec
    BY <2>1 DEF Observed, WithConfigMapName, Tagemon
  <2>3. job'.tagemon \in {job.tagemon, Observed(job.tagemon),
                          WithConfigMapName(job.tagemon, ResourceName),
                          [job.tagemon EXCEPT !.status.deployment = ResourceName]}
    BY <1>3 DEF HandlerMoves, Moved
  <2> QED
    BY <1>3, <2>1, <2>2, <2>3, DeleteStaysDelete
<1>4. ASSUME NEW t \in Tagemons, UserWrites(t)
      PROVE  /\ job # NoJob /\ job.name = job'.name
             /\ job'.tagemon.spec = job.tagemon.spec
  <2>1. job # NoJob /\ job \in Job
    BY <1>4, WorkingCopyType DEF UserWrites
  <2> QED
    BY <1>4, <2>1 DEF UserWrites, Job
<1> QED
  BY <1>1, <1>2, <1>3, <1>4, NextJob

(* Nothing is remembered that was not asked for, and what is wanted is.    *)
LEMMA RemembersAsked ==
  ASSUME LifecycleInv, [Next]_vars
  PROVE  Lifecycle!Remembers
<1>0. TypeOK /\ TypeOK'
  BY NextType DEF LifecycleInv, PromisesInv, ResourcesInv, TagemonInv, IndInv
<1> SUFFICES ASSUME NEW t \in Tagemons
             PROVE  /\ asked'[t] \subseteq asked[t] \cup {wanted'[t]}
                    /\ wanted'[t] # NoSpec => wanted'[t] \in asked'[t]
  BY DEF Lifecycle!Remembers
<1> DEFINE new == Stored(tagemon'[t])
<1>1. /\ wanted'[t] = WantedBy(new)
      /\ asked[t] = {version.spec : version \in Range(tagemon[t]) \ {NoObject}}
                      \cup (IF job # NoJob /\ job.name = t THEN {job.tagemon.spec} ELSE {})
      /\ asked'[t] = {version.spec : version \in Range(tagemon'[t]) \ {NoObject}}
                      \cup (IF job' # NoJob /\ job'.name = t THEN {job'.tagemon.spec} ELSE {})
  BY DEF wanted, asked
<1>2. Range(tagemon'[t]) \subseteq Range(tagemon[t]) \cup {new}
  BY <1>0, NextWrites DEF TagemonsStay, HandlerWrites, UserWrites, TagemonWritten
<1>3. new \in Range(tagemon'[t])
  <2>1. tagemon'[t] \in Versions(Tagemon)
    BY <1>0 DEF TypeOK
  <2> QED
    BY <2>1, VersionsEnds
<1>4. new # NoObject => WantedBy(new) = new.spec
  BY DEF WantedBy
<1>5. new = NoObject => WantedBy(new) = NoSpec
  BY DEF WantedBy
<1> HIDE DEF new
<1>6. ASSUME NEW version \in Range(tagemon'[t]) \ {NoObject}
      PROVE  version.spec \in asked[t] \cup {wanted'[t]}
  BY <1>1, <1>2, <1>4
<1>7. ASSUME job' # NoJob, job'.name = t
      PROVE  job'.tagemon.spec \in asked[t]
  BY <1>0, <1>1, <1>7, SpecOfJob
<1>8. asked'[t] \subseteq asked[t] \cup {wanted'[t]}
  BY <1>1, <1>6, <1>7
<1>9. ASSUME wanted'[t] # NoSpec
      PROVE  wanted'[t] \in asked'[t]
  BY <1>1, <1>3, <1>4, <1>5, <1>9
<1> QED
  BY <1>8, <1>9

-----------------------------------------------------------------------------
(* Steps of the lifecycle                                                  *)

(* A Tagemon is written, and no ConfigMap or Deployment is.                *)
LEMMA OneTagemonWritten ==
  ASSUME NEW t \in Tagemons, NEW version, TagemonWritten(t, version),
         UNCHANGED <<configMap, deployment>>
  PROVE  /\ phase' = [phase EXCEPT ![t] = PhaseOf(version)]
         /\ wanted' = [wanted EXCEPT ![t] = WantedBy(version)]
         /\ given' = [given EXCEPT ![t] = GivenTo(version, configMap, deployment)]
         /\ guarded' = IF version # NoObject /\ version.finalizer
                       THEN guarded \cup {t} ELSE guarded \ {t}
         /\ phase[t] = PhaseOf(Stored(tagemon[t]))
         /\ wanted[t] = WantedBy(Stored(tagemon[t]))
         /\ given[t] = GivenTo(Stored(tagemon[t]), configMap, deployment)
         /\ t \in guarded <=> (Stored(tagemon[t]) # NoObject /\ Stored(tagemon[t]).finalizer)
<1>1. /\ Stored(tagemon'[t]) = version
      /\ \A s \in Tagemons \ {t} : Stored(tagemon'[s]) = Stored(tagemon[s])
  BY DEF TagemonWritten
<1>2. phase' = [phase EXCEPT ![t] = PhaseOf(version)]
  BY <1>1 DEF phase
<1>3. wanted' = [wanted EXCEPT ![t] = WantedBy(version)]
  BY <1>1 DEF wanted
<1>4. given' = [given EXCEPT ![t] = GivenTo(version, configMap, deployment)]
  BY <1>1 DEF given
<1>5. guarded' = IF version # NoObject /\ version.finalizer
                 THEN guarded \cup {t} ELSE guarded \ {t}
  BY <1>1 DEF guarded
<1> QED
  BY <1>2, <1>3, <1>4, <1>5 DEF phase, wanted, given, guarded

(* The phases.                                                             *)
LEMMA Phases ==
  ASSUME NEW object
  PROVE  /\ object = NoObject => PhaseOf(object) = "absent"
         /\ object # NoObject /\ object.deleting => PhaseOf(object) = "leaving"
         /\ object # NoObject /\ ~object.deleting /\ object.status.observed = 0
              => PhaseOf(object) = "new"
         /\ /\ object # NoObject /\ ~object.deleting /\ object.status.observed # 0
            /\ object.status.observed = object.generation
            => PhaseOf(object) = "served"
         /\ /\ object # NoObject /\ ~object.deleting /\ object.status.observed # 0
            /\ object.status.observed # object.generation
            => PhaseOf(object) = "outdated"
BY DEF PhaseOf

(* What users do.                                                          *)
LEMMA UserSteps ==
  ASSUME TagemonInv, NEW t \in Tagemons, UserWrites(t)
  PROVE  \/ Lifecycle!Step(t)
         \/ UNCHANGED <<phase, guarded, wanted, given>>
<1> DEFINE old == Stored(tagemon[t])
<1>0. /\ TypeOK /\ RecordedBeforeFinalizer
      /\ old \in Tagemon \cup {NoObject}
      /\ old # NoObject => WellRecorded(t, old)
      /\ old # NoObject /\ old.finalizer => old.status.observed > 0
  BY RangeType DEF TagemonInv, IndInv, VersionsInv, RecordedBeforeFinalizer, RecordsResources
<1>1. PICK version \in Tagemon \cup {NoObject} :
        /\ TagemonWritten(t, version) /\ UserVersion(old, version)
        /\ UNCHANGED <<configMap, deployment>>
  BY DEF UserWrites
<1>2. /\ phase' = [phase EXCEPT ![t] = PhaseOf(version)]
      /\ wanted' = [wanted EXCEPT ![t] = WantedBy(version)]
      /\ given' = [given EXCEPT ![t] = GivenTo(version, configMap, deployment)]
      /\ guarded' = IF version # NoObject /\ version.finalizer
                    THEN guarded \cup {t} ELSE guarded \ {t}
      /\ phase[t] = PhaseOf(old)
      /\ wanted[t] = WantedBy(old)
      /\ given[t] = GivenTo(old, configMap, deployment)
      /\ t \in guarded <=> (old # NoObject /\ old.finalizer)
  BY <1>1, OneTagemonWritten
<1>3. /\ [phase EXCEPT ![t] = phase[t]] = phase
      /\ [wanted EXCEPT ![t] = wanted[t]] = wanted
      /\ [given EXCEPT ![t] = given[t]] = given
  BY DEF phase, wanted, given
<1> HIDE DEF old
<1>4. CASE old = NoObject
  <2>1. PICK spec \in Specs : version = NewTagemon(spec)
    BY <1>1, <1>4 DEF UserVersion
  <2>2. /\ version \in Tagemon /\ version # NoObject
        /\ version.spec = spec /\ ~version.finalizer /\ ~version.deleting
        /\ version.status.observed = 0
    BY <2>1, NewTagemonType, ObjectsAssumption DEF NewTagemon
  <2>3. /\ PhaseOf(old) = "absent" /\ PhaseOf(version) = "new"
        /\ WantedBy(version) = spec
        /\ GivenTo(version, configMap, deployment) = GivenTo(old, configMap, deployment)
    BY <1>4, <2>2, Phases DEF WantedBy, GivenTo
  <2>4. UNCHANGED guarded /\ UNCHANGED given
    BY <1>2, <1>3, <1>4, <2>2, <2>3
  <2>5. Lifecycle!Ask(t)
    BY <1>2, <2>3, <2>4 DEF Lifecycle!Ask, Lifecycle!Passes
  <2> QED
    BY <2>5 DEF Lifecycle!Step
<1>5. ASSUME old # NoObject, NEW spec \in Specs \ {old.spec},
             version = [old EXCEPT !.spec = spec, !.generation = @ + 1]
      PROVE  Lifecycle!Change(t)
  <2>1. old \in Tagemon /\ old.generation \in Nat \ {0} /\ old.status.observed \in Nat
    BY <1>0, <1>5 DEF Tagemon, Status
  <2>2. /\ version \in Tagemon /\ version.spec = spec
        /\ version.generation = old.generation + 1
        /\ version.finalizer = old.finalizer /\ version.deleting = old.deleting
        /\ version.status = old.status
    <3>1. /\ version.spec = spec
          /\ version.generation = old.generation + 1
          /\ version.finalizer = old.finalizer /\ version.deleting = old.deleting
          /\ version.status = old.status
      BY <1>5, <2>1 DEF Tagemon
    <3>2. old.generation + 1 \in Nat \ {0}
      BY <2>1
    <3>3. version \in Tagemon
      BY <1>5, <2>1, <3>2 DEF Tagemon
    <3> QED
      BY <3>1, <3>3
  <2>3. version # NoObject
    BY <2>2, ObjectsAssumption
  <2>4. WantedBy(version) = spec /\ WantedBy(old) = old.spec
    BY <1>5, <2>2, <2>3 DEF WantedBy
  <2>5. GivenTo(version, configMap, deployment) = GivenTo(old, configMap, deployment)
    BY <1>5, <2>2, <2>3 DEF GivenTo
  <2>6. UNCHANGED guarded /\ UNCHANGED given
    BY <1>2, <1>3, <1>5, <2>2, <2>3, <2>5
  <2>7. \/ PhaseOf(old) \in {"new", "leaving"} /\ PhaseOf(version) = PhaseOf(old)
        \/ PhaseOf(old) \in {"served", "outdated"} /\ PhaseOf(version) = "outdated"
    <3>1. CASE old.deleting
      BY <1>5, <2>2, <2>3, <3>1, Phases
    <3>2. CASE ~old.deleting /\ old.status.observed = 0
      BY <1>5, <2>2, <2>3, <3>2, Phases
    <3>3. CASE ~old.deleting /\ old.status.observed # 0
      <4>1. version.status.observed # version.generation
        BY <1>0, <1>5, <2>1, <2>2 DEF WellRecorded
      <4>2. PhaseOf(version) = "outdated"
        BY <2>2, <2>3, <3>3, <4>1, Phases
      <4>3. PhaseOf(old) \in {"served", "outdated"}
        BY <1>5, <3>3, Phases
      <4> QED
        BY <4>2, <4>3
    <3> QED
      BY <3>1, <3>2, <3>3
  <2>8. \/ phase[t] \in {"new", "leaving"} /\ UNCHANGED phase
        \/ Lifecycle!Passes(t, {"served", "outdated"}, "outdated")
    BY <1>2, <1>3, <2>7 DEF Lifecycle!Passes
  <2> QED
    BY <1>2, <2>4, <2>6, <2>8 DEF Lifecycle!Change
<1>6. CASE old # NoObject /\ version = old
  <2>1. UNCHANGED guarded
    BY <1>2, <1>6
  <2> QED
    BY <1>2, <1>3, <1>6, <2>1
<1>7. CASE /\ old # NoObject /\ ~old.deleting /\ old.finalizer
           /\ version = [old EXCEPT !.deleting = TRUE]
  <2>1. /\ version \in Tagemon /\ version.spec = old.spec
        /\ version.finalizer /\ version.deleting /\ version.status = old.status
    BY <1>0, <1>7 DEF Tagemon
  <2>2. version # NoObject
    BY <2>1, ObjectsAssumption
  <2>3. WantedBy(version) = WantedBy(old)
    BY <1>7, <2>1, <2>2 DEF WantedBy
  <2>4. GivenTo(version, configMap, deployment) = GivenTo(old, configMap, deployment)
    BY <1>7, <2>1, <2>2 DEF GivenTo
  <2>5. UNCHANGED <<guarded, wanted, given>> /\ t \in guarded
    BY <1>2, <1>3, <1>7, <2>1, <2>2, <2>3, <2>4
  <2>6. old.status.observed # 0
    BY <1>0, <1>7
  <2>7. PhaseOf(old) \in {"served", "outdated"} /\ PhaseOf(version) = "leaving"
    BY <1>7, <2>1, <2>2, <2>6, Phases
  <2>8. Lifecycle!Leave(t)
    BY <1>2, <2>5, <2>7 DEF Lifecycle!Leave, Lifecycle!Passes
  <2> QED
    BY <2>8 DEF Lifecycle!Step
<1>8. CASE old # NoObject /\ ~old.deleting /\ ~old.finalizer /\ version = NoObject
  <2>1. PhaseOf(old) \in {"new", "served", "outdated"} /\ PhaseOf(version) = "absent"
    BY <1>8, Phases
  <2>2. /\ WantedBy(version) = NoSpec
        /\ GivenTo(version, configMap, deployment) = Lifecycle!NothingGiven
    BY <1>8 DEF WantedBy, GivenTo, Lifecycle!NothingGiven
  <2>3. UNCHANGED guarded /\ t \notin guarded
    BY <1>2, <1>8
  <2>4. Lifecycle!Vanish(t)
    BY <1>2, <2>1, <2>2, <2>3 DEF Lifecycle!Vanish, Lifecycle!Passes
  <2> QED
    BY <2>4 DEF Lifecycle!Step
<1>9. ASSUME old # NoObject, ~old.deleting,
             version = IF old.finalizer THEN [old EXCEPT !.deleting = TRUE] ELSE NoObject
      PROVE  \/ Lifecycle!Step(t)
             \/ UNCHANGED <<phase, guarded, wanted, given>>
  BY <1>7, <1>8, <1>9
<1>10. ASSUME old # NoObject, \E spec \in Specs \ {old.spec} :
                version = [old EXCEPT !.spec = spec, !.generation = @ + 1]
       PROVE  Lifecycle!Step(t)
  BY <1>5, <1>10, Zenon DEF Lifecycle!Step
<1> QED
  BY <1>1, <1>4, <1>6, <1>9, <1>10, Zenon DEF UserVersion

(* What createConfigMap and createDeployment write is there.               *)
LEMMA CreatedThere ==
  ASSUME TypeOK, job # NoJob, job.tagemon.status.id \in Ids
  PROVE  NewConfigMap # NoObject /\ NewDeployment # NoObject
<1>1. /\ generateYACEConfig(job.tagemon.spec) \in Config
      /\ job.tagemon.spec \in Specs
  BY WorkingCopyType DEF Tagemon
<1>2. NewConfigMap \in ConfigMap
  BY <1>1 DEF NewConfigMap, ConfigMap
<1>3. NewDeployment \in Deployment
  BY <1>1, SpecsAssumption DEF NewDeployment, Deployment
<1> QED
  BY <1>2, <1>3, ObjectsAssumption

(* What createStatus, addFinalizer, modifyStatus and removeFinalizer do    *)
(* when they are accepted.                                                 *)
LEMMA HandlerWritesStep ==
  ASSUME LifecycleInv, HandlerWrites
  PROVE  \/ Lifecycle!Step(job.name)
         \/ UNCHANGED <<phase, guarded, wanted, given>>
<1> DEFINE t == job.name
           copy == job.tagemon
           old == Stored(tagemon[t])
           cm == copy.status.configMap
           dep == copy.status.deployment
<1>0. /\ TypeOK /\ TagemonInv /\ WorkingCopyInv /\ CopyInv /\ CurrentInv
      /\ CreatedInv /\ OwnsWhatItRecords /\ AppliedInv /\ RemovedInv /\ ReportedInv
      /\ job # NoJob /\ job.current /\ old # NoObject
  BY DEF HandlerWrites, LifecycleInv, PromisesInv, ResourcesInv, TagemonInv, IndInv
<1>1. /\ t \in Tagemons /\ copy \in Tagemon /\ copy # NoObject
      /\ copy.generation \in Nat \ {0} /\ copy.status.observed \in Nat
      /\ WellCopied(job.at, t, copy, Recorded(t))
  <2>1. t \in Tagemons /\ copy \in Tagemon
    BY <1>0, WorkingCopyType
  <2> QED
    BY <1>0, <2>1, ObjectsAssumption DEF CopyInv, Tagemon, Status
<1>2. PICK version \in Tagemon \cup {NoObject} :
        /\ TagemonWritten(t, version) /\ HandlerVersion(version)
        /\ UNCHANGED <<configMap, deployment>>
  BY DEF HandlerWrites
<1>3. /\ phase' = [phase EXCEPT ![t] = PhaseOf(version)]
      /\ wanted' = [wanted EXCEPT ![t] = WantedBy(version)]
      /\ given' = [given EXCEPT ![t] = GivenTo(version, configMap, deployment)]
      /\ guarded' = IF version # NoObject /\ version.finalizer
                    THEN guarded \cup {t} ELSE guarded \ {t}
      /\ phase[t] = PhaseOf(old)
      /\ wanted[t] = WantedBy(old)
      /\ given[t] = GivenTo(old, configMap, deployment)
      /\ t \in guarded <=> (old # NoObject /\ old.finalizer)
  BY <1>1, <1>2, OneTagemonWritten
<1>4. /\ [phase EXCEPT ![t] = phase[t]] = phase
      /\ [wanted EXCEPT ![t] = wanted[t]] = wanted
      /\ [given EXCEPT ![t] = given[t]] = given
  BY DEF phase, wanted, given
<1>5. Lifecycle!AllOf(copy.spec) =
        [config |-> generateYACEConfig(copy.spec), resources |-> copy.spec.resources]
  <2>1. copy.spec \in Specs
    BY <1>1 DEF Tagemon
  <2> QED
    BY <2>1 DEF Lifecycle!AllOf
<1>6. ASSUME NEW object, object # NoObject, object.status.observed # 0,
             object.status.configMap = cm, object.status.deployment = dep
      PROVE  GivenTo(object, configMap, deployment) =
               [config |-> ConfigIn(Stored(configMap[cm])),
                resources |-> ResourcesIn(Stored(deployment[dep]))]
  BY <1>6 DEF GivenTo
<1> HIDE DEF t, copy, old, cm, dep
<1>7. CASE job.at = "createStatus"
  <2>1. /\ old.spec = copy.spec /\ old.status.observed = 0
        /\ ~old.finalizer /\ ~old.deleting
    BY <1>0, <1>7 DEF CurrentInv, Unrecorded, t, copy, old
  <2>2. /\ version = Observed(copy) /\ ~copy.finalizer /\ ~copy.deleting
    BY <1>1, <1>2, <1>7 DEF HandlerVersion, WellCopied, Unrecorded, CreateSteps, copy
  <2>3. /\ version \in Tagemon /\ version.spec = copy.spec
        /\ ~version.finalizer /\ ~version.deleting
        /\ version.generation = copy.generation
        /\ version.status.observed = copy.generation
        /\ version.status.configMap = cm /\ version.status.deployment = dep
    BY <1>1, <2>2 DEF Observed, Tagemon, Status, cm, dep
  <2>4. version # NoObject
    BY <2>3, ObjectsAssumption
  <2>5. PhaseOf(old) = "new" /\ PhaseOf(version) = "served"
    BY <1>0, <1>1, <2>1, <2>3, <2>4, Phases
  <2>6. /\ Stored(configMap[cm]) = NewConfigMap /\ Stored(deployment[dep]) = NewDeployment
        /\ NewConfigMap # NoObject /\ NewDeployment # NoObject
    BY <1>0, <1>7, CreatedThere DEF CreatedInv, cm, dep, copy
  <2>7. GivenTo(version, configMap, deployment) = Lifecycle!AllOf(copy.spec)
    <3>1. /\ ConfigIn(NewConfigMap) = generateYACEConfig(copy.spec)
          /\ ResourcesIn(NewDeployment) = copy.spec.resources
      BY <2>6 DEF ConfigIn, ResourcesIn, IsNotFound, NewConfigMap, NewDeployment, copy
    <3> QED
      BY <1>1, <1>5, <1>6, <2>3, <2>4, <2>6, <3>1
  <2>8. WantedBy(version) = WantedBy(old) /\ WantedBy(old) = copy.spec
    BY <1>0, <2>1, <2>3, <2>4 DEF WantedBy
  <2>9. UNCHANGED <<guarded, wanted>>
    BY <1>3, <1>4, <2>1, <2>3, <2>8
  <2>10. Lifecycle!Serve(t)
    BY <1>3, <2>5, <2>7, <2>8, <2>9 DEF Lifecycle!Serve, Lifecycle!Passes
  <2> QED
    BY <2>10 DEF Lifecycle!Step, t
<1>8. CASE job.at = "addFinalizer"
  <2>1. old = copy
    BY <1>0, <1>8 DEF CurrentInv, Unrecorded, t, copy, old
  <2>2. /\ version = [copy EXCEPT !.finalizer = TRUE] /\ ~copy.deleting
        /\ copy.status.observed # 0 /\ copy.status.observed = copy.generation
    BY <1>0, <1>1, <1>2, <1>8
       DEF HandlerVersion, WellCopied, CreateSteps, WorkingCopyInv, ReportedInv, copy
  <2>3. /\ version \in Tagemon /\ version.spec = copy.spec
        /\ version.finalizer /\ version.deleting = copy.deleting
        /\ version.generation = copy.generation /\ version.status = copy.status
    BY <1>1, <2>2 DEF Tagemon
  <2>4. version # NoObject
    BY <2>3, ObjectsAssumption
  <2>5. PhaseOf(old) = "served" /\ PhaseOf(version) = "served"
    BY <1>0, <2>1, <2>2, <2>3, <2>4, Phases
  <2>6. /\ WantedBy(version) = WantedBy(old)
        /\ GivenTo(version, configMap, deployment) = GivenTo(old, configMap, deployment)
    BY <1>0, <2>1, <2>3, <2>4 DEF WantedBy, GivenTo
  <2>7. UNCHANGED <<phase, wanted, given>>
    BY <1>3, <1>4, <2>5, <2>6
  <2>8. Lifecycle!Guard(t)
    BY <1>3, <2>3, <2>4, <2>5, <2>7 DEF Lifecycle!Guard
  <2> QED
    BY <2>8 DEF Lifecycle!Step, t
<1>9. CASE job.at = "modifyStatus"
  <2>1. old = copy
    BY <1>0, <1>9 DEF CurrentInv, Unrecorded, t, copy, old
  <2>2. version = Observed(copy) /\ ~copy.deleting /\ copy.status.observed # 0
    BY <1>1, <1>2, <1>9 DEF HandlerVersion, WellCopied, ModifySteps, copy
  <2>3. /\ version \in Tagemon /\ version.spec = copy.spec
        /\ version.finalizer = copy.finalizer /\ ~version.deleting
        /\ version.generation = copy.generation
        /\ version.status.observed = copy.generation
        /\ version.status.configMap = cm /\ version.status.deployment = dep
    BY <1>1, <2>2 DEF Observed, Tagemon, Status, cm, dep
  <2>4. version # NoObject
    BY <2>3, ObjectsAssumption
  <2>5. PhaseOf(version) = "served"
    BY <1>1, <2>3, <2>4, Phases
  <2>6. WantedBy(version) = WantedBy(old) /\ WantedBy(old) = copy.spec
    BY <1>0, <2>1, <2>3, <2>4 DEF WantedBy
  <2>7. GivenTo(version, configMap, deployment) = GivenTo(old, configMap, deployment)
    BY <1>0, <1>1, <1>6, <2>1, <2>2, <2>3, <2>4 DEF cm, dep
  <2>8. UNCHANGED <<guarded, wanted, given>>
    BY <1>0, <1>3, <1>4, <2>1, <2>3, <2>4, <2>6, <2>7
  <2>9. CASE copy.status.observed = copy.generation
    <3>1. PhaseOf(old) = "served"
      BY <1>0, <2>1, <2>2, <2>9, Phases
    <3> QED
      BY <1>3, <1>4, <2>5, <2>8, <3>1
  <2>10. CASE copy.status.observed # copy.generation
    <3>1. PhaseOf(old) = "outdated"
      BY <1>0, <2>1, <2>2, <2>10, Phases
    <3>2. Recorded(t)
      BY <1>0, <1>1, <2>1, <2>2 DEF Recorded, Live, old
    <3>3. /\ Stored(configMap[cm]) # NoObject /\ Stored(deployment[dep]) # NoObject
          /\ cm # NoName /\ dep # NoName
      BY <1>0, <1>1, <2>1, <3>2, RecordedFacts, NamesAssumption
         DEF OwnsWhatItRecords, old, cm, dep
    <3>4. /\ Stored(configMap[cm]).config = generateYACEConfig(copy.spec)
          /\ Stored(deployment[dep]).resources = copy.spec.resources
      BY <1>0, <1>9, <3>3 DEF AppliedInv, Gone, ItsConfigMap, ItsDeployment, cm, dep, copy
    <3>5. GivenTo(old, configMap, deployment) = Lifecycle!AllOf(copy.spec)
      BY <1>0, <1>5, <1>6, <2>1, <2>2, <3>3, <3>4
         DEF ConfigIn, ResourcesIn, IsNotFound, cm, dep
    <3>6. Lifecycle!Settle(t)
      BY <1>3, <2>5, <2>6, <2>8, <3>1, <3>5 DEF Lifecycle!Settle, Lifecycle!Passes
    <3> QED
      BY <3>6 DEF Lifecycle!Step, t
  <2> QED
    BY <2>9, <2>10
<1>10. CASE job.at = "removeFinalizer"
  <2>1. old = copy
    BY <1>0, <1>10 DEF CurrentInv, Unrecorded, t, copy, old
  <2>2. version = NoObject /\ copy.deleting
    BY <1>1, <1>2, <1>10 DEF HandlerVersion, WellCopied, DeleteSteps, copy
  <2>3. PhaseOf(old) = "leaving" /\ PhaseOf(version) = "absent"
    BY <1>0, <2>1, <2>2, Phases
  <2>4. WantedBy(version) = NoSpec
    BY <2>2 DEF WantedBy
  <2>5. GivenTo(version, configMap, deployment) = Lifecycle!NothingGiven
    BY <2>2 DEF GivenTo, Lifecycle!NothingGiven
  <2>6. GivenTo(old, configMap, deployment) = Lifecycle!NothingGiven
    <3>1. old.status.observed # 0 /\ cm \in Names /\ dep \in Names
      <4>1. IsLeaving(old) /\ TagemonInv /\ LeavingInv
        BY <1>0, <2>1, <2>2 DEF LifecycleInv, IsLeaving
      <4>2. old.status.observed > 0
        BY <1>1, <4>1, DeletingObserved DEF old
      <4> QED
        BY <1>0, <1>1, <2>1, <4>1, <4>2, ObservedFacts DEF old, cm, dep
    <3>2. Stored(configMap[cm]) = NoObject /\ Stored(deployment[dep]) = NoObject
      BY <1>0, <1>10, <3>1, NamesAssumption
         DEF RemovedInv, Gone, ItsConfigMap, ItsDeployment, cm, dep, copy
    <3> QED
      BY <1>0, <1>6, <2>1, <3>1, <3>2
         DEF ConfigIn, ResourcesIn, IsNotFound, Lifecycle!NothingGiven, cm, dep
  <2>7. UNCHANGED given /\ guarded' = guarded \ {t}
    BY <1>3, <1>4, <2>2, <2>5, <2>6
  <2>8. Lifecycle!Gone(t)
    BY <1>3, <2>3, <2>4, <2>6, <2>7 DEF Lifecycle!Gone, Lifecycle!Passes
  <2> QED
    BY <2>8 DEF Lifecycle!Step, t
<1> QED
  BY <1>2, <1>7, <1>8, <1>9, <1>10 DEF HandlerVersion

(* What the steps do that write no Tagemon.                                *)
LEMMA ResourceSteps ==
  ASSUME NamesDiffer, NobodyRemoves, LifecycleInv, [Next]_vars, TagemonsStay
  PROVE  \/ \E t \in Tagemons : Lifecycle!Step(t)
         \/ UNCHANGED <<phase, guarded, wanted, given>>
<1>0. /\ TypeOK /\ TagemonInv /\ CopyInv /\ SettledInv /\ OwnsWhatItRecords
      /\ ObservedMeansApplied
  BY DEF LifecycleInv, PromisesInv, ResourcesInv, TagemonInv, IndInv
<1>1. \A t \in Tagemons : Stored(tagemon'[t]) = Stored(tagemon[t])
  BY DEF TagemonsStay
<1>2. UNCHANGED <<phase, guarded, wanted>>
  BY <1>1 DEF phase, guarded, wanted
<1>3. ASSUME NEW t \in Tagemons,
             \/ Stored(tagemon[t]) = NoObject \/ Stored(tagemon[t]).status.observed = 0
             \/ NoStep(t)
      PROVE  given'[t] = given[t]
  BY <1>1, <1>3 DEF given, GivenTo, NoStep
<1>4. ASSUME \A t \in Tagemons : given'[t] = given[t]
      PROVE  UNCHANGED <<phase, guarded, wanted, given>>
  BY <1>2, <1>4 DEF given
<1>5. ASSUME NEW t \in Tagemons, given'[t] # given[t]
      PROVE  Lifecycle!Step(t)
  <2> DEFINE object == Stored(tagemon[t])
             config == ConfigIn(Stored(configMap[object.status.configMap]))
             newConfig == ConfigIn(Stored(configMap'[object.status.configMap]))
             resources == ResourcesIn(Stored(deployment[object.status.deployment]))
             newResources == ResourcesIn(Stored(deployment'[object.status.deployment]))
  <2>1. object # NoObject /\ object.status.observed # 0 /\ ~NoStep(t)
    BY <1>3, <1>5
  <2>2. object \in Tagemon /\ object.status.observed > 0
    <3>1. object \in Tagemon
      BY <1>0, <2>1, StoredType
    <3> QED
      BY <2>1, <3>1 DEF Tagemon, Status
  <2>3. OwnStep(t)
    BY <2>1, <2>2, GivenSteps
  <2>4. \A s \in Tagemons \ {t} : given'[s] = given[s]
    <3> SUFFICES ASSUME NEW s \in Tagemons \ {t}, given'[s] # given[s]
                 PROVE  FALSE
      OBVIOUS
    <3>1. /\ Stored(tagemon[s]) # NoObject /\ Stored(tagemon[s]).status.observed # 0
          /\ ~NoStep(s)
      BY <1>3
    <3>2. Stored(tagemon[s]) \in Tagemon
      BY <1>0, <3>1, StoredType
    <3>3. Stored(tagemon[s]).status.observed > 0
      BY <3>1, <3>2 DEF Tagemon, Status
    <3>4. OwnStep(s)
      BY <3>1, <3>3, GivenSteps
    <3> QED
      BY <2>3, <3>4 DEF OwnStep
  <2>5. /\ given[t] = [config |-> config, resources |-> resources]
        /\ given'[t] = [config |-> newConfig, resources |-> newResources]
    BY <1>1, <2>1 DEF given, GivenTo
  <2>6. /\ given' = [given EXCEPT ![t] = given'[t]]
        /\ phase[t] = PhaseOf(object)
    BY <2>4 DEF given, phase
  <2>7. ASSUME newResources = resources
        PROVE  given' = [given EXCEPT ![t].config = newConfig]
    <3>1. given'[t] = [given[t] EXCEPT !.config = newConfig]
      BY <2>5, <2>7
    <3> QED
      BY <2>6, <3>1
  <2>8. ASSUME newConfig = config
        PROVE  given' = [given EXCEPT ![t].resources = newResources]
    <3>1. given'[t] = [given[t] EXCEPT !.resources = newResources]
      BY <2>5, <2>8
    <3> QED
      BY <2>6, <3>1
  <2>9. /\ job # NoJob /\ job.name = t /\ job.tagemon.spec \in Specs
        /\ job.tagemon.spec \in asked[t]
        /\ WellCopied(job.at, t, job.tagemon, Recorded(t))
    BY <1>0, <2>3, WorkingCopyType DEF OwnStep, CopyInv, Tagemon, asked
  <2> HIDE DEF config, newConfig, resources, newResources
  <2>10. CASE job.at \in ModifySteps
    <3>1. \/ /\ newResources = resources /\ config # Nothing
             /\ newConfig = generateYACEConfig(job.tagemon.spec)
          \/ /\ newConfig = config /\ resources # Nothing
             /\ newResources = job.tagemon.spec.resources
      BY <2>3, <2>10
         DEF OwnStep, ModifySteps, DeleteSteps, config, newConfig, resources, newResources
    <3>2. ~SettledVersion(object)
      <4> SUFFICES ASSUME SettledVersion(object)
                   PROVE  FALSE
        OBVIOUS
      <4>1. job.tagemon.spec = object.spec
        BY <1>0, <2>9, <2>10 DEF SettledInv
      <4>2. /\ Applied(configMap, deployment, object)
            /\ Recorded(t)
        BY <1>0, ObservedMeans, RecordedStored DEF SettledVersion
      <4>3. /\ Stored(configMap[object.status.configMap]) # NoObject
            /\ Stored(deployment[object.status.deployment]) # NoObject
        BY <1>0, <4>2 DEF OwnsWhatItRecords
      <4>4. config = generateYACEConfig(object.spec) /\ resources = object.spec.resources
        BY <4>2, <4>3 DEF Applied, ConfigIn, ResourcesIn, IsNotFound, config, resources
      <4> QED
        BY <1>5, <2>5, <3>1, <4>1, <4>4
    <3>3. phase[t] \in {"outdated", "leaving"}
      BY <2>1, <2>2, <2>6, <3>2, Phases DEF SettledVersion, RecordedVersion
    <3>4. \/ /\ given[t].config # Nothing
             /\ given' = [given EXCEPT ![t].config = generateYACEConfig(job.tagemon.spec)]
          \/ /\ given[t].resources # Nothing
             /\ given' = [given EXCEPT ![t].resources = job.tagemon.spec.resources]
      BY <2>5, <2>7, <2>8, <3>1
    <3>5. Lifecycle!Adapt(t)
      BY <1>2, <2>9, <3>3, <3>4 DEF Lifecycle!Adapt
    <3> QED
      BY <3>5 DEF Lifecycle!Step
  <2>11. CASE job.at \in DeleteSteps
    <3>1. \/ newResources = resources /\ newConfig = Nothing
          \/ newConfig = config /\ newResources = Nothing
      BY <2>3, <2>11
         DEF OwnStep, ModifySteps, DeleteSteps, config, newConfig, resources, newResources
    <3>2. phase[t] = "leaving"
      BY <2>1, <2>2, <2>6, <2>9, <2>11, Phases DEF WellCopied, Recorded, Live
    <3>3. Lifecycle!Remove(t)
      BY <1>2, <2>7, <2>8, <3>1, <3>2 DEF Lifecycle!Remove
    <3> QED
      BY <3>3 DEF Lifecycle!Step
  <2> QED
    BY <2>3, <2>10, <2>11 DEF OwnStep
<1> QED
  BY <1>4, <1>5

-----------------------------------------------------------------------------
(* The refinement                                                          *)

(* Every step is one of the lifecycle, or none.                            *)
LEMMA NextImplements ==
  ASSUME NamesDiffer, NobodyRemoves, LifecycleInv, [Next]_vars
  PROVE  Lifecycle!Next
<1>1. TypeOK /\ TagemonInv
  BY DEF LifecycleInv, PromisesInv, ResourcesInv, TagemonInv, IndInv
<1>2. Lifecycle!Remembers
  BY RemembersAsked
<1>3. \/ \E t \in Tagemons : Lifecycle!Step(t)
      \/ UNCHANGED <<phase, guarded, wanted, given>>
  <2>1. CASE TagemonsStay
    BY <2>1, ResourceSteps
  <2>2. CASE HandlerWrites
    <3>1. job.name \in Tagemons
      BY <1>1, <2>2, WorkingCopyType DEF HandlerWrites
    <3> QED
      BY <2>2, <3>1, HandlerWritesStep
  <2>3. ASSUME NEW t \in Tagemons, UserWrites(t)
        PROVE  \/ \E s \in Tagemons : Lifecycle!Step(s)
               \/ UNCHANGED <<phase, guarded, wanted, given>>
    BY <1>1, <2>3, UserSteps
  <2> QED
    BY <1>1, <2>1, <2>2, <2>3, NextWrites
<1> QED
  BY <1>2, <1>3 DEF Lifecycle!Next

(* As long as no handler goes on because an old read of a ConfigMap or a   *)
(* Deployment told it that there was nothing to do, Tagemons have names of *)
(* their own and nobody deletes a ConfigMap or a Deployment by hand, the   *)
(* reconciler implements the life of a Tagemon: it serves it all it wants, *)
(* follows only specs that were asked for, reports as observed only what   *)
(* it has, and lets a Tagemon with its finalizer go only with nothing      *)
(* left, whatever fails, conflicts, lags or is edited between the calls of *)
(* its handlers.                                                           *)
THEOREM Refinement ==
  ASSUME NamesDiffer, NobodyRemoves
  PROVE  Spec /\ [][UpdatesNotMisled]_vars /\ [][DeletionsNotMisled]_vars
           => ImplementsLifecycle
<1>1. Init => Lifecycle!Init
  <2> SUFFICES ASSUME Init
               PROVE  Lifecycle!Init
    OBVIOUS
  <2>1. \A t \in Tagemons : Stored(tagemon[t]) = NoObject /\ Range(tagemon[t]) = {NoObject}
    BY DEF Init, Stored, Range
  <2>2. job = NoJob
    BY DEF Init
  <2> QED
    BY <2>1, <2>2
       DEF Lifecycle!Init, Lifecycle!NothingGiven, phase, guarded, wanted, asked, given,
           PhaseOf, WantedBy, GivenTo
<1>2. LifecycleInv /\ [Next]_vars => Lifecycle!Next
  BY NextImplements
<1>3. Spec /\ [][UpdatesNotMisled]_vars /\ [][DeletionsNotMisled]_vars => []LifecycleInv
  BY LifecycleInvariance
<1> QED
  BY <1>1, <1>2, <1>3, PTL DEF Spec, ImplementsLifecycle, Lifecycle!Spec
===============================================================================
