------------------------------ MODULE TagMetrics ------------------------------
(***************************************************************************)
(* What a compliance check of src/internal/tagshandler/handler.go exports: *)
(* the values of threshold tags and the counts of resources that do not    *)
(* comply.  The gauges are those of this check alone; TagsHandler models   *)
(* what checks make of the gauges of others.                               *)
(***************************************************************************)
EXTENDS TagPolicy, FiniteSets

CONSTANTS
  MetricNames, MetricOf,  \* tagToMetricName: several keys may have one metric
  NameKeys,               \* "Name" and its three stand-ins, in this order
  Empty,                  \* the tag value ""
  True,                   \* the tag value "true"
  NoNumber, NumberOf,     \* strconv.ParseFloat
  CustomLabels,           \* nonCompliantMetricCustomLabels
  Inventories             \* what there may be in AWS

ASSUME TagMetricsAssumption ==
  /\ MetricOf \in [Keys -> MetricNames]
  /\ NameKeys \in Seq(Keys)
  /\ {Empty, True} \subseteq Values
  /\ NumberOf \in [Values -> Nat \cup {NoNumber}]
  /\ NoNumber \notin Nat /\ NumberOf[Empty] = NoNumber
  /\ Inventories \subseteq SUBSET Resources
  /\ \A inventory \in Inventories : IsFiniteSet(inventory)

VARIABLES
  results,     \* the patrol's results at the last check
  thresholds,  \* the exported series of threshold tags
  counts       \* the exported series of tagemon_resources_non_compliant_count

metricVars == <<vars, results, thresholds, counts>>

-----------------------------------------------------------------------------
(* thresholdTagsMap of buildTagPolicy: the type of a tag, by service.      *)

NoTypes == [s \in Services |-> [k \in Keys |-> NoType]]

(* Mutant of AddTypes: what other Tagemons said of the service is lost.    *)
AddTypesAnew(types, spec) ==
  [types EXCEPT ![ServiceType(spec)] = TypesOf(spec, PolicyTypes)]

AddTypes(types, spec) ==
  LET added == TypesOf(spec, PolicyTypes)
  IN [types EXCEPT ![ServiceType(spec)] =
        [k \in Keys |-> IF added[k] # NoType THEN added[k] ELSE @[k]]]

thresholdTagsMap(list) == FoldLeft(AddTypes, NoTypes, list)

-----------------------------------------------------------------------------
(* createMetricsForResource                                                *)

HasValue(resource, key) == resource.tags[key] \notin {NoTag, Empty}

extractResourceName(resource) ==
  LET named == SelectSeq(NameKeys, LAMBDA k : HasValue(resource, k))
  IN IF named = <<>> THEN resource.id ELSE resource.tags[Head(named)]

(* The labels of a resource: name, account and type, and the exported tags *)
(* in their one order, "" for a tag it does not have.                      *)
LabelsOf(exported, resource) ==
  [name |-> extractResourceName(resource),
   account |-> resource.account,
   type |-> <<resource.service, resource.type>>,
   tags |-> [i \in DOMAIN exported |->
               IF resource.tags[exported[i]] = NoTag THEN Empty
               ELSE resource.tags[exported[i]]]]

(* A value that is no number is not exported.                              *)
ReadAs(type, value) ==
  IF type = "bool" THEN IF value = True THEN 1 ELSE 0
  ELSE NumberOf[value]

Series(exported, key, resource) ==
  [metric |-> MetricOf[key], labels |-> LabelsOf(exported, resource)]

createMetricsForResource(types, exported, resource) ==
  LET set == {key \in Keys : /\ types[key] # NoType
                             /\ HasValue(resource, key)
                             /\ ReadAs(types[key], resource.tags[key]) # NoNumber}
  IN {<<Series(exported, key, resource), ReadAs(types[key], resource.tags[key])>> : key \in set}

(* Mutant of ResetThresholds: resetAllThresholdMetrics is not called.      *)
KeepThresholds == {<<series, thresholds[series]>> : series \in DOMAIN thresholds}

ResetThresholds == {}

Writes(types, exported, patrolled) ==
  ResetThresholds \cup
    UNION {createMetricsForResource(types[r.service], exported, r) : r \in Compliant(patrolled)}

(* A series set twice keeps the last value: of two resources with the same *)
(* labels, or two keys with the same metric, AWS and the iteration over a  *)
(* map decide which that is.                                               *)
SetSeries(writes) ==
  LET set == {w[1] : w \in writes}
      valuesOf(series) == {w[2] : w \in {x \in writes : x[1] = series}}
      contested == {series \in set : Cardinality(valuesOf(series)) > 1}
  IN \E last \in [contested -> {w[2] : w \in writes}] :
       /\ \A series \in contested : last[series] \in valuesOf(series)
       /\ thresholds' = [series \in set |->
                           IF series \in contested THEN last[series]
                           ELSE CHOOSE value \in valuesOf(series) : TRUE]

SetThresholds(list, patrolled) ==
  \E types \in {thresholdTagsMap(list)}, exported \in extractExportedTagsOnMetrics(list) :
    \E writes \in {Writes(types, exported, patrolled)} : SetSeries(writes)

-----------------------------------------------------------------------------
(* updateNonCompliantMetrics                                               *)

TypeAndAccount(resource) ==
  [type |-> <<resource.service, resource.type>>, account |-> resource.account]

(* Mutant of allResourceTypes: those with a resource that does not comply. *)
violatedResourceTypes(patrolled) ==
  {TypeAndAccount(result.resource) : result \in {x \in patrolled : ~x.isCompliant}}

allResourceTypes(patrolled) == {TypeAndAccount(result.resource) : result \in patrolled}

(* A resource that two policies find is counted by each it violates.       *)
nonCompliantCount(patrolled, series) ==
  Cardinality({result \in patrolled : ~result.isCompliant /\ TypeAndAccount(result.resource) = series})

(* The names of the custom labels were appended in one iteration over the  *)
(* map, the values of each series in another: in any two orders.           *)
Custom ==
  LET labels == DOMAIN CustomLabels
  IN {[label \in labels |-> CustomLabels[order[label]]] : order \in Bijection(labels, labels)}

updateNonCompliantMetrics(patrolled) ==
  LET set == allResourceTypes(patrolled)
  IN \E custom \in [set -> Custom] :
       counts' = [series \in set |->
         [value |-> nonCompliantCount(patrolled, series), custom |-> custom[series]]]

-----------------------------------------------------------------------------
NoMetrics == [series \in {} |-> 0]

MetricsInit == Init /\ results = {} /\ thresholds = NoMetrics /\ counts = NoMetrics

(* CheckCompliance returns early when there is no Tagemon.                 *)
Check ==
  \E list \in Listings :
    /\ CheckCompliance(list)
    /\ \/ list = <<>> /\ UNCHANGED <<results, thresholds, counts>>
       \/ /\ list # <<>>
          /\ \E patrolled \in {Results(list, inventory) : inventory \in Inventories} :
               /\ results' = patrolled
               /\ SetThresholds(list, patrolled)
               /\ updateNonCompliantMetrics(patrolled)

Users ==
  /\ \E n \in Names : Create(n) \/ Edit(n) \/ Delete(n)
  /\ UNCHANGED <<results, thresholds, counts>>

MetricsNext == Users \/ Check

MetricsSpec == MetricsInit /\ [][MetricsNext]_metricVars

-----------------------------------------------------------------------------
(* Properties                                                              *)

(* The threshold tags the listed Tagemons of a service declare.            *)
Declared(service) ==
  UNION {ToSet(listed[i].thresholdTags) : i \in About(listed, service)}

(* What a series may say: what declared tags of compliant resources with   *)
(* these labels and this metric are read as.                               *)
Readings(exported, series) ==
  LET ReadingsOf(resource) ==
        {ReadAs(tag.type, resource.tags[tag.key]) :
           tag \in {t \in Declared(resource.service) :
                      HasValue(resource, t.key) /\ Series(exported, t.key, resource) = series}}
  IN (UNION {ReadingsOf(resource) : resource \in Compliant(results)}) \ {NoNumber}

(* The threshold a Tagemon declares is exported for every resource of its  *)
(* service that complies and has the tag with what the Tagemons, however   *)
(* they declare it, read as a number; and what is exported is a reading of *)
(* a compliant resource with these labels: the resource's own if labels,   *)
(* metric and type are, as they need not be, of this resource and tag only.*)
ThresholdsAreExported ==
  \A exported \in extractExportedTagsOnMetrics(listed) :
    \A resource \in Compliant(results) : \A tag \in Declared(resource.service) :
      LET series == Series(exported, tag.key, resource)
      IN /\ HasValue(resource, tag.key)
         /\ \A other \in Declared(resource.service) :
              other.key = tag.key => ReadAs(other.type, resource.tags[tag.key]) # NoNumber
         => series \in DOMAIN thresholds /\ thresholds[series] \in Readings(exported, series)

(* A threshold is exported only for a resource that was there at the last  *)
(* check and complied: alerts on others do not linger.  Without Tagemons   *)
(* they do: the check returns before it resets anything.                   *)
ThresholdsOnlyOfCompliant ==
  \A exported \in extractExportedTagsOnMetrics(listed) :
    LET labels == {LabelsOf(exported, r) : r \in Compliant(results)}
    IN listed # <<>> => \A series \in DOMAIN thresholds : series.labels \in labels

(* Every type and account with reported resources, and no other, has a     *)
(* count: the number of its resources that do not comply, 0 if all do.  A  *)
(* policy for all types of the service counts a resource a second time, so *)
(* with one the number may be up to twice as high.                         *)
CountsOfEveryType ==
  LET policy == buildTagPolicy(listed)
      reported == Reported(results)
      violating == Reported({result \in results : ~result.isCompliant})
  IN /\ DOMAIN counts = {TypeAndAccount(r) : r \in reported}
     /\ \A resource \in reported :
          LET its == TypeAndAccount(resource)
              number == Cardinality({r \in violating : TypeAndAccount(r) = its})
          IN /\ number <= counts[its].value /\ counts[its].value <= 2 * number
             /\ listed # <<>> /\ AllTypes \notin policy.resources[resource.service] =>
                  counts[its].value = number

(* The custom labels of every count have the values they are configured    *)
(* with.                                                                   *)
CountsCarryCustomLabels ==
  \A series \in DOMAIN counts : counts[series].custom = CustomLabels
===============================================================================
