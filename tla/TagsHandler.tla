------------------------------ MODULE TagsHandler ------------------------------
(***************************************************************************)
(* The compliance checks of src/internal/tagshandler/handler.go.  A check  *)
(* lists the Tagemons, asks AWS Resource Explorer for the resources they   *)
(* are about, and writes what it found to Prometheus gauges.  The scheduler*)
(* runs one check after another; the reconciler starts one more with every *)
(* Tagemon it creates or modifies, in a goroutine of its own.  All share   *)
(* the Handler's two maps of gauges and the registry, without a lock.      *)
(*                                                                         *)
(* What a check finds is a set of samples, given by the Tagemons it listed *)
(* and the state of the AWS accounts (buildTagPolicy, the patrol and       *)
(* processResults are the constant Findings).                              *)
(***************************************************************************)
EXTENDS Naturals, FiniteSets

CONSTANTS
  Scheduler,      \* the scheduler's checks
  Triggers,       \* goroutines the reconciler may have running
  Views,          \* what a list of Tagemons may contain
  NoTagemons,     \* the empty list
  Inventories,    \* states of the AWS accounts
  NonCompliant,   \* tagemon_resources_non_compliant_count
  Thresholds,     \* the metrics of threshold tags
  Samples,        \* [metric, series, value] a gauge may hold
  Findings,       \* the samples for a list and an inventory
  LabelsOf,       \* the tag labels a list asks for
  CountLabels,    \* the labels of the count, which no list has a say in
  Unregistered, NoView, NoSample,
  MaxTriggers,    \* bound on Tagemons created or modified
  MaxChanges,     \* bound on changes of the Tagemons or of AWS
  MaxFailures     \* bound on patrols that fail, in part or altogether

Checks == {Scheduler} \cup Triggers

Metrics == Thresholds \cup {NonCompliant}

ASSUME TagsHandlerAssumption ==
  /\ Scheduler \notin Triggers
  /\ NoTagemons \notin Views
  /\ NoView \notin Views
  /\ NonCompliant \notin Thresholds
  /\ \A sample \in Samples : sample.metric \in Metrics
  /\ NoSample \notin Samples
  /\ Findings \in [Views \X Inventories -> SUBSET Samples]
  /\ \A view \in Views : IsFiniteSet(LabelsOf[view])
  /\ \A view \in Views : LabelsOf[view] # Unregistered
  /\ CountLabels # Unregistered
  /\ {MaxTriggers, MaxChanges, MaxFailures} \subseteq Nat

VARIABLES
  tagemons,    \* what a list returns
  inventory,   \* what AWS returns
  registry,    \* the labels each metric is registered with
  gauges,      \* the metrics in the Handler's maps
  exported,    \* the samples the gauges hold
  check,       \* the checks that run
  spent        \* what was used up of the bounds

vars == <<tagemons, inventory, registry, gauges, exported, check, spent>>

world == <<tagemons, inventory>>

Steps == {"idle", "list", "patrol", "reset", "thresholds", "register", "store",
          "counts", "registerCounts", "storeCounts", "resetCounts", "setCounts"}

(* A check: the list it works from, the samples still to set, and the one  *)
(* whose metric it is registering.                                         *)
Check == [at: Steps, view: Views \cup {NoView}, todo: SUBSET Samples,
          sample: Samples \cup {NoSample}]

Idle == [at |-> "idle", view |-> NoView, todo |-> {}, sample |-> NoSample]

Labels == {LabelsOf[view] : view \in Views} \cup {CountLabels}

Init ==
  /\ tagemons = NoTagemons
  /\ inventory \in Inventories
  /\ registry = [metric \in Metrics |-> Unregistered]
  /\ gauges = {}
  /\ exported = {}
  /\ check = [c \in Checks |-> Idle]
  /\ spent = [triggers |-> 0, changes |-> 0, failures |-> 0]

At(c, step) == check[c].at = step

GoTo(c, next) == check' = [check EXCEPT ![c] = next]

Spend(what, bound) == /\ spent[what] < bound
                      /\ spent' = [spent EXCEPT ![what] = @ + 1]

(* A panic in any goroutine, or a fatal error of the runtime, ends the     *)
(* process; the next one starts with nothing registered.                   *)
Panic ==
  /\ registry' = [metric \in Metrics |-> Unregistered]
  /\ gauges' = {}
  /\ exported' = {}
  /\ check' = [c \in Checks |-> Idle]
  /\ UNCHANGED <<world, spent>>

-----------------------------------------------------------------------------
(* CheckCompliance                                                         *)

(* The scheduler starts with a check and goes on at every tick.            *)
Tick ==
  /\ At(Scheduler, "idle")
  /\ GoTo(Scheduler, [Idle EXCEPT !.at = "list"])
  /\ UNCHANGED <<world, registry, gauges, exported, spent>>

(* handleCreate and handleModify end with a check in a goroutine.          *)
Trigger(c) ==
  /\ At(c, "idle")
  /\ Spend("triggers", MaxTriggers)
  /\ GoTo(c, [Idle EXCEPT !.at = "list"])
  /\ UNCHANGED <<world, registry, gauges, exported>>

(* Mutant of List: without Tagemons a check goes on as with any list.      *)
ListAnyway(c) ==
  /\ At(c, "list")
  /\ GoTo(c, [check[c] EXCEPT !.at = "patrol", !.view = tagemons])
  /\ UNCHANGED <<world, registry, gauges, exported, spent>>

(* Without Tagemons a check ends before it resets anything.                *)
List(c) ==
  /\ At(c, "list")
  /\ GoTo(c, IF tagemons = NoTagemons THEN Idle
             ELSE [check[c] EXCEPT !.at = "patrol", !.view = tagemons])
  /\ UNCHANGED <<world, registry, gauges, exported, spent>>

Patrolled(c, found) ==
  /\ GoTo(c, [check[c] EXCEPT !.at = "reset", !.todo = found])
  /\ UNCHANGED <<world, registry, gauges, exported>>

(* The AWS calls answer for all services, for some (StopOnError: false) or *)
(* for none, which ends the check.                                         *)
Patrol(c) ==
  /\ At(c, "patrol")
  /\ LET found == Findings[check[c].view, inventory]
     IN \/ Patrolled(c, found) /\ UNCHANGED spent
        \/ /\ Spend("failures", MaxFailures)
           /\ \/ \E some \in SUBSET found : Patrolled(c, some)
              \/ /\ GoTo(c, Idle)
                 /\ UNCHANGED <<world, registry, gauges, exported>>

Without(metrics) == {sample \in exported : sample.metric \notin metrics}

(* Mutant of ResetMetrics: only the series found again are overwritten.    *)
ResetNothing(metrics) == exported

ResetMetrics(metrics) == Without(metrics)

(* resetAllThresholdMetrics                                                *)
Reset(c) ==
  /\ At(c, "reset")
  /\ exported' = ResetMetrics(gauges \cap Thresholds)
  /\ GoTo(c, [check[c] EXCEPT !.at = "thresholds"])
  /\ UNCHANGED <<world, registry, gauges, spent>>

Same(s1, s2) == s1.metric = s2.metric /\ s1.series = s2.series

With(sample) == {s \in exported : ~Same(s, sample)} \cup {sample}

ThresholdsTodo(c) == {s \in check[c].todo : s.metric \in Thresholds}

(* createMetricsForResource, one tag of one resource: a gauge in the map   *)
(* is used as it was registered, and WithLabelValues panics when the       *)
(* number of labels differs.                                               *)
SetThreshold(c) ==
  /\ At(c, "thresholds")
  /\ \E sample \in ThresholdsTodo(c) :
       /\ sample.metric \in gauges
       /\ IF Cardinality(registry[sample.metric]) = Cardinality(LabelsOf[check[c].view])
          THEN /\ exported' = With(sample)
               /\ GoTo(c, [check[c] EXCEPT !.todo = @ \ {sample}])
               /\ UNCHANGED <<world, registry, gauges, spent>>
          ELSE Panic

(* getOrCreateMetric finds no gauge and makes one.                         *)
MissThreshold(c) ==
  /\ At(c, "thresholds")
  /\ \E sample \in ThresholdsTodo(c) :
       /\ sample.metric \notin gauges
       /\ GoTo(c, [check[c] EXCEPT !.at = "register", !.sample = sample,
                                   !.todo = @ \ {sample}])
  /\ UNCHANGED <<world, registry, gauges, exported, spent>>

(* Registering it fails when another check was faster, and the value is    *)
(* left out.                                                               *)
RegisterThreshold(c) ==
  /\ At(c, "register")
  /\ LET metric == check[c].sample.metric
     IN IF registry[metric] = Unregistered
        THEN /\ registry' = [registry EXCEPT ![metric] = LabelsOf[check[c].view]]
             /\ GoTo(c, [check[c] EXCEPT !.at = "store"])
        ELSE /\ GoTo(c, [check[c] EXCEPT !.at = "thresholds", !.sample = NoSample])
             /\ UNCHANGED registry
  /\ UNCHANGED <<world, gauges, exported, spent>>

(* Go ends the process when it notices that a map is written while another *)
(* goroutine uses it; it need not notice.                                  *)
Races(c, steps) == \E other \in Checks \ {c} : check[other].at \in steps

(* Mutant of Stored: the gauge is returned but not kept.                   *)
NotStored(metric) == gauges

Stored(metric) == gauges \cup {metric}

StoreThreshold(c) ==
  /\ At(c, "store")
  /\ \/ /\ gauges' = Stored(check[c].sample.metric)
        /\ exported' = With(check[c].sample)
        /\ GoTo(c, [check[c] EXCEPT !.at = "thresholds", !.sample = NoSample])
        /\ UNCHANGED <<world, registry, spent>>
     \/ Races(c, {"reset", "thresholds", "store"}) /\ Panic

EndThresholds(c) ==
  /\ At(c, "thresholds")
  /\ ThresholdsTodo(c) = {}
  /\ GoTo(c, [check[c] EXCEPT !.at = "counts"])
  /\ UNCHANGED <<world, registry, gauges, exported, spent>>

(* updateNonCompliantMetrics, getOrCreateNonCompliantMetric                *)
LookUpCounts(c) ==
  /\ At(c, "counts")
  /\ GoTo(c, [check[c] EXCEPT
                !.at = IF NonCompliant \in gauges THEN "resetCounts"
                       ELSE "registerCounts"])
  /\ UNCHANGED <<world, registry, gauges, exported, spent>>

(* MustRegister panics when another check was faster.                      *)
RegisterCounts(c) ==
  /\ At(c, "registerCounts")
  /\ IF registry[NonCompliant] = Unregistered
     THEN /\ registry' = [registry EXCEPT ![NonCompliant] = CountLabels]
          /\ GoTo(c, [check[c] EXCEPT !.at = "storeCounts"])
          /\ UNCHANGED <<world, gauges, exported, spent>>
     ELSE Panic

StoreCounts(c) ==
  /\ At(c, "storeCounts")
  /\ \/ /\ gauges' = Stored(NonCompliant)
        /\ GoTo(c, [check[c] EXCEPT !.at = "resetCounts"])
        /\ UNCHANGED <<world, registry, exported, spent>>
     \/ Races(c, {"counts", "storeCounts"}) /\ Panic

ResetCounts(c) ==
  /\ At(c, "resetCounts")
  /\ exported' = ResetMetrics({NonCompliant})
  /\ GoTo(c, [check[c] EXCEPT !.at = "setCounts"])
  /\ UNCHANGED <<world, registry, gauges, spent>>

SetCount(c) ==
  /\ At(c, "setCounts")
  /\ \E sample \in check[c].todo :
       /\ exported' = With(sample)
       /\ GoTo(c, [check[c] EXCEPT !.todo = @ \ {sample}])
  /\ UNCHANGED <<world, registry, gauges, spent>>

End(c) ==
  /\ At(c, "setCounts")
  /\ check[c].todo = {}
  /\ GoTo(c, Idle)
  /\ UNCHANGED <<world, registry, gauges, exported, spent>>

Step(c) ==
  \/ List(c) \/ Patrol(c) \/ Reset(c)
  \/ SetThreshold(c) \/ MissThreshold(c) \/ RegisterThreshold(c)
  \/ StoreThreshold(c) \/ EndThresholds(c)
  \/ LookUpCounts(c) \/ RegisterCounts(c) \/ StoreCounts(c)
  \/ ResetCounts(c) \/ SetCount(c) \/ End(c)

-----------------------------------------------------------------------------
(* Users change Tagemons, and AWS resources come, go and are tagged.       *)
ChangeTagemons ==
  /\ Spend("changes", MaxChanges)
  /\ tagemons' \in (Views \cup {NoTagemons}) \ {tagemons}
  /\ UNCHANGED <<inventory, registry, gauges, exported, check>>

ChangeInventory ==
  /\ Spend("changes", MaxChanges)
  /\ inventory' \in Inventories \ {inventory}
  /\ UNCHANGED <<tagemons, registry, gauges, exported, check>>

Next ==
  \/ Tick
  \/ \E c \in Triggers : Trigger(c)
  \/ \E c \in Checks : Step(c)
  \/ ChangeTagemons \/ ChangeInventory

Spec == Init /\ [][Next]_vars

(* The ticker ticks, and a goroutine that can run does.                    *)
Fairness == WF_vars(Tick) /\ \A c \in Checks : WF_vars(Step(c))

FairSpec == Spec /\ Fairness

-----------------------------------------------------------------------------
(* Properties                                                              *)

(* Every variable has its type: a check that is under way has a list to    *)
(* work from, one that registers a metric has the sample of the metric,    *)
(* and only threshold metrics are registered one sample at a time.         *)
TypeOK ==
  /\ tagemons \in Views \cup {NoTagemons}
  /\ inventory \in Inventories
  /\ registry \in [Metrics -> Labels \cup {Unregistered}]
  /\ gauges \subseteq Metrics
  /\ exported \subseteq Samples
  /\ check \in [Checks -> Check]
  /\ \A c \in Checks :
       /\ check[c].view = NoView <=> check[c].at \in {"idle", "list"}
       /\ check[c].sample \in Samples <=> check[c].at \in {"register", "store"}
       /\ check[c].sample \in Samples => check[c].sample.metric \in Thresholds
  /\ spent \in [{"triggers", "changes", "failures"} -> Nat]

Storing(c) == IF At(c, "store") THEN {check[c].sample.metric}
              ELSE IF At(c, "storeCounts") THEN {NonCompliant} ELSE {}

(* A metric that is registered is in the Handler's maps, or the one check  *)
(* that registered it is about to store it.  Otherwise no check could ever *)
(* set it again: it is not found in the maps and cannot be registered      *)
(* twice (getOrCreateMetric, getOrCreateNonCompliantMetric).               *)
RegisteredIsStored ==
  \A metric \in Metrics :
    registry[metric] # Unregistered <=>
      \/ metric \in gauges
      \/ \E c \in Checks : metric \in Storing(c)

(* What is exported is what the Tagemons that exist now ask for, under the *)
(* labels they ask for.                                                    *)
Matches ==
  /\ tagemons # NoTagemons
  /\ exported = Findings[tagemons, inventory]
  /\ \A sample \in exported :
       sample.metric \in Thresholds =>
         registry[sample.metric] = LabelsOf[tagemons]

(* However checks overlap, fail or end the process, the scheduler's checks *)
(* bring the gauges back to what is true, time and again, as long as there *)
(* are Tagemons.                                                           *)
SelfHealing == <>[](tagemons = NoTagemons) \/ []<>Matches

=============================================================================
