# Tagemon in TLA+

Tagemon is a Kubernetes controller. For every `Tagemon` resource it runs a YACE
(CloudWatch exporter) pod, and it checks AWS resources against the tags the
Tagemons ask for. This directory models its controller logic in TLA+, checks it
with TLC and proves its safety properties with TLAPS. `PROJECT.json` maps every definition
to the source lines it stands for.

## 1. Inventory

| Part | State | Operations | Depends on |
|---|---|---|---|
| **YACE Handler** `internal/yacehandler` | none of its own: the status of a Tagemon, a ConfigMap and a Deployment in the API server | `Reconcile`, which chooses `handleCreate`, `handleModify` or `handleDelete` | cached reads, conditional writes, one worker, a work queue |
| **Tags Handler: checks** `internal/tagshandler` | two maps of gauges, the Prometheus registry, the exported samples | `CheckCompliance`, called by `Scheduler.Start` at every tick and by a goroutine after every creation or edit | the cached list of Tagemons, AWS Resource Explorer |
| **Tags Handler: policy** same file | none | `buildTagPolicy`, `extract...`, `isResourceRelevant` | tag-patrol judges a resource by the policy |
| **Config Handler** `internal/confighandler` | a struct read once | `LoadConfig` | a file, environment variables |
| **Process** `cmd/main.go` | the manager, its caches | start, stop on a signal | flags; leader election is off unless asked for |
| **API types** `api/v1alpha1` | - | validation by the CRD | - |
| **Helm chart, CRDs, test utilities** | - | - | - |

How they interact. The manager feeds the work queue of the YACE Handler from a
watch on Tagemons; its reads of Tagemons, ConfigMaps and Deployments are
answered by informer caches that lag behind the API server, its writes go to
the API server and are refused when they carry an old resource version. The
YACE Handler starts compliance checks in goroutines nobody waits for, and these
share the gauges with the scheduler's checks. Pods, which the controller never
looks at, mount the ConfigMap it writes.

What is hard, and what makes each part correct:

* **YACE Handler.** A handler is a sequence of writes that can be interrupted
  between any two, by a conflict, an error, a lost answer or a crash, and is
  then run again from its first line; names of resources are a function of the
  Tagemon's name, so the second run meets what the first made. It should: give
  every Tagemon its resources; own what its status names; apply what it reports
  as observed; make the running pod follow; on deletion end, and leave nothing.
* **Checks.** Look-up, registration and storing of a gauge are separate steps
  without a lock, resets and sets of overlapping checks interleave, and a panic
  ends the process. They should never lose a gauge, and what they export should
  become true again after whatever happened.
* **Policy.** Tagemons are merged into one policy in an order the cache picks.
  What a Tagemon requires should be checked, what it excludes not reported, and
  the order should not show.

`PROJECT.json` lists the hazards one by one, each at its line.

## 2. The modules

| Module | Models | Code |
|---|---|---|
| `ApiObjects` | an object of the API server with the versions that are on their way to a cache | external |
| `YaceHandler` | the reconciler, the API server it writes to, users, failures | `controller.go` |
| `YacePods` | `YaceHandler` and the pods that run its Deployments | `controller.go:224-298`, kubelet |
| `YaceReplicas` | two processes, each a `YaceHandler` with its own cache and queue, on one API server | `main.go:49`, `controller.go` |
| `TagemonLifecycle` | the abstract specification: what the life of a Tagemon is to its user | README of the repository, `controller.go:61-199` |
| `YaceLifecycle` | the refinement mapping from `YaceHandler` to `TagemonLifecycle` | `tagemon_types.go` (status), `controller.go` |
| `TagsHandler` | overlapping compliance checks and the gauges they share | `handler.go:32-123, 330-462, 496-721` |
| `TagPolicy` | what a check makes of the list of Tagemons | `handler.go:125-328`, `processResults` |
| `TagMetrics` | `TagPolicy` and what one check exports: names, labels, values, counts | `handler.go:168, 284-328, 390-436, 496-721` |
| `MC...` | small instances for TLC | |
| `...Proofs` | theorems, section 4 | |

### ApiObjects and YaceHandler

`tagemon`, `configMap` and `deployment` map names to non-empty sequences of
versions: the first is what the cache holds, the last what the API server
stores. `Written` appends, a watch event (`Deliver...`) drops the first. A
Tagemon's event also queues it in `workqueue`. `job` is the worker's handler:
the step it is at, its working copy of the Tagemon, whether that copy is still
the latest version, and whether this run changed the ConfigMap.

Each write of a handler is one action named for the function it stands for:
`createConfigMap`, `createDeployment`, `createStatus` (updateStatus as
handleCreate uses it), `addFinalizer`; `updateConfigMap`, `annotateDeployment`,
`updateDeployment`, `modifyStatus`; `deleteConfigMap`, `deleteDeployment`,
`removeFinalizer`. `Reconcile` is the read and the choice of a handler. A
`Get` and the `Update` based on it are one step: the API server would refuse an
Update of anything but the latest version, so a step in between shows as the
conflict of a cache that lags. An error ends the handler with `Retry` (back to
the queue); where the code drops a conflict, so does the action.

Failures: `CallFails` (no effect, error), the second case of `Answer` (effect,
error) and `Crash` (the process restarts: caches are filled anew, every Tagemon
is queued). Users create, edit, touch and delete Tagemons at any time, and may
delete ConfigMaps and Deployments by hand.

Abstractions. A spec is a record of what handlers tell apart: `query` (all of
the YACE configuration but the length), `interval`, `resources`, and `naming`
(type and name prefix). `BuiltName` stands for `buildResourceName` and is not
assumed injective. YAML is a record. `uuid.New()` returns an id that nothing in
the cluster carries. `restartedAt` counts, and may stand still within a second
(`ClockStands`). ReadsLag = FALSE gives ConfigMaps and Deployments a cache that
is always current, to tell what fails because caches lag from what fails
anyway. RemovedAtAnyTime = FALSE lets users remove a ConfigMap or a Deployment
by hand only while a Tagemon is being deleted. An informer for ConfigMaps starts
with the first read; the model's
caches exist from the start, as they do once one Tagemon was reconciled.

### YacePods

A pod copies the Deployment's template and the ConfigMap as it starts, and
keeps that copy: the file is mounted with `subPath`, which the kubelet does not
refresh. It is replaced when the template changes, and may be at any time.
`missed` is a history variable: it becomes true with the steps that keep an edit
from the pod and that `handleModify` cannot make up for (`Misses`, section 3).

The cached reads that mislead a handler are named in `YaceHandler` itself:
`UpdateMisled` (the cache shows no object, or one that needs no update, while the
stored one does) and `DeletionMisled` (the cache shows none, one is stored).
`UpdatesNotMisled` and `DeletionsNotMisled` say of a step that no handler goes on
because of one; a handler that is misled and fails anyway is not excluded.

### YaceReplicas

The second process is an instance of `YaceHandler` with its own `tagemon2`
(same end, its own delay), `workqueue2` and `job2`; ConfigMaps and Deployments
are shared and read currently. A step of one process appends what it writes to
the other's versions (`Heard`) and makes the other's working copy old
(`Outrun`); each may crash alone. Ids the two draw differ. Both may run
`handleCreate` for one Tagemon, under two names if it is edited in between.

### TagemonLifecycle and YaceLifecycle

The abstract specification knows no cache, queue, version, name or failure. A
Tagemon is `absent`, `new`, `served`, `outdated` or `leaving`; `wanted` is what
its user wants, `given` the configuration and pod resources it has. It is
served with all it wants at once, follows only specs that were `asked` for,
is `served` again only when all is as wanted, and once it is `guarded` it is
gone only after everything given has been taken away. The mapping reads these
off the stored version of the Tagemon and what its status names: all writes of
a creation before the status stutter, `createStatus` is `Serve`, `addFinalizer`
is `Guard`, `updateConfigMap` and `updateDeployment` are `Adapt`,
`modifyStatus` is `Settle`, the deletes are `Remove`, `removeFinalizer` is
`Gone`. `asked` are the specs of the versions that are on their way and of the
working copy: a handler may apply an old spec, but none nobody asked for.

### TagsHandler

`check[c]` is a running check: its step, the list it works from, the samples
still to set. `registry` holds the labels of registered metrics, `gauges` the
metrics in the Handler's maps, `exported` the samples. Actions follow
`CheckCompliance`: `List` (with the early return for an empty list), `Patrol`
(all, some or none of the services answer), `Reset`, then for each sample
`SetThreshold` or `MissThreshold`-`RegisterThreshold`-`StoreThreshold`, then
`LookUpCounts`, `RegisterCounts`, `StoreCounts`, `ResetCounts`, `SetCount`.
`Panic` ends the process: `MustRegister` when two checks overlap,
`WithLabelValues` with another number of labels, and a map written while
another goroutine uses it, which Go may or may not notice. What a patrol finds
is the constant `Findings` of the list and the state of AWS. A threshold metric is
registered with the labels of the list at hand, the count with `CountLabels`,
which come from the configuration.

### TagPolicy and TagMetrics

Operators named for the functions, over lists of Tagemons; `tagemons` is what
users wrote and `listed` is what the last check got, in any order, because the
informer's index is a map. Keys of tags, values and types are members of small
sets; what tag-patrol does with a policy is `IsCompliant` (external: mandatory
keys are there, present ones are valid). As in the code a policy has two parts:
`blueprints`, the rules by name, and `resources`, the types of each service that
refer to one. `BlueprintOf` is the join `service-type-base`; since services and
types may hold a "-" themselves, two services may come to one name, and the last
Tagemon's rules then stand for both. `extractExportedTagsOnMetrics` is the set of
the lists the code may return, for any order in which Go iterates over the map of
keys; that `sort.Strings` leaves one is a theorem, not part of the definition.

`TagMetrics` goes on to what the check exports. `thresholdTagsMap` holds the
type of each threshold tag by service and key, not by resource type;
`MetricOf` is `tagToMetricName`, which may give two keys one metric;
`NumberOf` is `strconv.ParseFloat`; `LabelsOf` are the labels of a series, with
`extractResourceName`'s search through the stand-ins for a name. A series that
is set twice in a check keeps the last value, and which one is last depends on
the order of AWS and of a Go map, so the model allows each. The names of custom
labels come from one iteration over a map, their values from another: `Custom`
pairs them in any two orders, as the code does.

## 3. What the runs check

All bounds are constants with a name (`Max...`); counters are in `spent`.
The YACE runs set CHECK_DEADLOCK FALSE: when users have spent their bounds the
reconciler rightly has nothing to do.

| Run | Bounds | Shows |
|---|---|---|
| `yace_safety` | 1 Tagemon created twice, 2 names, 3 ids, generation 2, 1 touch and 1 fault, or 1 removal by hand during a deletion (`RemovedOnly`), lagging caches | `OwnsWhatItRecords`, `RecordedBeforeFinalizer`, `RestartsFollowEdits` |
| `yace_promises` | generation 3, created twice, 1 fault, lagging caches, no misled step (`NotMisledSpec`) | `ObservedMeansApplied`, `DeletionLeavesNothing`, and that `YaceHandler` implements `TagemonLifecycle` (`ImplementsLifecycle`) |
| `pods_effect` | generation 3, created once, 1 fault, 1 removal by hand, lagging caches, a clock that may stand still, fair | `SpecTakesEffect`, `DeletionCompletes` |
| `two_replicas` | two processes, 2 names, 3 ids; 1 Tagemon, either of generation 2 with 1 fault (a failed call or the crash of one process) or created twice; current reads of resources, fair | `RecordIsFinal`, `RecordedBeforeFinalizer`, `DeletionCompletes` |
| `tags_checks` | scheduler and 1 goroutine started up to twice, 3 changes, 1 failed patrol, fair | `RegisteredIsStored`, `SelfHealing` |
| `tag_policy` | 2 Tagemons, 9 specs, 2 services with one blueprint name in common, 4 keys, 2 resource types and "*", 4 inventories | four properties of `TagPolicy`, three of `TagMetrics` |

Why this is enough to be interesting: two generations are what a stale copy
needs; being created twice under one name is what leftover resources need; one
fault can fall between any two steps, and the retry after it runs the handler
again in full; two names let an edit of the naming fields change the name
between two attempts. A second Tagemon adds little, since nothing but names and
the worker is shared; the theorems below hold for any number. In `tags_checks`
two checks overlap at every pair of steps, and the views differ in the number
of exported tags, so that a cached gauge panics and is registered anew. In
`tag_policy` two Tagemons suffice for one to come before or after another; the
specs have Tagemons of one and of two services, that agree and disagree on a
tag, two keys with one metric, threshold tags for "*", and resource types of two
services whose blueprints have one name; the inventories have resources that comply
and do not, share their labels, lack a name, or have values of the wrong type.

`two_replicas` reads ConfigMaps and Deployments currently: with lagging caches
and a fault its state space is infinite, since two processes can take turns in
making each other's queue and caches longer. In one behaviour a Tagemon is edited
while calls fail, or deleted and created again, not both (`OneTrouble`): the full
product is too large for a run. The runs that check liveness cannot use TLC's
symmetry, so the MC modules have it as constraints on steps that lose nothing:
the two queries are alike, so a Tagemon is created with the first
(`FirstCreatedWith`), and a new id is the first that nothing holds
(`TakesFirstId`). `yace_safety` and `pods_effect` have removals by hand only while
a Tagemon is being deleted (RemovedAtAnyTime = FALSE): of a live one nothing is
promised after them, since the reconciler does not make a removed object again.
The theorems hold for either value.

Conditions in properties, and what they leave out:

* `yace_promises` leaves out the behaviours in which a handler goes on because of
  a misleading read (`controller.go:331`, `367`, `455`, `486`). In these the
  properties fail: `deletion_leaves_config_map` shows one.
* `SpecTakesEffect` claims nothing after `missed`: an update that a misleading
  read drops; a ConfigMap update whose restart gets lost because its answer is
  lost, the annotation fails, conflicts or finds no Deployment, or the process
  ends in between (the retry sees no change); a restart within the second of the
  last one; a removal by hand. Each really keeps the edit from the pod. A failed
  call, crash, conflict or lag anywhere else does not, which is what it says.
* `OrderDoesNotShow` claims the same verdicts only where Tagemons with different
  rules ask for different blueprints (`EachItsBlueprint`); `required_tags_of_two`
  shows what happens otherwise. Labels it claims in every case.
* `CompliantMeetsTheOnlyTagemon` speaks of blueprint names one Tagemon alone has
  rules for.
* `ThresholdsAreExported` has no condition on labels or metrics: where resources
  or keys share a series it says that the value is a reading of one of them. It
  claims a series where all who declare the tag read the value as a number, since
  the last in the list decides.
* `CountsOfEveryType` is exact for services without a policy for all types, and a
  bound (up to twice the number) for the others.
* `ThresholdsOnlyOfCompliant` and `SelfHealing` speak of the time while there are
  Tagemons: without any, a check returns before it resets the gauges.

Runs that find a violation, each of a promise of the documentation or a test:

| Run | What the code does |
|---|---|
| `deletion_leaves_config_map` | `handleDelete` takes a cached NotFound for "already deleted" and orphans the ConfigMap |
| `interval_not_applied` | `scrapingInterval` never reaches the arguments of an existing Deployment |
| `edit_during_creation` | an edit while the creation runs makes every later attempt fail with AlreadyExists: the dropped requeue of `updateStatus`, then `createConfigMap` on its own leftovers |
| `exported_tags_change` | after one exported tag is replaced by another, values appear under the old label's name until a restart |
| `custom_labels` | with two custom labels, a count carries the value of each under the name of the other |
| `required_tags_of_two` | of two Tagemons (of three, 5 specs) on one service and resource type only the last listed is enforced |

Other restrictions that matter, seen by changing one constant: `OwnsWhatItRecords`
fails with two Tagemons, `BuiltName <- Colliding` and one fault (one deletes what
the other owns); `RecordedGetsFinalizer` fails with one touch between status and
finalizer. With two processes `ObservedMeansApplied` and `RestartsFollowEdits`
fail with two edits; `OwnsWhatItRecords` fails when a Tagemon is created again (a
process that still sees the deleted one removes, by name, what the other's
creation has made); and `DeletionLeavesNothing` fails (a process whose cache
still shows the new Tagemon creates its ConfigMap again after the other has
deleted it). What `two_replicas` shows is as far as it goes without leader
election.

### Fairness

`YaceHandler!Fairness`: WF on the handler's steps, since client-go calls return
and the worker goes on; WF on watch events; SF on `Reconcile(t)`, since the
work queue is first in first out and a Tagemon put in it is served although the
single worker is busy again and again with others. Nothing is assumed of users,
nor that failures stop other than by their bound, which stands for "rarely
enough". `YaceReplicas` assumes the same of each process. `YacePods` adds WF
for the Deployment controller, and none for pods dying. `TagsHandler`: WF on
the ticker and on every goroutine's steps (AWS calls return or fail).

## 4. What is proved

TLAPS checks these for every value of the constants (any number of Tagemons,
names, ids, checks, tags, and any bounds), from the named assumptions of the
modules and, for some, hypotheses named in the theorem:

* `NamesDiffer`: two Tagemons never have one name, whatever their naming
  fields. Without it one Tagemon's deletion takes away what another owns.
* `NobodyRemoves` (MaxRemovals = 0): ConfigMaps and Deployments are not deleted
  by hand. The reconciler does not make them again.
* No misled step: `[][UpdatesNotMisled]_vars` and `[][DeletionsNotMisled]_vars`.
  Reads of ConfigMaps and Deployments are answered by informer caches, which lag;
  what is excluded is only that a handler goes on from such a step. With one, the
  properties are false (`deletion_leaves_config_map`).

The reconciler's theorems are one ladder of inductive invariants, each using the
one before:

| Module | Inductive invariant | Theorem | Hypotheses |
|---|---|---|---|
| `YaceHandlerProofs` | `IndInv`: types, `WorkingCopyInv` | `TypeCorrect`, `FinalizerAfterRecord` | none |
| `YaceTagemonProofs` | `TagemonInv`: `VersionsInv`, `NoRevivalInv`, `CopyInv`, `CurrentInv` | `TagemonInvariance` | none |
| `YaceResourcesProofs` | `ResourcesInv`: `CreatedInv`, `OwnsWhatItRecords` | `Ownership` | `NamesDiffer`, `NobodyRemoves` |
| `YaceResourcesProofs` | `CountingInv`: the above, `AloneInv`, `RestartsInv` | `RestartsBounded` | `NamesDiffer`, `NobodyRemoves` |
| `YacePromisesProofs` | `RemovedInv` | `CleanDeletion` | `DeletionsNotMisled` |
| `YacePromisesProofs` | `PromisesInv`: `AppliedInv`, `SettledInv` | `ObservedIsApplied` | `NamesDiffer`, `NobodyRemoves`, `UpdatesNotMisled` |
| `YaceLifecycleProofs` | `LifecycleInv`: the above, `OrderInv`, `LeavingInv`, `ReportedInv` | `Refinement` | `NamesDiffer`, `NobodyRemoves`, both |
| `YaceReplicasProofs` | `ReplicasInv`: `IndInv` of either process | `FinalizerAfterRecordOfTwo` | none (it uses `IndInv` only) |
| `YaceReplicasProofs` | the invariant above and `CopyFollows` of either process | `RecordIsFinalOfTwo` | none |

* `FinalizerAfterRecord`: `RecordedBeforeFinalizer` speaks of every version of
  a Tagemon, also those on their way to the cache. It is not inductive:
  `addFinalizer` writes the handler's working copy. `WorkingCopyInv` adds what a
  creation has put into its copy before each step (id, names, observed
  generation), and that a copy with the finalizer names its resources. The copy
  is only written when `current`, so a conflict at `createStatus` is followed
  by one at `addFinalizer`.
* `TagemonInvariance`: every version in sight has a status that is empty or
  complete; while a Tagemon is recorded, no version in sight is one that is
  being deleted, not even of a former life; a current working copy is what the
  API server stores, but for what the handler has added. This is what makes a
  write of the whole object from an old copy harmless.
* `Ownership`: `OwnsWhatItRecords`. The strengthening says what a creation under
  way has made so far (`CreatedInv`): the objects its working copy names are
  there, as it made them. Lost answers and crashes leave objects nobody records;
  that they are never recorded by a later creation rests on AlreadyExists.
* `RestartsBounded`: `RestartsFollowEdits`, with lagging caches. The number of
  restarts alone says nothing of a retry with an old copy; what is inductive is
  that every version in sight, and the copy a modification works from, leaves
  room: fewer restarts than generations, and one fewer still if the ConfigMap is
  not what the version asks for (`Room`), where a restart that was decided but
  not made counts already (`Pending`). It rests on a later version having a
  higher generation or the same spec (`Successive`), so a changed ConfigMap
  always means a generation that was not restarted for.
* `CleanDeletion` and `ObservedIsApplied`: a deletion past a step has removed
  what that step removes (`RemovedInv`); a modification past a step has applied
  its copy (`AppliedInv`); and where a generation is reported as observed, no
  version with another spec is on its way and no modification to another spec is
  under way that could undo it (`SettledInv`).
* `Refinement`: `Spec`, with no misled step, implies `ImplementsLifecycle`.
  Initial states map to initial states; three lemmas (`UserSteps`,
  `HandlerWritesStep`, `ResourceSteps`) say which abstract action a user's write,
  a handler's write to the Tagemon and one to its resources is, and everything
  else stutters. The invariant adds that
  after a version that is being deleted come only such (`OrderInv`), that a
  leaving Tagemon is guarded and, once something was taken from it, no handler
  but `handleDelete` will run for it (`LeavingInv`), and that `addFinalizer`
  writes what `createStatus` reported (`ReportedInv`).
* `FinalizerAfterRecordOfTwo`: the same as `FinalizerAfterRecord` for two
  processes that reconcile the same Tagemons. `SecondProofs` is an instance of
  the proofs for the second process (`YaceTagemonProofs` and what it extends), so its lemmas hold of it; `SecondSteps` says that its steps are those
  of `YaceReplicas!Second`. What is left is what a process learns of the other's
  writes: versions that have the invariant already (`HeardKeeps`), and that its
  working copy is old (`OutrunKeeps`).
* `RecordIsFinalOfTwo`: two processes may both create resources for one Tagemon,
  under different names. A working copy from before a record is never `current`
  once the record is stored (`CopyFollows`), so the API server refuses it; the
  copies from after it have the record, which no handler changes (`RecordStays`).
* The lemmas at the head of `YaceHandlerProofs` say what `Written`, `Delivered`
  and `Relisted` do to the set of versions; all of the above rests on them.
* `TagsHandlerProofs!TypeCorrect`, `NoGaugeLost`: `Spec => []RegisteredIsStored`
  for any number of overlapping checks. It is inductive together with `TypeOK`,
  whose clauses tie a check's step to what it carries.

`TagMetricsProofs` has what is proved of `TagPolicy` and `TagMetrics`, for any
Tagemons, lists in any order and of any length, and any finite inventories:

| Theorem | States | Because |
|---|---|---|
| `ThresholdsAreChecked` | `EveryThresholdIsChecked` | a type stays in the policy of its service once a listed Tagemon asked for it (`PolicyIsOfTheLast`) |
| `ReportsWhatIsAskedFor` | `ReportedIsAskedFor` | `isResourceRelevant` |
| `CompliantMeets` | `CompliantMeetsTheOnlyTagemon` | the rules under a name are those of the last listed Tagemon that asks for it (`PolicyIsOfTheLast`), and the types of one Tagemon have different names (`OneTypeUnder`) |
| `OrderHasNoEffect` | `OrderDoesNotShow` | a finite set of keys has one sorted order, in whatever order it is iterated (`SortedExists`, `SortedOnce`); the last to ask for a name has the rules any other has (`SameConfig`) |
| `ExportsOfCheck` | `IndInv` | a check replaces all thresholds and counts; a check without Tagemons none |
| `ThresholdsExported` | `ThresholdsAreExported` | a key some listed Tagemon declares is in `thresholdTagsMap` (`DeclaredInMap`), with a type one of them declared (`TypeIsDeclared`) |
| `ThresholdsCompliant` | `ThresholdsOnlyOfCompliant` | `ExportsOfCheck` |
| `CountsExported` | `CountsOfEveryType` | `ExportsOfCheck`, and each resource is judged once without a policy for all types and at most twice with one (`CountedOnce`) |

`MetricsImplementPolicy` (`MetricsSpec => Spec`) carries the four of the policy over to
checks that export metrics, which is what the run checks (`PolicyUnderMetrics`).

Loops. `buildTagPolicy`, `TypesOf` and `thresholdTagsMap` fold over lists. The
library's induction theorems take a property as a parameter; here the property is
made a set of numbers instead, and `EveryNumber` and `EveryIndex` prove from the
well-foundedness of `<` that it is all of them. `FoldExists` shows that the
recursive function behind `FoldLeft` exists, `FoldSteps` that it is a sequence of
values, one per element; what a loop returns is then an invariant of that
sequence (`PolicyIsOfTheLast`, `TypeIsOfOne`, `TypeIsDeclared`).

Assumptions on constants worth a word: `ObjectsAssumption` (an object differs
from none) and `LifecycleAssumption` (so do a spec and what is given) are about
the model's own values, not about the code. `TagMetricsAssumption` has every
inventory finite: the code loops over what AWS answered. `TagPolicyAssumption`
ranks keys by numbers, no two alike: `sort.Strings` orders any two different
strings, and of the length AWS allows a key there are finitely many. It has the
blueprint names of two types of one service differ, since both are joined to the
same service, and says nothing of those of two services.

Every safety property the passing runs check is proved, under the hypotheses
named with its theorem. TLC checked the inductive invariants on the instances of
the runs as well. Only model-checked, as liveness under fairness is out of the
prover's reach:
`DeletionCompletes`, `SpecTakesEffect`, `SelfHealing`.

## 5. What is not modelled

* Text: YAML, logs, names of metrics and of resources as strings. A tag whose
  metric name is that of the count of non-compliant resources.
* The image and service account of a Deployment, written at creation only.
* Config Handler: it reads a file and the environment once and keeps no state
  that changes; what it returns are constants here (custom labels, the
  interval, the namespace). An interval that is not positive, or a namespace
  other than the watched one, are hazards of values, not of steps.
* A Tagemon created with a finalizer and without a status (a restored backup).
* TLS, probes, flags, registration of types, generated code, the Helm chart,
  the helpers of end-to-end tests: I/O, or no behaviour of their own.

## 6. Plan

Done: every module of section 2 and the theorems of section 4.

What is left, in order of importance:

1. `Operator`: `YaceHandler` and `TagsHandler` composed, a check per successful
   reconcile; a crash of one is a crash of both.
2. Two processes: `TagemonInv` for both, and ownership under the hypothesis that
   no Tagemon is created again under a name.
3. Two processes with lagging caches of ConfigMaps and Deployments, which needs
   a bound on retries.
