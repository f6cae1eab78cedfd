---------------------------- MODULE YaceLifecycle -----------------------------
(***************************************************************************)
(* YaceHandler seen as an implementation of TagemonLifecycle, which it is  *)
(* while no old read misleads a handler, nobody deletes a ConfigMap or a   *)
(* Deployment by hand, and every Tagemon has names of its own.             *)
(***************************************************************************)
EXTENDS YaceHandler

CONSTANTS NoSpec, Nothing

ASSUME LifecycleAssumption ==
  NoSpec \notin Specs /\ Nothing \notin Config \cup Resources

(* What the stored version of a Tagemon says of its life.                  *)
PhaseOf(object) ==
  IF object = NoObject THEN "absent"
  ELSE LET observed == object.status.observed
       IN CASE object.deleting -> "leaving"
            [] ~object.deleting /\ observed = 0 -> "new"
            [] ~object.deleting /\ observed # 0 /\ observed = object.generation -> "served"
            [] ~object.deleting /\ observed # 0 /\ observed # object.generation -> "outdated"

WantedBy(object) == IF object = NoObject THEN NoSpec ELSE object.spec

ConfigIn(stored) == IF IsNotFound(stored) THEN Nothing ELSE stored.config

ResourcesIn(stored) == IF IsNotFound(stored) THEN Nothing ELSE stored.resources

(* What the names in its status lead to.                                   *)
GivenTo(object, configMaps, deployments) ==
  IF object = NoObject \/ object.status.observed = 0
  THEN [config |-> Nothing, resources |-> Nothing]
  ELSE [config |-> ConfigIn(Stored(configMaps[object.status.configMap])),
        resources |-> ResourcesIn(Stored(deployments[object.status.deployment]))]

phase == [t \in Tagemons |-> PhaseOf(Stored(tagemon[t]))]

guarded == {t \in Tagemons : Stored(tagemon[t]) # NoObject /\ Stored(tagemon[t]).finalizer}

wanted == [t \in Tagemons |-> WantedBy(Stored(tagemon[t]))]

(* What the cache or the handler under way still has to learn or to apply. *)
asked == [t \in Tagemons |->
  {version.spec : version \in Range(tagemon[t]) \ {NoObject}}
    \cup (IF job # NoJob /\ job.name = t THEN {job.tagemon.spec} ELSE {})]

given == [t \in Tagemons |-> GivenTo(Stored(tagemon[t]), configMap, deployment)]

Lifecycle == INSTANCE TagemonLifecycle WITH
  Configs <- Config,
  ConfigOf <- [spec \in Specs |-> generateYACEConfig(spec)],
  ResourcesOf <- [spec \in Specs |-> spec.resources]

(* Every step of the reconciler, of users and of failures is a step of the *)
(* lifecycle or none: what is reported as observed is what was asked for,  *)
(* stays so until the spec changes, and is taken away before a guarded     *)
(* Tagemon is let go.                                                      *)
ImplementsLifecycle == Lifecycle!Spec
===============================================================================
