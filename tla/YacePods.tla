------------------------------- MODULE YacePods -------------------------------
(***************************************************************************)
(* YaceHandler with the pods that run what it writes: the kubelet and the  *)
(* Deployment controller act on the ConfigMaps and the Deployments the API *)
(* server stores, and nothing of theirs reaches the reconciler.            *)
(***************************************************************************)
EXTENDS YaceHandler

CONSTANT NoPod

VARIABLES
  pod,     \* the pod each Deployment runs
  missed   \* has something kept a change of a spec from the pod? (history)

podVars == <<vars, pod, missed>>

Pod == [template: Deployment, config: Config]

PodsInit == Init /\ pod = [n \in Names |-> NoPod] /\ missed = FALSE

(* A pod reads the configuration once, as it starts: createDeployment      *)
(* mounts the file with subPath, which the kubelet does not refresh.       *)
StartPod(n) ==
  LET template == Stored(deployment[n])
      mounted == Stored(configMap[n])
  IN /\ template # NoObject
     /\ mounted # NoObject
     /\ pod' = [pod EXCEPT ![n] = [template |-> template, config |-> mounted.config]]
     /\ UNCHANGED <<vars, missed>>

RunsTemplate(n) == pod[n] # NoPod /\ pod[n].template = Stored(deployment[n])

(* It is started anew when the Deployment's template changes ...           *)
Rollout(n) == ~RunsTemplate(n) /\ StartPod(n)

(* ... and whenever it dies.                                               *)
Replace(n) == RunsTemplate(n) /\ StartPod(n)

StopPod(n) ==
  /\ pod[n] # NoPod
  /\ Stored(deployment[n]) = NoObject
  /\ pod' = [pod EXCEPT ![n] = NoPod]
  /\ UNCHANGED <<vars, missed>>

(* What handleModify remembers of its ConfigMap update, that the pod has   *)
(* to be restarted, is lost: it ends right after the update, whose answer  *)
(* got lost or which a crash followed, or between update and annotation,   *)
(* or the annotation leaves the Deployment as it is: the second has not    *)
(* passed, or the cache does not show the Deployment.                      *)
RestartLost ==
  /\ job # NoJob
  /\ LET status == job.tagemon.status
         Changes(objects, name) == Stored(objects'[name]) # Stored(objects[name])
     IN \/ /\ job.at = "updateConfigMap"
           /\ job' = NoJob
           /\ Changes(configMap, status.configMap)
        \/ /\ job.at = "annotateDeployment" /\ job.changed
           /\ job' = NoJob \/ GoesOn
           /\ ~Changes(deployment, status.deployment)

RemovedByHand == spent'.removals # spent.removals

(* The steps after which the pod may be left with an old configuration.    *)
Misses == (UpdateMisled /\ GoesOn) \/ RestartLost \/ RemovedByHand

PodsNext ==
  \/ Next /\ UNCHANGED pod /\ missed' = (missed \/ Misses)
  \/ \E n \in Names : Rollout(n) \/ Replace(n) \/ StopPod(n)

PodsSpec == PodsInit /\ [][PodsNext]_podVars

(* Pods are started and stopped eventually; that one dies is not assumed.  *)
PodsFairness ==
  /\ Fairness
  /\ \A n \in Names : WF_podVars(Rollout(n)) /\ WF_podVars(StopPod(n))

FairPodsSpec == PodsSpec /\ PodsFairness

-----------------------------------------------------------------------------
(* Properties                                                              *)

(* The running pod has the configuration and the resources of the spec.    *)
Serves(t) ==
  LET object == Stored(tagemon[t])
      running == pod[object.status.deployment]
  IN /\ running # NoPod
     /\ running.config = generateYACEConfig(object.spec)
     /\ running.template.resources = object.spec.resources

(* A change of the spec reaches the running pod: the ConfigMap is updated, *)
(* the pod restarted and its resources replaced (handleModify), through    *)
(* conflicts, lag, failed calls and crashes, unless one of them falls      *)
(* where handleModify cannot make up for it (Misses).                      *)
SpecTakesEffect ==
  \A t \in Tagemons : Recorded(t) /\ ~missed ~> (~Recorded(t) \/ Serves(t) \/ missed)
===============================================================================
