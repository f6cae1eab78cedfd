------------------------------ MODULE MCYacePods ------------------------------
(* YacePods on the small instances of MCYaceHandler.                       *)
EXTENDS YacePods, MCYaceHandler

PodIds == {pod[n].template.id : n \in {m \in Names : pod[m] # NoPod}}

AlikePodsSpec ==
  /\ PodsInit
  /\ [][/\ PodsNext
        /\ FirstCreatedWith(Edit(q1, 300, small))
        /\ TakesFirstId(job, job', UsedIds \cup PodIds)]_podVars
  /\ PodsFairness
===============================================================================
