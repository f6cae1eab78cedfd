---------------------------- MODULE MCYaceHandler -----------------------------
(* Small instances of YaceHandler for TLC.                                 *)
EXTENDS YaceHandler, TLC

CONSTANTS t1, t2, n1, n2, u1, u2, u3, q1, q2, small, large, plain, prefixed

Edit(query, interval, resources) ==
  [query |-> query, interval |-> interval, resources |-> resources, naming |-> plain]

(* The configuration and the pod's resources change, together or apart.    *)
QueryAndResources == {Edit(q1, 300, small), Edit(q2, 300, small), Edit(q2, 300, large)}

(* ... or always together.                                                 *)
Twofold == {Edit(q1, 300, small), Edit(q2, 300, large)}

QueryOnly == {Edit(q1, 300, small), Edit(q2, 300, small)}

IntervalOnly == {Edit(q1, 60, small), Edit(q1, 300, small)}

(* namePrefix changes with the query.                                      *)
QueryAndNaming == {Edit(q1, 300, small), [Edit(q2, 300, small) EXCEPT !.naming = prefixed]}

OneSpec == {Edit(q1, 300, small)}

OneName == [<<t, naming>> \in {t1} \X {plain} |-> n1]

(* Every Tagemon and naming has a name of its own.                         *)
OneNameEach == [<<t, naming>> \in {t1} \X {plain, prefixed} |->
                  IF naming = plain THEN n1 ELSE n2]

(* The hashes of the two Tagemons begin with the same five digits.         *)
Colliding == [pair \in {t1, t2} \X {plain} |-> n1]

SameIds == Permutations({u1, u2, u3})

(* Where symmetry cannot be used, for liveness: ids that nothing holds are *)
(* alike, and a creation that starts takes the first of them.              *)
TakesFirstId(before, after, held) ==
  before = NoJob /\ after # NoJob /\ after.at = "createConfigMap" =>
    LET ids == <<u1, u2, u3>>
    IN \E i \in DOMAIN ids : /\ after.tagemon.status.id = ids[i]
                             /\ \A j \in 1..(i - 1) : ids[j] \in held

(* Two specs that differ in the names of values only are alike: the first  *)
(* Tagemon created has this one.                                           *)
FirstCreatedWith(spec) ==
  spent.creations = 0 => \A t \in Tagemons :
    Stored(tagemon'[t]) = NoObject \/ Stored(tagemon'[t]).spec = spec

(* Where something is removed by hand nothing else goes wrong.             *)
RemovedOnly == spent.removals > 0 => spent.touches = 0 /\ spent.faults = 0
===============================================================================
