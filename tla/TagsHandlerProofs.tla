-------------------------- MODULE TagsHandlerProofs ---------------------------
(***************************************************************************)
(* What holds of TagsHandler for every value of its constants: any number  *)
(* of overlapping checks, and any lists of Tagemons and labels.            *)
(***************************************************************************)
EXTENDS TagsHandler, TLAPS

(* RegisteredIsStored is inductive relative to the types: it needs to know *)
(* that a check at "store" has a sample, and one of a threshold metric.    *)
IndInv == TypeOK /\ RegisteredIsStored

(* A check that goes on from one state of its own to another.              *)
WellTyped(next) ==
  /\ next \in Check
  /\ next.view = NoView <=> next.at \in {"idle", "list"}
  /\ next.sample \in Samples <=> next.at \in {"register", "store"}
  /\ next.sample \in Samples => next.sample.metric \in Thresholds

(* A step that moves one check keeps the type of all of them.              *)
LEMMA GoToType ==
  ASSUME TypeOK, NEW c \in Checks, NEW next, WellTyped(next), GoTo(c, next)
  PROVE  /\ check' \in [Checks -> Check]
         /\ \A d \in Checks : WellTyped(check'[d])
BY DEF TypeOK, GoTo, WellTyped

(* A check's own state, one field at a time.                               *)
LEMMA CheckType ==
  ASSUME TypeOK, NEW c \in Checks
  PROVE  /\ check[c] = [at |-> check[c].at, view |-> check[c].view,
                        todo |-> check[c].todo, sample |-> check[c].sample]
         /\ WellTyped(check[c])
BY DEF TypeOK, Check, WellTyped

(* TypeOK as the conjunction the steps below are proved by.                *)
LEMMA TypeOfParts ==
  TypeOK <=>
    /\ tagemons \in Views \cup {NoTagemons}
    /\ inventory \in Inventories
    /\ registry \in [Metrics -> Labels \cup {Unregistered}]
    /\ gauges \subseteq Metrics
    /\ exported \subseteq Samples
    /\ check \in [Checks -> Check]
    /\ \A c \in Checks : WellTyped(check[c])
    /\ spent \in [{"triggers", "changes", "failures"} -> Nat]
BY DEF TypeOK, WellTyped

(* A check that does not run is well-typed.                                *)
LEMMA IdleType == WellTyped(Idle)
BY TagsHandlerAssumption DEF WellTyped, Idle, Check, Steps

(* All is well-typed when the process starts.                              *)
LEMMA InitType == Init => TypeOK
<1> SUFFICES ASSUME Init
             PROVE  TypeOK
  OBVIOUS
<1>1. \A c \in Checks : check[c] = Idle
  BY DEF Init
<1>2. check \in [Checks -> Check] /\ \A c \in Checks : WellTyped(check[c])
  BY <1>1, IdleType DEF Init, WellTyped
<1>3. registry \in [Metrics -> Labels \cup {Unregistered}]
  BY DEF Init
<1>4. spent \in [{"triggers", "changes", "failures"} -> Nat]
  BY DEF Init
<1> QED
  BY <1>2, <1>3, <1>4, TypeOfParts DEF Init

(* A panic leaves the next process with nothing.                           *)
LEMMA PanicInv ==
  ASSUME IndInv, Panic
  PROVE  IndInv'
<1>1. TypeOK'
  <2>1. \A c \in Checks : check'[c] = Idle
    BY DEF Panic
  <2>2. check' \in [Checks -> Check] /\ \A c \in Checks : WellTyped(check'[c])
    BY <2>1, IdleType DEF Panic, WellTyped
  <2>3. /\ tagemons' \in Views \cup {NoTagemons}
        /\ inventory' \in Inventories
        /\ registry' \in [Metrics -> Labels \cup {Unregistered}]
        /\ gauges' \subseteq Metrics
        /\ exported' \subseteq Samples
        /\ spent' \in [{"triggers", "changes", "failures"} -> Nat]
    BY DEF Panic, IndInv, TypeOK, world
  <2> QED
    BY <2>2, <2>3 DEF TypeOK, WellTyped
<1>2. RegisteredIsStored'
  BY DEF Panic, RegisteredIsStored, Storing, At, Idle
<1> QED
  BY <1>1, <1>2 DEF IndInv

(* The maps and the registry are as they were, and the check that moved    *)
(* was not about to store a metric and is not now.                         *)
LEMMA NothingStored ==
  ASSUME IndInv, UNCHANGED <<registry, gauges>>, NEW c \in Checks, NEW next,
         GoTo(c, next), check[c].at \notin {"store", "storeCounts"},
         next.at \notin {"store", "storeCounts"}
  PROVE  RegisteredIsStored'
<1>1. \A d \in Checks \ {c} : check'[d] = check[d]
  BY DEF GoTo, IndInv, TypeOK
<1>2. check'[c] = next
  BY DEF GoTo, IndInv, TypeOK
<1>3. \A d \in Checks : Storing(d)' = Storing(d)
  BY <1>1, <1>2 DEF Storing, At
<1> QED
  BY <1>3 DEF IndInv, RegisteredIsStored

(* What a check sets are samples, and what a reset leaves are samples.     *)
LEMMA ExportedType ==
  ASSUME TypeOK
  PROVE  /\ \A metrics : ResetMetrics(metrics) \subseteq Samples
         /\ \A sample \in Samples : With(sample) \subseteq Samples
BY DEF TypeOK, ResetMetrics, Without, With

(* Counting towards a bound keeps the counters natural numbers.            *)
LEMMA SpendType ==
  ASSUME TypeOK, NEW what \in {"triggers", "changes", "failures"}, NEW bound,
         Spend(what, bound)
  PROVE  spent' \in [{"triggers", "changes", "failures"} -> Nat]
BY DEF TypeOK, Spend

-----------------------------------------------------------------------------
(* The steps of a check                                                    *)

(* The steps until a check has its results leave the gauges alone.         *)
LEMMA StartInv ==
  ASSUME IndInv, NEW c \in Checks,
         \/ c = Scheduler /\ Tick
         \/ c \in Triggers /\ Trigger(c)
         \/ List(c)
         \/ Patrol(c)
  PROVE  IndInv'
<1> USE DEF IndInv
<1>1. WellTyped([Idle EXCEPT !.at = "list"])
  BY TagsHandlerAssumption DEF WellTyped, Idle, Check, Steps
<1>2. CASE Tick \/ (c \in Triggers /\ Trigger(c))
  <2>1. PICK d \in Checks : /\ At(d, "idle")
                            /\ GoTo(d, [Idle EXCEPT !.at = "list"])
    BY <1>2 DEF Tick, Trigger, Checks
  <2>2. RegisteredIsStored'
    BY <1>2, <2>1, NothingStored DEF Tick, Trigger, At, Idle
  <2>3. spent' \in [{"triggers", "changes", "failures"} -> Nat]
    BY <1>2, SpendType DEF Tick, Trigger, TypeOK
  <2>4. TypeOK'
    BY <1>1, <1>2, <2>1, <2>3, GoToType DEF Tick, Trigger, world, TypeOK, WellTyped
  <2> QED
    BY <2>2, <2>4
<1>3. CASE List(c)
  <2> DEFINE next == IF tagemons = NoTagemons THEN Idle
                     ELSE [check[c] EXCEPT !.at = "patrol", !.view = tagemons]
  <2>1. WellTyped(next)
    BY <1>3, IdleType, CheckType, TagsHandlerAssumption
       DEF List, At, TypeOK, WellTyped, Check, Steps
  <2>2. GoTo(c, next) /\ At(c, "list")
    BY <1>3 DEF List
  <2>3. next.at \notin {"store", "storeCounts"}
    BY CheckType DEF Idle
  <2> HIDE DEF next
  <2>4. RegisteredIsStored'
    BY <1>3, <2>2, <2>3, NothingStored DEF List, At
  <2>5. TypeOK'
    BY <1>3, <2>1, <2>2, GoToType DEF List, world, TypeOK, WellTyped
  <2> QED
    BY <2>4, <2>5
<1>4. CASE Patrol(c)
  <2> DEFINE found == Findings[check[c].view, inventory]
             Patrolling(some) == [check[c] EXCEPT !.at = "reset", !.todo = some]
  <2>1. found \subseteq Samples
    BY <1>4, TagsHandlerAssumption DEF Patrol, At, TypeOK, Check
  <2>2. \A some \in SUBSET Samples :
          WellTyped(Patrolling(some)) /\ Patrolling(some).at \notin {"store", "storeCounts"}
    BY <1>4, CheckType DEF Patrol, At, WellTyped, Check, Steps
  <2>3. PICK next : /\ WellTyped(next)
                    /\ next.at \notin {"store", "storeCounts"}
                    /\ GoTo(c, next)
    <3>1. (\E some \in SUBSET found : Patrolled(c, some)) \/ GoTo(c, Idle)
      BY <1>4 DEF Patrol
    <3>2. ASSUME NEW some \in SUBSET found, Patrolled(c, some)
          PROVE  GoTo(c, Patrolling(some)) /\ some \in SUBSET Samples
      BY <2>1, <3>2 DEF Patrolled
    <3>3. Idle.at \notin {"store", "storeCounts"}
      BY DEF Idle
    <3> HIDE DEF found, Patrolling
    <3> QED
      BY <2>2, <3>1, <3>2, <3>3, IdleType
  <2>4. UNCHANGED <<world, registry, gauges, exported>>
    BY <1>4 DEF Patrol, Patrolled
  <2>5. spent' \in [{"triggers", "changes", "failures"} -> Nat]
    BY <1>4, SpendType DEF Patrol, TypeOK
  <2>6. RegisteredIsStored'
    BY <1>4, <2>3, <2>4, NothingStored DEF Patrol, At
  <2>7. TypeOK'
    BY <2>3, <2>4, <2>5, GoToType DEF world, TypeOK, WellTyped
  <2> QED
    BY <2>6, <2>7
<1> QED
  BY <1>2, <1>3, <1>4

(* Steps that touch neither the maps nor the registry.                     *)
LEMMA SetInv ==
  ASSUME IndInv, NEW c \in Checks,
         \/ Reset(c) \/ (SetThreshold(c) /\ ~Panic) \/ MissThreshold(c)
         \/ EndThresholds(c) \/ ResetCounts(c) \/ SetCount(c) \/ End(c)
  PROVE  IndInv'
<1> USE DEF IndInv
<1>1. PICK next : /\ GoTo(c, next)
                  /\ WellTyped(next)
                  /\ next.at # "storeCounts"
                  /\ next.at # "store"
  <2>1. CASE Reset(c)
    <3> WITNESS [check[c] EXCEPT !.at = "thresholds"]
    <3> QED
      BY <2>1, CheckType DEF Reset, At, WellTyped, Check, Steps
  <2>2. CASE SetThreshold(c) /\ ~Panic
    <3>1. PICK sample : GoTo(c, [check[c] EXCEPT !.todo = @ \ {sample}])
      BY <2>2 DEF SetThreshold
    <3> WITNESS [check[c] EXCEPT !.todo = @ \ {sample}]
    <3> QED
      BY <2>2, <3>1, CheckType DEF SetThreshold, At, WellTyped, Check, Steps
  <2>3. CASE MissThreshold(c)
    <3>1. PICK sample \in ThresholdsTodo(c) :
            GoTo(c, [check[c] EXCEPT !.at = "register", !.sample = sample,
                                     !.todo = @ \ {sample}])
      BY <2>3 DEF MissThreshold
    <3>2. sample \in check[c].todo /\ sample.metric \in Thresholds
      BY <3>1 DEF ThresholdsTodo
    <3>3. sample \in Samples
      BY <3>2, CheckType DEF WellTyped, Check
    <3> WITNESS [check[c] EXCEPT !.at = "register", !.sample = sample,
                                 !.todo = @ \ {sample}]
    <3> QED
      BY <2>3, <3>1, <3>2, <3>3, CheckType DEF MissThreshold, At, WellTyped, Check, Steps
  <2>4. CASE EndThresholds(c)
    <3> WITNESS [check[c] EXCEPT !.at = "counts"]
    <3> QED
      BY <2>4, CheckType DEF EndThresholds, At, WellTyped, Check, Steps
  <2>5. CASE ResetCounts(c)
    <3> WITNESS [check[c] EXCEPT !.at = "setCounts"]
    <3> QED
      BY <2>5, CheckType DEF ResetCounts, At, WellTyped, Check, Steps
  <2>6. CASE SetCount(c)
    <3>1. PICK sample : GoTo(c, [check[c] EXCEPT !.todo = @ \ {sample}])
      BY <2>6 DEF SetCount
    <3> WITNESS [check[c] EXCEPT !.todo = @ \ {sample}]
    <3> QED
      BY <2>6, <3>1, CheckType DEF SetCount, At, WellTyped, Check, Steps
  <2>7. CASE End(c)
    <3> WITNESS Idle
    <3> QED
      BY <2>7, IdleType DEF End, Idle
  <2> QED
    BY <2>1, <2>2, <2>3, <2>4, <2>5, <2>6, <2>7
<1>2. /\ check[c].at \notin {"store", "storeCounts"}
      /\ UNCHANGED <<world, registry, gauges, spent>>
  BY DEF Reset, SetThreshold, MissThreshold, EndThresholds, ResetCounts, SetCount,
         End, At
<1>3. exported' \subseteq Samples
  <2>1. \A sample \in check[c].todo : sample \in Samples
    BY CheckType DEF WellTyped, Check
  <2>2. \/ \E metrics : exported' = ResetMetrics(metrics)
        \/ \E sample \in check[c].todo : exported' = With(sample)
        \/ exported' = exported
    BY DEF Reset, SetThreshold, MissThreshold, EndThresholds, ResetCounts,
           SetCount, End, ThresholdsTodo
  <2> QED
    BY <2>1, <2>2, ExportedType DEF TypeOK
<1>4. RegisteredIsStored'
  BY <1>1, <1>2, NothingStored
<1>5. TypeOK'
  BY <1>1, <1>2, <1>3, GoToType DEF world, TypeOK, WellTyped
<1> QED
  BY <1>4, <1>5

(* Registering and storing a threshold metric.                             *)
LEMMA ThresholdInv ==
  ASSUME IndInv, NEW c \in Checks,
         \/ RegisterThreshold(c)
         \/ StoreThreshold(c) /\ ~Panic
  PROVE  IndInv'
<1> USE DEF IndInv
<1> DEFINE metric == check[c].sample.metric
           done == [check[c] EXCEPT !.at = "thresholds", !.sample = NoSample]
           stored == [check[c] EXCEPT !.at = "store"]
<1>1. /\ check[c].at \in {"register", "store"}
      /\ check[c].sample \in Samples
      /\ metric \in Thresholds
  BY DEF RegisterThreshold, StoreThreshold, At, TypeOK
<1>2. WellTyped(done) /\ WellTyped(stored)
  BY <1>1, CheckType, TagsHandlerAssumption DEF WellTyped, Check, Steps
<1>3. metric \in Metrics /\ metric # NonCompliant
  BY <1>1, TagsHandlerAssumption DEF Metrics
<1>4. check[c].view \in Views /\ LabelsOf[check[c].view] \in Labels
  BY <1>1, CheckType DEF WellTyped, Check, Labels
<1>5. LabelsOf[check[c].view] # Unregistered
  BY <1>4, TagsHandlerAssumption
<1>6. CASE RegisterThreshold(c) /\ registry[metric] = Unregistered
  <2>1. /\ GoTo(c, stored)
        /\ registry' = [registry EXCEPT ![metric] = LabelsOf[check[c].view]]
        /\ UNCHANGED <<world, gauges, exported, spent>>
        /\ At(c, "register")
    BY <1>6 DEF RegisterThreshold
  <2>2. /\ check'[c] = stored
        /\ \A d \in Checks \ {c} : check'[d] = check[d]
    BY <2>1 DEF GoTo, TypeOK
  <2>3. /\ Storing(c)' = {metric} /\ Storing(c) = {}
        /\ \A d \in Checks \ {c} : Storing(d)' = Storing(d)
    BY <2>1, <2>2, CheckType DEF Storing, At
  <2>4. /\ registry'[metric] # Unregistered
        /\ \A m \in Metrics \ {metric} : registry'[m] = registry[m]
    BY <1>3, <1>5, <2>1 DEF TypeOK
  <2>5. RegisteredIsStored'
    <3> SUFFICES ASSUME NEW m \in Metrics
                 PROVE  registry'[m] # Unregistered <=>
                          \/ m \in gauges'
                          \/ \E d \in Checks : m \in Storing(d)'
      BY DEF RegisteredIsStored
    <3>1. CASE m = metric
      BY <2>3, <2>4, <3>1
    <3>2. CASE m # metric
      <4>1. (\E d \in Checks : m \in Storing(d)') <=> (\E d \in Checks : m \in Storing(d))
        BY <2>3, <3>2
      <4> QED
        BY <2>1, <2>4, <3>2, <4>1 DEF RegisteredIsStored
    <3> QED
      BY <3>1, <3>2
  <2>6. registry' \in [Metrics -> Labels \cup {Unregistered}]
    BY <1>4, <2>1 DEF TypeOK
  <2> HIDE DEF stored
  <2>7. TypeOK'
    BY <1>2, <2>1, <2>6, GoToType DEF world, TypeOK, WellTyped
  <2> QED
    BY <2>5, <2>7
<1>7. CASE RegisterThreshold(c) /\ registry[metric] # Unregistered
  <2>1. /\ GoTo(c, done)
        /\ UNCHANGED <<world, registry, gauges, exported, spent>>
        /\ At(c, "register")
    BY <1>7 DEF RegisterThreshold
  <2>2. done.at \notin {"store", "storeCounts"}
    BY CheckType
  <2> HIDE DEF done
  <2>3. RegisteredIsStored'
    BY <2>1, <2>2, NothingStored DEF At
  <2>4. TypeOK'
    BY <1>2, <2>1, GoToType DEF world, TypeOK, WellTyped
  <2> QED
    BY <2>3, <2>4
<1>8. CASE StoreThreshold(c) /\ ~Panic
  <2>1. /\ GoTo(c, done)
        /\ gauges' = gauges \cup {metric}
        /\ exported' = With(check[c].sample)
        /\ UNCHANGED <<world, registry, spent>>
        /\ At(c, "store")
    BY <1>8 DEF StoreThreshold, Stored
  <2>2. /\ check'[c] = done
        /\ \A d \in Checks \ {c} : check'[d] = check[d]
    BY <2>1 DEF GoTo, TypeOK
  <2>3. /\ Storing(c)' = {} /\ Storing(c) = {metric}
        /\ \A d \in Checks \ {c} : Storing(d)' = Storing(d)
    BY <2>1, <2>2, CheckType DEF Storing, At
  <2>4. RegisteredIsStored'
    <3> SUFFICES ASSUME NEW m \in Metrics
                 PROVE  registry'[m] # Unregistered <=>
                          \/ m \in gauges'
                          \/ \E d \in Checks : m \in Storing(d)'
      BY DEF RegisteredIsStored
    <3>1. (m \in gauges' \/ \E d \in Checks : m \in Storing(d)')
            <=> (m \in gauges \/ \E d \in Checks : m \in Storing(d))
      BY <2>1, <2>3
    <3> QED
      BY <2>1, <3>1 DEF RegisteredIsStored
  <2>5. exported' \subseteq Samples
    BY <1>1, <2>1, ExportedType
  <2>6. gauges' \subseteq Metrics
    BY <1>3, <2>1 DEF TypeOK
  <2> HIDE DEF done
  <2>7. TypeOK'
    BY <1>2, <2>1, <2>5, <2>6, GoToType DEF world, TypeOK, WellTyped
  <2> QED
    BY <2>4, <2>7
<1> QED
  BY <1>6, <1>7, <1>8

(* Finding, registering and storing the gauge of non-compliant resources.  *)
LEMMA CountsInv ==
  ASSUME IndInv, NEW c \in Checks,
         \/ LookUpCounts(c)
         \/ RegisterCounts(c) /\ ~Panic
         \/ StoreCounts(c) /\ ~Panic
  PROVE  IndInv'
<1> USE DEF IndInv
<1>1. NonCompliant \in Metrics
  BY DEF Metrics
<1>2. \A step \in {"registerCounts", "storeCounts", "resetCounts"} :
        check[c].at \in {"counts", "registerCounts", "storeCounts"} =>
          /\ WellTyped([check[c] EXCEPT !.at = step])
          /\ [check[c] EXCEPT !.at = step].at = step
  BY CheckType DEF WellTyped, Check, Steps
<1>3. CASE LookUpCounts(c)
  <2>1. PICK step \in {"registerCounts", "resetCounts"} :
          GoTo(c, [check[c] EXCEPT !.at = step])
    BY <1>3 DEF LookUpCounts
  <2> DEFINE next == [check[c] EXCEPT !.at = step]
  <2>2. /\ WellTyped(next) /\ next.at \notin {"store", "storeCounts"}
        /\ GoTo(c, next)
    BY <1>2, <1>3, <2>1 DEF LookUpCounts, At
  <2> HIDE DEF next
  <2>3. RegisteredIsStored'
    BY <1>3, <2>2, NothingStored DEF LookUpCounts, At
  <2>4. TypeOK'
    BY <1>3, <2>2, GoToType DEF LookUpCounts, world, TypeOK, WellTyped
  <2> QED
    BY <2>3, <2>4
<1>4. CASE RegisterCounts(c) /\ ~Panic
  <2> DEFINE next == [check[c] EXCEPT !.at = "storeCounts"]
  <2>1. /\ GoTo(c, next)
        /\ registry' = [registry EXCEPT ![NonCompliant] = CountLabels]
        /\ UNCHANGED <<world, gauges, exported, spent>>
        /\ At(c, "registerCounts")
    BY <1>4 DEF RegisterCounts
  <2>2. WellTyped(next)
    BY <1>2, <2>1 DEF At
  <2>3. /\ check'[c] = next
        /\ \A d \in Checks \ {c} : check'[d] = check[d]
    BY <2>1 DEF GoTo, TypeOK
  <2>4. /\ Storing(c)' = {NonCompliant} /\ Storing(c) = {}
        /\ \A d \in Checks \ {c} : Storing(d)' = Storing(d)
    BY <2>1, <2>3, CheckType DEF Storing, At
  <2>5. CountLabels \in Labels /\ CountLabels # Unregistered
    BY TagsHandlerAssumption DEF Labels
  <2>6. /\ registry'[NonCompliant] # Unregistered
        /\ \A m \in Metrics \ {NonCompliant} : registry'[m] = registry[m]
    BY <1>1, <2>1, <2>5 DEF TypeOK
  <2>7. RegisteredIsStored'
    <3> SUFFICES ASSUME NEW m \in Metrics
                 PROVE  registry'[m] # Unregistered <=>
                          \/ m \in gauges'
                          \/ \E d \in Checks : m \in Storing(d)'
      BY DEF RegisteredIsStored
    <3>1. CASE m = NonCompliant
      BY <2>4, <2>6, <3>1
    <3>2. CASE m # NonCompliant
      <4>1. (\E d \in Checks : m \in Storing(d)') <=> (\E d \in Checks : m \in Storing(d))
        BY <2>4, <3>2
      <4> QED
        BY <2>1, <2>6, <3>2, <4>1 DEF RegisteredIsStored
    <3> QED
      BY <3>1, <3>2
  <2>8. registry' \in [Metrics -> Labels \cup {Unregistered}]
    BY <2>1, <2>5 DEF TypeOK
  <2> HIDE DEF next
  <2>9. TypeOK'
    BY <2>1, <2>2, <2>8, GoToType DEF world, TypeOK, WellTyped
  <2> QED
    BY <2>7, <2>9
<1>5. CASE StoreCounts(c) /\ ~Panic
  <2> DEFINE next == [check[c] EXCEPT !.at = "resetCounts"]
  <2>1. /\ GoTo(c, next)
        /\ gauges' = gauges \cup {NonCompliant}
        /\ UNCHANGED <<world, registry, exported, spent>>
        /\ At(c, "storeCounts")
    BY <1>5 DEF StoreCounts, Stored
  <2>2. WellTyped(next)
    BY <1>2, <2>1 DEF At
  <2>3. /\ check'[c] = next
        /\ \A d \in Checks \ {c} : check'[d] = check[d]
    BY <2>1 DEF GoTo, TypeOK
  <2>4. /\ Storing(c)' = {} /\ Storing(c) = {NonCompliant}
        /\ \A d \in Checks \ {c} : Storing(d)' = Storing(d)
    BY <2>1, <2>3, CheckType DEF Storing, At
  <2>5. RegisteredIsStored'
    <3> SUFFICES ASSUME NEW m \in Metrics
                 PROVE  registry'[m] # Unregistered <=>
                          \/ m \in gauges'
                          \/ \E d \in Checks : m \in Storing(d)'
      BY DEF RegisteredIsStored
    <3>1. (m \in gauges' \/ \E d \in Checks : m \in Storing(d)')
            <=> (m \in gauges \/ \E d \in Checks : m \in Storing(d))
      BY <2>1, <2>4
    <3> QED
      BY <2>1, <3>1 DEF RegisteredIsStored
  <2>6. gauges' \subseteq Metrics
    BY <1>1, <2>1 DEF TypeOK
  <2> HIDE DEF next
  <2>7. TypeOK'
    BY <2>1, <2>2, <2>6, GoToType DEF world, TypeOK, WellTyped
  <2> QED
    BY <2>5, <2>7
<1> QED
  BY <1>3, <1>4, <1>5

-----------------------------------------------------------------------------
(* Theorems                                                                *)

(* No metric is registered when the process starts.                        *)
LEMMA InitInv == Init => IndInv
<1>1. Init => RegisteredIsStored
  BY DEF Init, RegisteredIsStored, Storing, At, Idle
<1> QED
  BY <1>1, InitType DEF IndInv

(* Every step of checks, users and failures keeps the invariant.           *)
LEMMA NextInv == IndInv /\ [Next]_vars => IndInv'
<1> SUFFICES ASSUME IndInv, [Next]_vars
             PROVE  IndInv'
  OBVIOUS
<1>1. CASE Tick
  BY <1>1, StartInv DEF Checks
<1>2. ASSUME NEW c \in Triggers, Trigger(c)
      PROVE  IndInv'
  BY <1>2, StartInv DEF Checks
<1>3. ASSUME NEW c \in Checks, Step(c)
      PROVE  IndInv'
  BY <1>3, StartInv, SetInv, ThresholdInv, CountsInv, PanicInv DEF Step
<1>4. CASE ChangeTagemons \/ ChangeInventory
  <2>1. UNCHANGED <<registry, gauges, exported, check>>
    BY <1>4 DEF ChangeTagemons, ChangeInventory
  <2>2. /\ tagemons' \in Views \cup {NoTagemons}
        /\ inventory' \in Inventories
        /\ spent' \in [{"triggers", "changes", "failures"} -> Nat]
    BY <1>4, SpendType DEF ChangeTagemons, ChangeInventory, IndInv, TypeOK
  <2>3. TypeOK'
    BY <2>1, <2>2 DEF IndInv, TypeOK
  <2>4. RegisteredIsStored'
    BY <2>1 DEF IndInv, RegisteredIsStored, Storing, At
  <2> QED
    BY <2>3, <2>4 DEF IndInv
<1>5. CASE UNCHANGED vars
  <2>1. TypeOK'
    BY <1>5 DEF IndInv, TypeOK, vars, world
  <2>2. RegisteredIsStored'
    BY <1>5 DEF IndInv, RegisteredIsStored, Storing, At, vars
  <2> QED
    BY <2>1, <2>2 DEF IndInv
<1> QED
  BY <1>1, <1>2, <1>3, <1>4, <1>5 DEF Next

(* The state of overlapping checks is well-typed, and every registered     *)
(* metric is stored or about to be, in all behaviours: the invariant both  *)
(* theorems below follow from.                                             *)
THEOREM Invariance == Spec => []IndInv
BY InitInv, NextInv, PTL DEF Spec

(* Every variable of the compliance checks keeps its type, for any number  *)
(* of overlapping checks.                                                  *)
THEOREM TypeCorrect == Spec => []TypeOK
<1>1. IndInv => TypeOK
  BY DEF IndInv
<1> QED
  BY <1>1, Invariance, PTL

(* A gauge is never lost: whichever checks overlap, fail or panic, a       *)
(* metric is registered exactly when it is in the Handler's maps or the    *)
(* check that registered it is about to store it.                          *)
THEOREM NoGaugeLost == Spec => []RegisteredIsStored
<1>1. IndInv => RegisteredIsStored
  BY DEF IndInv
<1> QED
  BY <1>1, Invariance, PTL

==============================================================================
