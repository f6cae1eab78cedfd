---------------------------- MODULE TagMetricsProofs ----------------------------
(***************************************************************************)
(* What holds of TagPolicy and of TagMetrics for every value of their      *)
(* constants: any number of Tagemons, listed in any order, lists of tags   *)
(* of any length, and any resources at each check.                         *)
(***************************************************************************)
EXTENDS TagMetrics, FiniteSetTheorems, TLAPS

-----------------------------------------------------------------------------
(* Loops over lists                                                        *)

(* Induction, for sets of numbers: the numbers that have a property are    *)
(* all of them.                                                            *)
LEMMA EveryNumber ==
  ASSUME NEW S, S \subseteq Nat, 0 \in S, \A n \in S : n + 1 \in S
  PROVE  S = Nat
<1> DEFINE T == Nat \ S
<1>1. SUFFICES ASSUME T # {} PROVE FALSE
  OBVIOUS
<1>2. PICK n \in T : \A m \in T : ~ (<<m, n>> \in OpToRel(<, Nat))
  <2> HIDE DEF T
  <2>1. T \subseteq Nat BY DEF T
  <2> QED BY <2>1, <1>1, NatLessThanWellFounded, WFMin
<1>3. n \in Nat /\ n # 0 BY <1>2
<1>4. n - 1 \in Nat /\ n - 1 < n BY <1>3
<1>5. <<n - 1, n>> \in OpToRel(<, Nat) BY <1>3, <1>4 DEF OpToRel
<1>6. n - 1 \in S BY <1>2, <1>4, <1>5
<1>7. (n - 1) + 1 \in S BY <1>6
<1>8. (n - 1) + 1 = n BY <1>3
<1> QED BY <1>2, <1>7, <1>8

(* The same for the indices of a list, with 0 for before the first.        *)
LEMMA EveryIndex ==
  ASSUME NEW n \in Nat, NEW S, 0 \in S, \A i \in 0..(n - 1) : i \in S => i + 1 \in S
  PROVE  0..n \subseteq S
<1> DEFINE T == {i \in Nat : i <= n => i \in S}
<1>1. T \subseteq Nat OBVIOUS
<1>2. \A i \in T : i + 1 \in T OBVIOUS
<1>3. 0 \in T OBVIOUS
<1>4. T = Nat
  <2> HIDE DEF T
  <2> QED BY <1>1, <1>2, <1>3, EveryNumber
<1> QED BY <1>4

(* A set of indices that is not empty has a last one.                      *)
LEMMA LastIndex ==
  ASSUME NEW n \in Nat, NEW s, s \subseteq 1..n, s # {}
  PROVE  Max(s) \in s /\ \A i \in s : i <= Max(s)
<1> DEFINE HasLast(t) == \E i \in t : \A j \in t : i >= j
           S == {m \in 0..n : \A t \in SUBSET (1..m) : t # {} => HasLast(t)}
<1>1. 0 \in S
  <2>1. 1..0 = {} /\ 0 \in 0..n OBVIOUS
  <2>2. \A t \in SUBSET (1..0) : t # {} => HasLast(t) BY <2>1
  <2> HIDE DEF HasLast
  <2> QED BY <2>1, <2>2
<1>2. ASSUME NEW m \in 0..(n - 1), m \in S
      PROVE  m + 1 \in S
  <2>1. ASSUME NEW t \in SUBSET (1..(m + 1)), t # {}
        PROVE  HasLast(t)
    <3>1. CASE m + 1 \in t BY <3>1
    <3>2. CASE m + 1 \notin t
      <4>1. t \in SUBSET (1..m) BY <3>2
      <4> QED BY <4>1, <2>1, <1>2
    <3> QED BY <3>1, <3>2
  <2>2. m + 1 \in 0..n OBVIOUS
  <2> HIDE DEF HasLast
  <2> QED BY <2>1, <2>2
<1>3. n \in S
  <2> HIDE DEF S
  <2>1. 0..n \subseteq S BY <1>1, <1>2, EveryIndex
  <2> QED BY <2>1
<1>4. PICK i \in s : \A j \in s : i >= j BY <1>3
<1>5. /\ Max(s) \in s
      /\ \A j \in s : Max(s) >= j
  BY <1>4 DEF Max
<1> QED BY <1>5

(* The first i indices end with i.                                         *)
LEMMA Prefix ==
  ASSUME NEW n \in Nat, NEW i \in 1..n
  PROVE  /\ 1..i \in SUBSET (1..n) /\ 1..i # {}
         /\ Max(1..i) = i
         /\ (1..i) \ {Max(1..i)} = 1..(i - 1)
<1>1. 1..i \in SUBSET (1..n) /\ i \in 1..i OBVIOUS
<1>2. Max(1..i) \in 1..i /\ i <= Max(1..i) BY <1>1, LastIndex
<1>3. Max(1..i) = i BY <1>2
<1> QED BY <1>1, <1>3

(* A loop over n elements, of which each takes a value of V to another.    *)
IsLoop(n, V, base, step) == n \in Nat /\ base \in V /\ step \in [1..n -> [V -> V]]

(* The fold of a set of indices takes the step of the last to the fold of  *)
(* the others.                                                             *)
IsFold(f, n, V, base, step) ==
  /\ f \in [SUBSET (1..n) -> V]
  /\ \A s \in SUBSET (1..n) :
       /\ f[s] = IF s = {} THEN base ELSE step[Max(s)][f[s \ {Max(s)}]]
       /\ s # {} => Max(s) \in 1..n /\ f[s \ {Max(s)}] \in V

(* There is a function that folds a list.                                  *)
LEMMA FoldExists ==
  ASSUME NEW n, NEW V, NEW base, NEW step, IsLoop(n, V, base, step)
  PROVE  \E f : IsFold(f, n, V, base, step)
<1>0. n \in Nat /\ base \in V /\ step \in [1..n -> [V -> V]] BY DEF IsLoop
<1> USE <1>0
<1> DEFINE Fold(m, f) == \A s \in SUBSET (1..m) :
             f[s] = IF s = {} THEN base ELSE step[Max(s)][f[s \ {Max(s)}]]
           S == {m \in 0..n : \E f \in [SUBSET (1..m) -> V] : Fold(m, f)}
<1>1. 0 \in S
  <2> DEFINE f == [s \in SUBSET (1..0) |-> base]
  <2>1. f \in [SUBSET (1..0) -> V] OBVIOUS
  <2>2. Fold(0, f)
    <3>1. SUBSET (1..0) = {{}} OBVIOUS
    <3> QED BY <3>1
  <2>3. 0 \in 0..n OBVIOUS
  <2> HIDE DEF Fold, f
  <2>4. \E h \in [SUBSET (1..0) -> V] : Fold(0, h) BY <2>1, <2>2
  <2> QED BY <2>3, <2>4
<1>2. ASSUME NEW m \in 0..(n - 1), m \in S
      PROVE  m + 1 \in S
  <2>1. PICK f \in [SUBSET (1..m) -> V] : Fold(m, f) BY <1>2
  <2>2. m \in Nat /\ m + 1 \in 1..n OBVIOUS
  <2> DEFINE g == [s \in SUBSET (1..(m + 1)) |->
                     IF m + 1 \in s THEN step[m + 1][f[s \ {m + 1}]] ELSE f[s]]
  <2>3. ASSUME NEW s \in SUBSET (1..(m + 1))
        PROVE  /\ g[s] \in V
               /\ g[s] = IF s = {} THEN base ELSE step[Max(s)][g[s \ {Max(s)}]]
    <3>1. CASE m + 1 \in s
      <4>1. s \ {m + 1} \in SUBSET (1..m) BY <2>2
      <4>2. f[s \ {m + 1}] \in V BY <4>1
      <4>3. step[m + 1] \in [V -> V] BY <2>2
      <4>4. Max(s) = m + 1
        <5>1. s \subseteq 1..(m + 1) /\ s # {} /\ m + 1 \in Nat BY <3>1, <2>2
        <5> HIDE DEF g, Fold
        <5>2. Max(s) \in s /\ m + 1 <= Max(s) BY <3>1, <5>1, LastIndex
        <5>3. Max(s) \in 1..(m + 1) BY <5>1, <5>2
        <5> QED BY <5>2, <5>3, <2>2
      <4>5. g[s \ {m + 1}] = f[s \ {m + 1}] BY <4>1, <2>2
      <4>6. g[s] = step[m + 1][f[s \ {m + 1}]] BY <3>1
      <4> HIDE DEF g
      <4> QED BY <4>2, <4>3, <4>4, <4>5, <4>6, <3>1
    <3>2. CASE m + 1 \notin s
      <4>1. s \in SUBSET (1..m) BY <3>2, <2>2
      <4>2. s \ {Max(s)} \in SUBSET (1..m) BY <4>1
      <4>3. \A t \in SUBSET (1..m) : g[t] = f[t] BY <2>2
      <4>4. f[s] = IF s = {} THEN base ELSE step[Max(s)][f[s \ {Max(s)}]] BY <4>1, <2>1
      <4>5. f[s] \in V BY <4>1
      <4> HIDE DEF g, Fold
      <4> QED BY <4>1, <4>2, <4>3, <4>4, <4>5
    <3> QED BY <3>1, <3>2
  <2>4. g \in [SUBSET (1..(m + 1)) -> V]
    <3>1. g = [s \in SUBSET (1..(m + 1)) |-> g[s]] OBVIOUS
    <3> HIDE DEF g
    <3> QED BY <3>1, <2>3
  <2>5. Fold(m + 1, g)
    <3> HIDE DEF g
    <3> QED BY <2>3
  <2> HIDE DEF g, Fold
  <2> QED BY <2>2, <2>4, <2>5
<1>3. n \in S
  <2> HIDE DEF S
  <2>1. 0..n \subseteq S BY <1>1, <1>2, EveryIndex
  <2> QED BY <2>1
<1>4. PICK f \in [SUBSET (1..n) -> V] : Fold(n, f) BY <1>3
<1>5. ASSUME NEW s \in SUBSET (1..n), s # {}
      PROVE  Max(s) \in 1..n /\ f[s \ {Max(s)}] \in V
  <2>1. s \subseteq 1..n /\ s \ {Max(s)} \in SUBSET (1..n) OBVIOUS
  <2>2. Max(s) \in s BY <2>1, <1>5, LastIndex
  <2> QED BY <2>1, <2>2
<1> QED BY <1>4, <1>5 DEF IsFold

(* What a fold is after each element of the list.                          *)
IsSteps(h, n, V, base, step) ==
  /\ h \in [0..n -> V]
  /\ h[0] = base
  /\ \A i \in 1..n : h[i] = step[i][h[i - 1]]

(* A fold takes these steps wherever its values are those of V.            *)
TakesSteps(f, n, V, base, step) ==
  /\ f[{}] = base
  /\ \A s \in SUBSET (1..n) :
       s # {} /\ Max(s) \in 1..n /\ f[s \ {Max(s)}] \in V =>
         f[s] = step[Max(s)][f[s \ {Max(s)}]]

(* The fold of a list is where the steps end.                              *)
EndsAs(f, n, V, base, step) == \E h : IsSteps(h, n, V, base, step) /\ f[1..n] = h[n]

(* Such a fold goes through the list from the first to the last.           *)
LEMMA FoldSteps ==
  ASSUME NEW n, NEW V, NEW base, NEW step, IsLoop(n, V, base, step),
         NEW f, TakesSteps(f, n, V, base, step)
  PROVE  EndsAs(f, n, V, base, step)
<1>0. n \in Nat /\ base \in V /\ step \in [1..n -> [V -> V]] BY DEF IsLoop
<1> USE <1>0
<1> DEFINE h == [i \in 0..n |-> f[1..i]]
           S == {i \in 0..n : h[i] \in V}
<1>1. 0 \in 0..n /\ n \in 0..n /\ 1..0 = {} OBVIOUS
<1>2. h[0] = base BY <1>1 DEF TakesSteps
<1>3. ASSUME NEW i \in 1..n, h[i - 1] \in V
      PROVE  h[i] = step[i][h[i - 1]]
  <2>1. /\ 1..i \in SUBSET (1..n) /\ 1..i # {}
        /\ Max(1..i) = i
        /\ (1..i) \ {Max(1..i)} = 1..(i - 1)
    BY Prefix
  <2>2. i \in 0..n /\ i - 1 \in 0..n OBVIOUS
  <2>3. h[i] = f[1..i] /\ h[i - 1] = f[1..(i - 1)] BY <2>2
  <2> HIDE DEF h
  <2> QED BY <2>1, <2>3, <1>3 DEF TakesSteps
<1> HIDE DEF h
<1>4. 0 \in S BY <1>1, <1>2
<1>5. ASSUME NEW i \in 0..(n - 1), i \in S
      PROVE  i + 1 \in S
  <2>1. i + 1 \in 1..n /\ (i + 1) - 1 = i OBVIOUS
  <2>2. h[i + 1] = step[i + 1][h[i]] BY <2>1, <1>3, <1>5
  <2> QED BY <2>1, <2>2, <1>5
<1>6. \A i \in 0..n : h[i] \in V
  <2> HIDE DEF S
  <2>1. 0..n \subseteq S BY <1>4, <1>5, EveryIndex
  <2> QED BY <2>1 DEF S
<1>7. h \in [0..n -> V]
  <2>1. h = [i \in 0..n |-> h[i]] BY DEF h
  <2> QED BY <2>1, <1>6
<1>8. \A i \in 1..n : h[i] = step[i][h[i - 1]]
  <2>1. \A i \in 1..n : i - 1 \in 0..n OBVIOUS
  <2> QED BY <2>1, <1>3, <1>6
<1>9. f[1..n] = h[n] BY <1>1 DEF h
<1> QED BY <1>2, <1>7, <1>8, <1>9 DEF IsSteps, EndsAs

-----------------------------------------------------------------------------
(* buildTagPolicy                                                          *)

Configs == {NoConfig} \cup {ResourceConfig(spec, type) : spec \in Specs, type \in PolicyTypes}

Policies == [blueprints: [BlueprintNames -> Configs], resources: [Services -> SUBSET PolicyTypes]]

(* The lists of tags that users write.                                     *)
LEMMA SpecIs ==
  ASSUME NEW spec \in Specs
  PROVE  /\ spec.thresholdTags \in Seq(ThresholdTag)
         /\ spec.exportedTags \in Seq(ExportedTag)
         /\ spec.searchTags \in Seq(SearchTag)
BY TagPolicyAssumption

(* ... hold tags of their kind.                                            *)
LEMMA TagTypesOfSpec ==
  ASSUME NEW spec \in Specs
  PROVE  /\ ToSet(spec.thresholdTags) \subseteq ThresholdTag
         /\ ToSet(spec.searchTags) \subseteq SearchTag
<1>1. /\ \A i \in DOMAIN spec.thresholdTags : spec.thresholdTags[i] \in ThresholdTag
      /\ \A i \in DOMAIN spec.searchTags : spec.searchTags[i] \in SearchTag
  BY SpecIs
<1> QED BY <1>1 DEF ToSet

(* The service a Tagemon is about is one of the services, and the types it *)
(* makes a policy for are resource types or "*".                           *)
LEMMA ServiceTypeType ==
  ASSUME NEW spec \in Specs
  PROVE  ServiceType(spec) \in Services /\ ResourceTypeGroups(spec) \subseteq PolicyTypes
<1>1. ServiceType(spec) \in Services BY TagPolicyAssumption DEF ServiceType
<1>2. ToSet(spec.thresholdTags) \subseteq ThresholdTag BY TagTypesOfSpec
<1>3. ResourceTypeGroups(spec) \subseteq PolicyTypes
  BY <1>2 DEF ResourceTypeGroups, ThresholdTag, PolicyTypes
<1> QED BY <1>1, <1>3

(* buildTagPolicy starts from a policy.                                    *)
LEMMA NoPolicyType == NoPolicy \in Policies
BY DEF NoPolicy, Policies, Configs

(* A Tagemon asks for a policy of a type of resources of a service.        *)
Asks(spec, s, type) == ServiceType(spec) = s /\ type \in ResourceTypeGroups(spec)

(* It asks for a type under the name of a blueprint, and for the name.     *)
AsksUnder(spec, name, type) ==
  type \in ResourceTypeGroups(spec) /\ BlueprintOf[ServiceType(spec), type] = name

AsksFor(spec, name) == \E type \in ResourceTypeGroups(spec) : AsksUnder(spec, name, type)

(* A Tagemon has one type at most under a name.                            *)
LEMMA OneTypeUnder ==
  ASSUME NEW spec \in Specs, NEW name, NEW type1, NEW type2,
         AsksUnder(spec, name, type1), AsksUnder(spec, name, type2)
  PROVE  type1 = type2
<1>1. ServiceType(spec) \in Services /\ type1 \in PolicyTypes /\ type2 \in PolicyTypes
  BY ServiceTypeType DEF AsksUnder
<1> QED BY <1>1, TagPolicyAssumption DEF AsksUnder

(* One Tagemon of the loop writes the blueprints it asks for and keeps the *)
(* others, and its service refers to its types too.                        *)
LEMMA AddToPolicyType ==
  ASSUME NEW policy \in Policies, NEW spec \in Specs
  PROVE  LET added == AddToPolicy(policy, spec)
         IN /\ added \in Policies
            /\ \A name \in BlueprintNames :
                 ~AsksFor(spec, name) => added.blueprints[name] = policy.blueprints[name]
            /\ \A name \in BlueprintNames, type \in PolicyTypes :
                 AsksUnder(spec, name, type) => added.blueprints[name] = ResourceConfig(spec, type)
            /\ \A s \in Services, type \in PolicyTypes :
                 type \in added.resources[s] <=> type \in policy.resources[s] \/ Asks(spec, s, type)
<1> DEFINE service == ServiceType(spec)
           groups == ResourceTypeGroups(spec)
           named(name) == {type \in groups : BlueprintOf[service, type] = name}
           configs == [name \in BlueprintNames |->
                         IF named(name) = {} THEN policy.blueprints[name]
                         ELSE ResourceConfig(spec, CHOOSE type \in named(name) : TRUE)]
           types == [policy.resources EXCEPT ![service] = @ \cup groups]
           added == AddToPolicy(policy, spec)
<1>1. service \in Services /\ groups \subseteq PolicyTypes BY ServiceTypeType
<1>2. added.blueprints = configs /\ added.resources = types
      /\ added = [blueprints |-> configs, resources |-> types]
  BY DEF AddToPolicy
<1>3. \A type \in PolicyTypes : ResourceConfig(spec, type) \in Configs BY DEF Configs
<1>4. policy.blueprints \in [BlueprintNames -> Configs]
      /\ policy.resources \in [Services -> SUBSET PolicyTypes]
  BY DEF Policies
<1>5. ASSUME NEW name \in BlueprintNames, named(name) # {}
      PROVE  (CHOOSE type \in named(name) : TRUE) \in named(name)
  <2> HIDE DEF named
  <2> QED BY <1>5
<1>6. ASSUME NEW name \in BlueprintNames
      PROVE  /\ configs[name] \in Configs
             /\ ~AsksFor(spec, name) => configs[name] = policy.blueprints[name]
             /\ \A type \in PolicyTypes :
                  AsksUnder(spec, name, type) => configs[name] = ResourceConfig(spec, type)
  <2>1. CASE named(name) = {}
    <3>1. configs[name] = policy.blueprints[name] BY <2>1
    <3>2. \A type : ~AsksUnder(spec, name, type) BY <2>1 DEF AsksUnder
    <3> QED BY <3>1, <3>2, <1>4
  <2>2. CASE named(name) # {}
    <3> DEFINE chosen == CHOOSE type \in named(name) : TRUE
    <3>1. configs[name] = ResourceConfig(spec, chosen) BY <2>2
    <3>2. chosen \in named(name) BY <1>5, <2>2
    <3> HIDE DEF chosen, configs
    <3>3. AsksUnder(spec, name, chosen) /\ chosen \in groups BY <3>2 DEF AsksUnder
    <3>4. AsksFor(spec, name) BY <3>3 DEF AsksFor
    <3>5. configs[name] \in Configs BY <1>1, <1>3, <3>1, <3>3
    <3>6. \A type \in PolicyTypes : AsksUnder(spec, name, type) => type = chosen
      BY <3>3, OneTypeUnder
    <3> QED BY <3>1, <3>4, <3>5, <3>6
  <2> QED BY <2>1, <2>2
<1>7. types \in [Services -> SUBSET PolicyTypes] BY <1>1, <1>4
<1>8. \A s \in Services, type \in PolicyTypes :
        type \in types[s] <=> type \in policy.resources[s] \/ Asks(spec, s, type)
  BY <1>1, <1>4 DEF Asks
<1>9. configs \in [BlueprintNames -> Configs]
  <2>1. configs = [name \in BlueprintNames |-> configs[name]] OBVIOUS
  <2> HIDE DEF configs
  <2> QED BY <2>1, <1>6
<1> HIDE DEF configs, types, added
<1>10. added \in Policies BY <1>2, <1>7, <1>9 DEF Policies
<1>11. \A name \in BlueprintNames :
         ~AsksFor(spec, name) => added.blueprints[name] = policy.blueprints[name]
  BY <1>2, <1>6
<1>12. \A name \in BlueprintNames, type \in PolicyTypes :
         AsksUnder(spec, name, type) => added.blueprints[name] = ResourceConfig(spec, type)
  BY <1>2, <1>6
<1>13. \A s \in Services, type \in PolicyTypes :
         type \in added.resources[s] <=> type \in policy.resources[s] \/ Asks(spec, s, type)
  BY <1>2, <1>8
<1> QED BY <1>10, <1>11, <1>12, <1>13 DEF added

(* buildTagPolicy makes the policy by adding one Tagemon after another.    *)
LEMMA PolicySteps ==
  ASSUME NEW list \in Seq(Specs)
  PROVE  \E h \in [0..Len(list) -> Policies] :
           /\ h[0] = NoPolicy
           /\ \A i \in 1..Len(list) : h[i] = AddToPolicy(h[i - 1], list[i])
           /\ buildTagPolicy(list) = h[Len(list)]
<1> DEFINE n == Len(list)
           step == [i \in 1..n |-> [policy \in Policies |-> AddToPolicy(policy, list[i])]]
           Fold(f) == f = [s \in SUBSET (DOMAIN list) |->
                             IF s = {} THEN NoPolicy
                             ELSE AddToPolicy(f[s \ {Max(s)}], list[Max(s)])]
<1>1. n \in Nat /\ DOMAIN list = 1..n /\ \A i \in 1..n : list[i] \in Specs OBVIOUS
<1>2. IsLoop(n, Policies, NoPolicy, step) BY <1>1, AddToPolicyType, NoPolicyType DEF IsLoop
<1>3. \E f : Fold(f)
  <2>1. PICK f : IsFold(f, n, Policies, NoPolicy, step)
    <3> HIDE DEF step, n
    <3> QED BY <1>2, FoldExists
  <2>2. \A s \in SUBSET (1..n) : f[s] = IF s = {} THEN NoPolicy
                                        ELSE AddToPolicy(f[s \ {Max(s)}], list[Max(s)])
    BY <2>1 DEF IsFold
  <2>3. f = [s \in SUBSET (1..n) |-> f[s]] BY <2>1 DEF IsFold
  <2>4. Fold(f)
    <3> HIDE DEF n
    <3> QED BY <2>2, <2>3, <1>1
  <2> QED BY <2>4
<1>4. PICK f : Fold(f) /\ buildTagPolicy(list) = f[DOMAIN list]
  <2> HIDE DEF n
  <2> QED BY <1>3, Zenon DEF buildTagPolicy, FoldLeft, MapThenFoldSet
<1>5. TakesSteps(f, n, Policies, NoPolicy, step)
  <2> HIDE DEF n
  <2> QED BY <1>1, <1>4 DEF TakesSteps
<1>6. n \in Nat BY <1>1
<1> HIDE DEF step, n, Fold
<1>7. EndsAs(f, n, Policies, NoPolicy, step) BY <1>2, <1>5, FoldSteps
<1>8. PICK h : IsSteps(h, n, Policies, NoPolicy, step) /\ f[1..n] = h[n] BY <1>7 DEF EndsAs
<1>9. ASSUME NEW i \in 1..n
      PROVE  h[i] = AddToPolicy(h[i - 1], list[i])
  <2>1. i - 1 \in 0..n BY <1>6
  <2> QED BY <2>1, <1>8 DEF IsSteps, step
<1> QED BY <1>1, <1>4, <1>8, <1>9 DEF IsSteps, n

(* A configuration is that of the last of the first n Tagemons that ask    *)
(* for the blueprint, and none if nobody does.                             *)
OfTheLast(list, n, name, config) ==
  \/ config = NoConfig /\ \A i \in 1..n : ~AsksFor(list[i], name)
  \/ \E i \in 1..n, type \in PolicyTypes :
       /\ AsksUnder(list[i], name, type)
       /\ config = ResourceConfig(list[i], type)
       /\ \A j \in 1..n : j > i => ~AsksFor(list[j], name)

(* The types of a service are those that the first n Tagemons ask for.     *)
AskedOf(list, n, s, types) ==
  \A type \in PolicyTypes : type \in types <=> \E i \in 1..n : Asks(list[i], s, type)

(* A blueprint is that of the last Tagemon in the list that asks for it:   *)
(* it replaces what others said, of whatever service.                      *)
LEMMA PolicyIsOfTheLast ==
  ASSUME NEW list \in Seq(Specs)
  PROVE  LET policy == buildTagPolicy(list)
         IN /\ policy \in Policies
            /\ \A name \in BlueprintNames :
                 OfTheLast(list, Len(list), name, policy.blueprints[name])
            /\ \A s \in Services : AskedOf(list, Len(list), s, policy.resources[s])
<1> DEFINE n == Len(list)
<1>1. n \in Nat /\ \A i \in 1..n : list[i] \in Specs OBVIOUS
<1> HIDE DEF n
<1>2. PICK h \in [0..n -> Policies] :
        /\ h[0] = NoPolicy
        /\ \A i \in 1..n : h[i] = AddToPolicy(h[i - 1], list[i])
        /\ buildTagPolicy(list) = h[n]
  BY PolicySteps DEF n
<1> DEFINE Shown(m) ==
             /\ \A name \in BlueprintNames : OfTheLast(list, m, name, h[m].blueprints[name])
             /\ \A s \in Services : AskedOf(list, m, s, h[m].resources[s])
           S == {m \in 0..n : Shown(m)}
<1>3. 0 \in S
  <2>1. 0 \in 0..n /\ 1..0 = {} BY <1>1
  <2>2. /\ \A name \in BlueprintNames : h[0].blueprints[name] = NoConfig
        /\ \A s \in Services : h[0].resources[s] = {}
    BY <1>2 DEF NoPolicy
  <2>3. \A name \in BlueprintNames : OfTheLast(list, 0, name, h[0].blueprints[name])
    BY <2>1, <2>2 DEF OfTheLast
  <2>4. \A s \in Services : AskedOf(list, 0, s, h[0].resources[s]) BY <2>1, <2>2 DEF AskedOf
  <2> QED BY <2>1, <2>3, <2>4
<1>4. ASSUME NEW m \in 0..(n - 1), m \in S
      PROVE  m + 1 \in S
  <2> DEFINE spec == list[m + 1]
  <2>1. m \in Nat /\ m + 1 \in 1..n /\ m + 1 \in 0..n /\ (m + 1) - 1 = m BY <1>1
  <2>2. Shown(m) BY <1>4
  <2>3. h[m] \in Policies /\ spec \in Specs /\ h[m + 1] = AddToPolicy(h[m], spec)
    BY <2>1, <1>1, <1>2
  <2>4. /\ \A name \in BlueprintNames :
             ~AsksFor(spec, name) => h[m + 1].blueprints[name] = h[m].blueprints[name]
        /\ \A name \in BlueprintNames, type \in PolicyTypes :
             AsksUnder(spec, name, type) => h[m + 1].blueprints[name] = ResourceConfig(spec, type)
        /\ \A s \in Services, type \in PolicyTypes :
             type \in h[m + 1].resources[s] <=> type \in h[m].resources[s] \/ Asks(spec, s, type)
    <3> HIDE DEF spec
    <3> QED BY <2>3, AddToPolicyType
  <2>5. \A i : i \in 1..(m + 1) <=> i = m + 1 \/ i \in 1..m BY <2>1
  <2>6. ASSUME NEW name \in BlueprintNames
        PROVE  OfTheLast(list, m + 1, name, h[m + 1].blueprints[name])
    <3>1. CASE AsksFor(spec, name)
      <4>1. m + 1 \in 1..(m + 1) /\ \A j \in 1..(m + 1) : ~ j > m + 1 BY <2>1
      <4>2. PICK type \in ResourceTypeGroups(spec) : AsksUnder(spec, name, type)
        BY <3>1 DEF AsksFor
      <4>3. type \in PolicyTypes BY <2>3, ServiceTypeType
      <4>4. h[m + 1].blueprints[name] = ResourceConfig(spec, type) BY <2>4, <4>2, <4>3
      <4> QED BY <4>1, <4>2, <4>3, <4>4 DEF OfTheLast
    <3>2. CASE ~AsksFor(spec, name)
      <4>1. h[m + 1].blueprints[name] = h[m].blueprints[name] BY <3>2, <2>4
      <4>2. OfTheLast(list, m, name, h[m].blueprints[name]) BY <2>2
      <4> QED BY <4>1, <4>2, <3>2, <2>5 DEF OfTheLast
    <3> QED BY <3>1, <3>2
  <2>7. ASSUME NEW s \in Services
        PROVE  AskedOf(list, m + 1, s, h[m + 1].resources[s])
    <3>1. AskedOf(list, m, s, h[m].resources[s]) BY <2>2
    <3> QED BY <3>1, <2>4, <2>5 DEF AskedOf
  <2> QED BY <2>1, <2>6, <2>7
<1>5. n \in S
  <2> HIDE DEF S
  <2>1. 0..n \subseteq S BY <1>1, <1>3, <1>4, EveryIndex
  <2> QED BY <2>1, <1>1
<1>6. h[n] \in Policies BY <1>1
<1> QED BY <1>2, <1>5, <1>6 DEF n

-----------------------------------------------------------------------------
(* The types of the state                                                  *)

(* The Tagemons that exist are finitely many, so that a list of them has   *)
(* an end; a check keeps such a list.                                      *)
TypeOK ==
  /\ tagemons \in [Names -> Specs \cup {NoSpec}]
  /\ IsFiniteSet(Existing)
  /\ listed \in Seq(Specs)

(* Every list of the cache is a list of specifications.                    *)
LEMMA ListingType ==
  ASSUME TypeOK, NEW list \in Listings
  PROVE  list \in Seq(Specs)
<1> DEFINE n == Cardinality(Existing)
<1>1. PICK order \in SetToSeqs(Existing) : list = [i \in DOMAIN order |-> tagemons[order[i]]]
  BY DEF Listings
<1>2. order \in [1..n -> Existing] BY <1>1 DEF SetToSeqs
<1>3. n \in Nat BY FS_CardinalityType DEF TypeOK
<1> HIDE DEF n
<1>4. \A i \in 1..n : tagemons[order[i]] \in Specs BY <1>2 DEF TypeOK, Existing
<1>5. list \in [1..n -> Specs] BY <1>1, <1>2, <1>4
<1> QED BY <1>3, <1>5

(* At first there is no Tagemon and nothing is listed.                     *)
LEMMA InitType == Init => TypeOK
<1> SUFFICES ASSUME Init PROVE TypeOK OBVIOUS
<1>1. Existing = {} BY DEF Init, Existing
<1>2. IsFiniteSet(Existing) BY <1>1, FS_EmptySet
<1> QED BY <1>2 DEF Init, TypeOK

(* What users write are specs, and what a check lists is what they wrote.  *)
LEMMA NextType == TypeOK /\ [Next]_vars => TypeOK'
<1> SUFFICES ASSUME TypeOK, [Next]_vars PROVE TypeOK' OBVIOUS
<1>1. ASSUME NEW n \in Names, Create(n) \/ Edit(n) \/ Delete(n)
      PROVE  TypeOK'
  <2>1. tagemons' \in [Names -> Specs \cup {NoSpec}] BY <1>1 DEF TypeOK, Create, Edit, Delete
  <2>2. IsFiniteSet(Existing')
    <3>1. Existing' \subseteq Existing \cup {n} BY <1>1 DEF TypeOK, Create, Edit, Delete, Existing
    <3>2. IsFiniteSet(Existing \cup {n}) BY FS_AddElement DEF TypeOK
    <3> QED BY <3>1, <3>2, FS_Subset
  <2>3. listed' = listed BY <1>1 DEF Create, Edit, Delete
  <2> QED BY <2>1, <2>2, <2>3 DEF TypeOK
<1>2. ASSUME NEW list \in Listings, CheckCompliance(list)
      PROVE  TypeOK'
  <2>1. list \in Seq(Specs) BY ListingType
  <2>2. listed' = list /\ tagemons' = tagemons BY <1>2 DEF CheckCompliance
  <2>3. Existing' = Existing BY <2>2 DEF Existing
  <2> QED BY <2>1, <2>2, <2>3 DEF TypeOK
<1>3. CASE UNCHANGED vars BY <1>3 DEF vars, TypeOK, Existing
<1> QED BY <1>1, <1>2, <1>3 DEF Next

(* The state of TagPolicy has its types: what is listed was written.       *)
THEOREM TypesOfPolicy == Spec => []TypeOK
BY InitType, NextType, PTL DEF Spec

-----------------------------------------------------------------------------
(* The types of the tags of one Tagemon                                    *)

TypeMaps == [Keys -> TagTypes \cup {NoType}]

(* A key has no type if none of the first n tags is for it, and otherwise  *)
(* that of one of them.                                                    *)
TypeOfOne(tags, n, types, k, type) ==
  \/ type = NoType /\ \A i \in 1..n : ~ (tags[i].key = k /\ tags[i].resourceType \in types)
  \/ \E i \in 1..n : tags[i].key = k /\ tags[i].resourceType \in types /\ type = tags[i].type

(* The types of one Tagemon are set tag by tag.                            *)
LEMMA TypesSteps ==
  ASSUME NEW spec \in Specs, NEW types
  PROVE  LET tags == spec.thresholdTags
         IN \E h \in [0..Len(tags) -> TypeMaps] :
              /\ h[0] = [k \in Keys |-> NoType]
              /\ \A i \in 1..Len(tags) :
                   h[i] = IF tags[i].resourceType \in types
                          THEN [h[i - 1] EXCEPT ![tags[i].key] = tags[i].type] ELSE h[i - 1]
              /\ TypesOf(spec, types) = h[Len(tags)]
<1> DEFINE tags == spec.thresholdTags
           n == Len(tags)
           none == [k \in Keys |-> NoType]
           Add(typeOf, t) == IF t.resourceType \in types
                             THEN [typeOf EXCEPT ![t.key] = t.type] ELSE typeOf
           step == [i \in 1..n |-> [typeOf \in TypeMaps |-> Add(typeOf, tags[i])]]
           Fold(f) == f = [s \in SUBSET (DOMAIN tags) |->
                             IF s = {} THEN none ELSE Add(f[s \ {Max(s)}], tags[Max(s)])]
<1>1. n \in Nat /\ DOMAIN tags = 1..n /\ \A i \in 1..n : tags[i] \in ThresholdTag
  BY SpecIs
<1>2. step \in [1..n -> [TypeMaps -> TypeMaps]]
  <2>1. ASSUME NEW typeOf \in TypeMaps, NEW i \in 1..n
        PROVE  Add(typeOf, tags[i]) \in TypeMaps
    <3>1. tags[i].key \in Keys /\ tags[i].type \in TagTypes BY <1>1 DEF ThresholdTag
    <3> QED BY <3>1 DEF TypeMaps
  <2> HIDE DEF Add, n
  <2> QED BY <2>1
<1>3. none \in TypeMaps BY DEF TypeMaps
<1>4. IsLoop(n, TypeMaps, none, step) BY <1>1, <1>2, <1>3 DEF IsLoop
<1>5. \E f : Fold(f)
  <2>1. PICK f : IsFold(f, n, TypeMaps, none, step)
    <3> HIDE DEF step, n, none
    <3> QED BY <1>4, FoldExists
  <2> HIDE DEF Add
  <2>2. \A s \in SUBSET (1..n) : f[s] = IF s = {} THEN none ELSE Add(f[s \ {Max(s)}], tags[Max(s)])
    BY <2>1 DEF IsFold
  <2>3. f = [s \in SUBSET (1..n) |-> f[s]] BY <2>1 DEF IsFold
  <2>4. Fold(f)
    <3> HIDE DEF n, none
    <3> QED BY <2>2, <2>3, <1>1
  <2> QED BY <2>4
<1>6. PICK f : Fold(f) /\ TypesOf(spec, types) = f[DOMAIN tags]
  <2> HIDE DEF n
  <2> QED BY <1>5, Zenon DEF TypesOf, FoldLeft, MapThenFoldSet
<1>7. TakesSteps(f, n, TypeMaps, none, step)
  <2> HIDE DEF n, Add, none
  <2> QED BY <1>1, <1>6 DEF TakesSteps
<1>8. n \in Nat BY <1>1
<1> HIDE DEF step, n, Fold, none
<1>9. EndsAs(f, n, TypeMaps, none, step) BY <1>4, <1>7, FoldSteps
<1>10. PICK h : IsSteps(h, n, TypeMaps, none, step) /\ f[1..n] = h[n] BY <1>9 DEF EndsAs
<1>11. ASSUME NEW i \in 1..n
      PROVE  h[i] = Add(h[i - 1], tags[i])
  <2>1. i - 1 \in 0..n BY <1>8
  <2> HIDE DEF Add
  <2> QED BY <2>1, <1>10 DEF IsSteps, step
<1> QED BY <1>1, <1>6, <1>10, <1>11 DEF IsSteps, n, none

(* The type of a key is that of some tag of the Tagemon with this key.     *)
LEMMA TypeIsOfOne ==
  ASSUME NEW spec \in Specs, NEW types, NEW k \in Keys
  PROVE  LET tags == spec.thresholdTags
         IN /\ TypesOf(spec, types) \in TypeMaps
            /\ TypeOfOne(tags, Len(tags), types, k, TypesOf(spec, types)[k])
<1> DEFINE tags == spec.thresholdTags
           n == Len(tags)
<1>1. n \in Nat /\ \A i \in 1..n : tags[i] \in ThresholdTag BY SpecIs
<1>2. PICK h \in [0..n -> TypeMaps] :
        /\ h[0] = [key \in Keys |-> NoType]
        /\ \A i \in 1..n : h[i] = IF tags[i].resourceType \in types
                                  THEN [h[i - 1] EXCEPT ![tags[i].key] = tags[i].type]
                                  ELSE h[i - 1]
        /\ TypesOf(spec, types) = h[n]
  BY TypesSteps
<1> HIDE DEF n, tags
<1> DEFINE S == {m \in 0..n : TypeOfOne(tags, m, types, k, h[m][k])}
<1>3. 0 \in S
  <2>1. 0 \in 0..n /\ 1..0 = {} BY <1>1
  <2> QED BY <2>1, <1>2 DEF TypeOfOne
<1>4. ASSUME NEW m \in 0..(n - 1), m \in S
      PROVE  m + 1 \in S
  <2>1. m \in 0..n /\ m + 1 \in 1..n /\ m + 1 \in 0..n /\ (m + 1) - 1 = m BY <1>1
  <2>2. h[m] \in TypeMaps BY <2>1
  <2>3. h[m + 1] = IF tags[m + 1].resourceType \in types
                   THEN [h[m] EXCEPT ![tags[m + 1].key] = tags[m + 1].type]
                   ELSE h[m]
    BY <2>1, <1>2
  <2>4. h[m + 1][k] = IF tags[m + 1].key = k /\ tags[m + 1].resourceType \in types
                      THEN tags[m + 1].type ELSE h[m][k]
    BY <2>2, <2>3 DEF TypeMaps
  <2>5. \A i : i \in 1..(m + 1) <=> i = m + 1 \/ i \in 1..m BY <2>1
  <2>6. TypeOfOne(tags, m, types, k, h[m][k]) BY <1>4
  <2>7. TypeOfOne(tags, m + 1, types, k, h[m + 1][k]) BY <2>4, <2>5, <2>6 DEF TypeOfOne
  <2> QED BY <2>1, <2>7
<1>5. n \in S
  <2> HIDE DEF S
  <2>1. 0..n \subseteq S BY <1>1, <1>3, <1>4, EveryIndex
  <2> QED BY <2>1, <1>1
<1>6. h[n] \in TypeMaps BY <1>1
<1> QED BY <1>2, <1>5, <1>6 DEF n, tags

-----------------------------------------------------------------------------
(* What the policy says                                                    *)

(* Every type with threshold tags is one the Tagemon asks for.             *)
LEMMA CheckedIfTyped == TypeOK => EveryThresholdIsChecked
<1> SUFFICES ASSUME TypeOK, NEW i \in DOMAIN listed,
                    NEW tag \in ToSet(listed[i].thresholdTags)
             PROVE  tag.resourceType \in buildTagPolicy(listed).resources[ServiceType(listed[i])]
  BY DEF EveryThresholdIsChecked
<1> DEFINE spec == listed[i]
           s == ServiceType(spec)
           type == tag.resourceType
<1>1. listed \in Seq(Specs) /\ DOMAIN listed = 1..Len(listed) BY DEF TypeOK
<1>2. spec \in Specs BY <1>1
<1>3. s \in Services BY <1>2, ServiceTypeType
<1>4. tag \in ThresholdTag BY <1>2, TagTypesOfSpec
<1>5. type \in PolicyTypes BY <1>4 DEF ThresholdTag, PolicyTypes
<1>6. Asks(spec, s, type)
  <2>1. spec.thresholdTags # <<>> BY DEF ToSet
  <2> QED BY <2>1 DEF Asks, ResourceTypeGroups
<1>7. AskedOf(listed, Len(listed), s, buildTagPolicy(listed).resources[s])
  <2> HIDE DEF s
  <2> QED BY <1>1, <1>3, PolicyIsOfTheLast
<1> QED BY <1>1, <1>5, <1>6, <1>7 DEF AskedOf

(* The result of the patrol for a resource, and the policy it found by.    *)
LEMMA ResultIs ==
  ASSUME NEW list, NEW resources, NEW result \in Results(list, resources)
  PROVE  LET policy == buildTagPolicy(list)
             resource == result.resource
         IN /\ resource \in resources
            /\ isResourceRelevant(resource, extractAllowedAccountIDs(list), extractSearchTagsFilters(list))
            /\ result.by \in FoundBy(policy, resource)
            /\ result.isCompliant = IsCompliant(ConfigOf(policy, resource.service, result.by), resource)
            /\ result = [resource |-> resource, by |-> result.by, isCompliant |-> result.isCompliant]
BY DEF Results

(* A resource was found because a Tagemon of the list asks for its type or *)
(* for all, and is judged by the last that asks for the blueprint.         *)
LEMMA FoundIs ==
  ASSUME NEW list \in Seq(Specs), NEW resource \in Resources,
         NEW by \in FoundBy(buildTagPolicy(list), resource)
  PROVE  LET service == resource.service
             name == BlueprintOf[service, by]
         IN /\ service \in Services /\ by \in PolicyTypes /\ name \in BlueprintNames
            /\ by = resource.type \/ by = AllTypes
            /\ \E i \in DOMAIN list : Asks(list[i], service, by) /\ AsksFor(list[i], name)
            /\ \E i \in DOMAIN list, type \in PolicyTypes :
                 /\ AsksUnder(list[i], name, type)
                 /\ ConfigOf(buildTagPolicy(list), service, by) = ResourceConfig(list[i], type)
<1> DEFINE policy == buildTagPolicy(list)
           service == resource.service
           name == BlueprintOf[service, by]
           n == Len(list)
<1>1. n \in Nat /\ DOMAIN list = 1..n /\ \A i \in 1..n : list[i] \in Specs OBVIOUS
<1>2. service \in Services /\ resource.type \in ResourceTypes BY TagPolicyAssumption DEF Resource
<1>3. by \in {resource.type, AllTypes} /\ by \in policy.resources[service] BY DEF FoundBy
<1>4. by \in PolicyTypes BY <1>2, <1>3 DEF PolicyTypes
<1>5. name \in BlueprintNames BY <1>2, <1>4, TagPolicyAssumption
<1>6. OfTheLast(list, n, name, policy.blueprints[name]) /\ AskedOf(list, n, service, policy.resources[service])
  <2> HIDE DEF name, service
  <2> QED BY <1>2, <1>5, PolicyIsOfTheLast
<1> HIDE DEF n
<1>7. PICK i \in 1..n : Asks(list[i], service, by) BY <1>3, <1>4, <1>6 DEF AskedOf
<1>8. AsksUnder(list[i], name, by) BY <1>7 DEF Asks, AsksUnder
<1>9. AsksFor(list[i], name) BY <1>8 DEF AsksFor, AsksUnder
<1>10. PICK j \in 1..n, type \in PolicyTypes :
         AsksUnder(list[j], name, type) /\ policy.blueprints[name] = ResourceConfig(list[j], type)
  BY <1>6, <1>9 DEF OfTheLast
<1> QED BY <1>1, <1>2, <1>3, <1>4, <1>5, <1>7, <1>9, <1>10 DEF ConfigOf

(* isResourceRelevant asks for the accounts and for every search tag.      *)
LEMMA AskedForIfTyped == TypeOK => ReportedIsAskedFor
<1> SUFFICES ASSUME TypeOK, NEW resource \in Reported(Results(listed, Resources))
             PROVE  /\ \E i \in DOMAIN listed : resource.account \in listed[i].accounts
                    /\ \A i \in DOMAIN listed : \A search \in ToSet(listed[i].searchTags) :
                         resource.tags[search.key] \in
                           IF search.value = AnyValue THEN Values ELSE {search.value}
  BY DEF ReportedIsAskedFor
<1>1. listed \in Seq(Specs) /\ DOMAIN listed = 1..Len(listed) BY DEF TypeOK
<1> DEFINE policy == buildTagPolicy(listed)
           accounts == extractAllowedAccountIDs(listed)
           searchTags == extractSearchTagsFilters(listed)
<1>2. PICK result \in Results(listed, Resources) : resource = result.resource BY DEF Reported
<1>3. /\ resource \in Resources
      /\ isResourceRelevant(resource, accounts, searchTags)
      /\ result.by \in FoundBy(policy, resource)
  BY <1>2, ResultIs
<1>4. /\ resource.service \in Services /\ resource.type \in ResourceTypes
      /\ resource.tags \in [Keys -> Values \cup {NoTag}]
  BY <1>3, TagPolicyAssumption DEF Resource
<1>5. listed # <<>>
  <2>1. \E i \in DOMAIN listed : Asks(listed[i], resource.service, result.by)
    BY <1>1, <1>3, FoundIs
  <2> QED BY <2>1
<1>6. \E i \in DOMAIN listed : resource.account \in listed[i].accounts
  <2>1. 1 \in DOMAIN listed /\ listed[1] \in Specs BY <1>1, <1>5
  <2>2. listed[1].accounts # {} BY <2>1, TagPolicyAssumption
  <2>3. listed[1].accounts \subseteq accounts BY <2>1 DEF extractAllowedAccountIDs, ToSet
  <2>4. resource.account \in accounts BY <1>3, <2>2, <2>3 DEF isResourceRelevant
  <2> QED BY <2>4 DEF extractAllowedAccountIDs, ToSet
<1>7. ASSUME NEW i \in DOMAIN listed, NEW search \in ToSet(listed[i].searchTags)
      PROVE  resource.tags[search.key] \in
               IF search.value = AnyValue THEN Values ELSE {search.value}
  <2>1. search \in searchTags BY DEF extractSearchTagsFilters, ToSet
  <2>2. /\ resource.tags[search.key] # NoTag
        /\ search.value # AnyValue => resource.tags[search.key] = search.value
    BY <1>3, <2>1 DEF isResourceRelevant
  <2>3. search \in SearchTag BY <1>1, TagTypesOfSpec
  <2>4. search.key \in Keys BY <2>3 DEF SearchTag
  <2> QED BY <1>4, <2>2, <2>4
<1> QED BY <1>6, <1>7

(* An element of a list of specifications is one.                          *)
LEMMA ListedIs ==
  ASSUME NEW list \in Seq(Specs), NEW i \in DOMAIN list
  PROVE  list[i] \in Specs
OBVIOUS

(* What complies with the rules of a Tagemon for a type meets them: it has *)
(* the tags that are mandatory, and those it has are valid.                *)
LEMMA CompliantWithOne ==
  ASSUME NEW spec \in Specs, NEW resource, NEW type, IsCompliant(ResourceConfig(spec, type), resource)
  PROVE  Meets(resource, spec, type)
<1> DEFINE typeOf == TypesOf(spec, {type})
<1>1. /\ \A key \in MandatoryKeys(spec, type) : resource.tags[key] # NoTag
      /\ \A key \in Keys : typeOf[key] # NoType /\ resource.tags[key] # NoTag =>
           IsValid(typeOf[key], resource.tags[key])
  BY DEF IsCompliant, ResourceConfig
<1>2. resource.tags[Name] # NoTag BY <1>1 DEF MandatoryKeys
<1>3. ASSUME NEW tag \in ToSet(spec.exportedTags), tag.required = "true"
      PROVE  resource.tags[tag.key] # NoTag
  BY <1>1, <1>3 DEF MandatoryKeys, RequiredExported, IsRequired
<1>4. ASSUME NEW tag \in ThresholdTagsFor(spec, type)
      PROVE  IF resource.tags[tag.key] = NoTag THEN tag.required = "false"
             ELSE \E declared \in ThresholdTagsFor(spec, type) :
                    declared.key = tag.key /\ IsValid(declared.type, resource.tags[tag.key])
  <2>1. tag \in ToSet(spec.thresholdTags) /\ tag.resourceType = type BY DEF ThresholdTagsFor
  <2>2. tag.required \in Optional /\ tag.key \in Keys BY <2>1, TagTypesOfSpec DEF ThresholdTag
  <2>3. CASE resource.tags[tag.key] = NoTag
    <3>1. ~IsRequired(tag, TRUE) BY <1>1, <2>3 DEF MandatoryKeys
    <3> QED BY <2>2, <2>3, <3>1 DEF IsRequired, Optional
  <2>4. CASE resource.tags[tag.key] # NoTag
    <3> DEFINE tags == spec.thresholdTags
    <3>1. DOMAIN tags = 1..Len(tags) /\ \A i \in 1..Len(tags) : tags[i] \in ThresholdTag
      BY SpecIs
    <3>2. TypeOfOne(tags, Len(tags), {type}, tag.key, typeOf[tag.key]) BY <2>2, TypeIsOfOne
    <3>3. \E i \in 1..Len(tags) : tags[i] = tag BY <2>1, <3>1 DEF ToSet
    <3> HIDE DEF typeOf, tags
    <3>4. PICK i \in 1..Len(tags) :
            tags[i].key = tag.key /\ tags[i].resourceType = type /\ typeOf[tag.key] = tags[i].type
      BY <2>1, <3>2, <3>3 DEF TypeOfOne
    <3>5. typeOf[tag.key] # NoType BY <3>1, <3>4 DEF ThresholdTag, TagTypes, NoType
    <3>6. IsValid(tags[i].type, resource.tags[tag.key]) BY <1>1, <2>2, <2>4, <3>4, <3>5
    <3>7. tags[i] \in ThresholdTagsFor(spec, type) BY <3>1, <3>4 DEF ThresholdTagsFor, ToSet, tags
    <3> QED BY <2>4, <3>4, <3>6, <3>7
  <2> QED BY <2>3, <2>4
<1> QED BY <1>2, <1>3, <1>4 DEF Meets

(* The only Tagemon with rules under the name of a blueprint is the last   *)
(* that wrote there, and it is about the resource's own type.              *)
LEMMA MetIfTyped == TypeOK => CompliantMeetsTheOnlyTagemon
<1> SUFFICES ASSUME TypeOK, NEW result \in Results(listed, Resources), NEW i \in DOMAIN listed,
                    result.isCompliant,
                    AskingFor(listed, BlueprintOf[result.resource.service, result.by]) = {i}
             PROVE  Meets(result.resource, listed[i], result.by)
  BY DEF CompliantMeetsTheOnlyTagemon
<1> DEFINE policy == buildTagPolicy(listed)
           resource == result.resource
           service == resource.service
           by == result.by
           name == BlueprintOf[service, by]
<1>1. listed \in Seq(Specs) /\ listed[i] \in Specs
  <2>1. listed \in Seq(Specs) BY Zenon DEF TypeOK
  <2> QED BY <2>1, ListedIs
<1>2. /\ resource \in Resources
      /\ by \in FoundBy(policy, resource)
      /\ IsCompliant(ConfigOf(policy, service, by), resource)
  BY ResultIs
<1>3. /\ \E j \in DOMAIN listed : Asks(listed[j], service, by) /\ AsksFor(listed[j], name)
      /\ \E j \in DOMAIN listed, type \in PolicyTypes :
           /\ AsksUnder(listed[j], name, type)
           /\ ConfigOf(policy, service, by) = ResourceConfig(listed[j], type)
  BY <1>1, <1>2, FoundIs
<1>4. \A j \in DOMAIN listed : AsksFor(listed[j], name) => j = i
  BY DEF AskingFor, AsksFor, AsksUnder
<1>5. Asks(listed[i], service, by) BY <1>3, <1>4
<1>6. PICK type \in PolicyTypes : /\ AsksUnder(listed[i], name, type)
                                  /\ ConfigOf(policy, service, by) = ResourceConfig(listed[i], type)
  BY <1>3, <1>4 DEF AsksFor, AsksUnder
<1>7. type = by
  <2>1. AsksUnder(listed[i], name, by) BY <1>5 DEF Asks, AsksUnder
  <2> HIDE DEF name
  <2> QED BY <1>1, <1>6, <2>1, OneTypeUnder
<1> QED BY <1>1, <1>2, <1>6, <1>7, CompliantWithOne

-----------------------------------------------------------------------------
(* The order of labels                                                     *)

(* No two keys have the same rank.                                         *)
LEMMA RankIs ==
  /\ Rank \in [Keys -> Nat]
  /\ \A k1, k2 \in Keys : Rank[k1] = Rank[k2] => k1 = k2
BY TagPolicyAssumption

Sorted(keys) == {order \in SetToSeqs(keys) : Increasing(order)}

(* A sorted list has every key once, in the order of ranks.                *)
LEMMA SortedIs ==
  ASSUME NEW keys \in SUBSET Keys, NEW order \in Sorted(keys), IsFiniteSet(keys)
  PROVE  LET n == Cardinality(keys)
         IN /\ n \in Nat /\ order \in [1..n -> keys]
            /\ \A i, j \in 1..n : i < j => Rank[order[i]] < Rank[order[j]]
            /\ \A i, j \in 1..n : order[i] = order[j] => i = j
            /\ \A key \in keys : \E i \in 1..n : order[i] = key
<1> DEFINE n == Cardinality(keys)
<1>1. n \in Nat BY FS_CardinalityType
<1>2. /\ order \in [1..n -> keys]
      /\ \A i, j \in 1..n : i # j => order[i] # order[j]
  BY DEF Sorted, SetToSeqs, Increasing
<1>3. \A i, j \in 1..n : i < j => Rank[order[i]] < Rank[order[j]] BY <1>2 DEF Sorted, Increasing
<1>4. order \in Surjection(1..n, keys)
  <2>1. order \in Injection(1..n, keys) BY <1>2 DEF Injection, IsInjective
  <2>2. Cardinality(1..n) = n BY <1>1, FS_Interval
  <2> QED BY <2>1, <2>2, FS_Injection
<1> QED BY <1>1, <1>2, <1>3, <1>4 DEF Surjection

(* Keys can be sorted in one way only: no two have the same rank.          *)
LEMMA SortedOnce ==
  ASSUME NEW keys \in SUBSET Keys, IsFiniteSet(keys),
         NEW first \in Sorted(keys), NEW second \in Sorted(keys)
  PROVE  first = second
<1> DEFINE n == Cardinality(keys)
           Ordered(order) ==
             /\ order \in [1..n -> keys]
             /\ \A i, j \in 1..n : i < j => Rank[order[i]] < Rank[order[j]]
             /\ \A i, j \in 1..n : order[i] = order[j] => i = j
             /\ \A key \in keys : \E i \in 1..n : order[i] = key
           S == {i \in 0..n : \A j \in 1..i : first[j] = second[j]}
<1>1. n \in Nat /\ Ordered(first) /\ Ordered(second) BY SortedIs
<1> HIDE DEF n
<1>2. \A key \in keys : Rank[key] \in Nat BY RankIs
<1>3. 0 \in S BY <1>1
<1>4. ASSUME NEW i \in 0..(n - 1), i \in S
      PROVE  i + 1 \in S
  <2>1. i + 1 \in 1..n /\ i + 1 \in 0..n /\ i \in 0..n BY <1>1
  <2>2. \A j \in 1..i : first[j] = second[j] /\ j \in 1..n BY <1>1, <1>4
  (* What comes next in one order is no earlier in another that agrees.    *)
  <2>3. ASSUME NEW one, NEW other, Ordered(one), Ordered(other),
               \A j \in 1..i : one[j] = other[j]
        PROVE  Rank[other[i + 1]] <= Rank[one[i + 1]]
    <3>1. PICK j \in 1..n : other[j] = one[i + 1] BY <2>1, <2>3
    <3>2. j \notin 1..i
      <4>1. SUFFICES ASSUME j \in 1..i PROVE FALSE OBVIOUS
      <4>2. one[j] = one[i + 1] BY <2>3, <3>1, <4>1
      <4>3. j = i + 1 BY <2>1, <2>3, <4>2
      <4> QED BY <4>1, <4>3
    <3>3. j = i + 1 \/ i + 1 < j BY <3>2
    <3>4. CASE j = i + 1
      <4>1. Rank[one[i + 1]] \in Nat BY <1>2, <2>1, <2>3
      <4> QED BY <3>1, <3>4, <4>1
    <3>5. CASE i + 1 < j
      <4>1. Rank[other[i + 1]] < Rank[other[j]] BY <2>1, <2>3, <3>5
      <4>2. Rank[other[i + 1]] \in Nat /\ Rank[other[j]] \in Nat BY <1>2, <2>1, <2>3
      <4> QED BY <3>1, <4>1, <4>2
    <3> QED BY <3>3, <3>4, <3>5
  <2>4. Rank[first[i + 1]] = Rank[second[i + 1]]
    <3>1. Rank[second[i + 1]] <= Rank[first[i + 1]]
      <4> HIDE DEF Ordered
      <4> QED BY <1>1, <2>2, <2>3
    <3>2. Rank[first[i + 1]] <= Rank[second[i + 1]]
      <4> HIDE DEF Ordered
      <4> QED BY <1>1, <2>2, <2>3
    <3>3. Rank[first[i + 1]] \in Nat /\ Rank[second[i + 1]] \in Nat BY <1>1, <1>2, <2>1
    <3> QED BY <3>1, <3>2, <3>3
  <2>5. first[i + 1] \in Keys /\ second[i + 1] \in Keys BY <1>1, <2>1
  <2>6. first[i + 1] = second[i + 1] BY <2>4, <2>5, RankIs
  <2>7. \A j \in 1..(i + 1) : j = i + 1 \/ j \in 1..i OBVIOUS
  <2> QED BY <2>1, <2>2, <2>6, <2>7
<1>5. n \in S
  <2> HIDE DEF S
  <2>1. 0..n \subseteq S BY <1>1, <1>3, <1>4, EveryIndex
  <2> QED BY <2>1, <1>1
<1>6. \A j \in 1..n : first[j] = second[j] BY <1>5
<1> QED BY <1>1, <1>6

(* A key of least rank.                                                    *)
LEMMA LeastKey ==
  ASSUME NEW keys \in SUBSET Keys, keys # {}
  PROVE  \E least \in keys : \A key \in keys : Rank[least] <= Rank[key]
<1> DEFINE T == {Rank[key] : key \in keys}
<1>1. T \subseteq Nat /\ T # {} BY RankIs
<1>2. PICK n \in T : \A m \in T : ~ (<<m, n>> \in OpToRel(<, Nat))
  <2> HIDE DEF T
  <2> QED BY <1>1, NatLessThanWellFounded, WFMin
<1>3. PICK least \in keys : n = Rank[least] OBVIOUS
<1>4. ASSUME NEW key \in keys
      PROVE  Rank[least] <= Rank[key]
  <2>1. Rank[key] \in T /\ Rank[key] \in Nat /\ n \in Nat BY <1>1
  <2>2. ~ (Rank[key] < n) BY <1>2, <2>1 DEF OpToRel
  <2> QED BY <1>3, <2>1, <2>2
<1> QED BY <1>4

(* Every finite set of keys can be sorted: the least comes first.          *)
LEMMA SortedExists ==
  ASSUME NEW keys \in SUBSET Keys, IsFiniteSet(keys)
  PROVE  Sorted(keys) # {}
<1> DEFINE n == Cardinality(keys)
           S == {m \in 0..n : \A some \in SUBSET Keys :
                   IsFiniteSet(some) /\ Cardinality(some) = m => Sorted(some) # {}}
<1>1. n \in Nat BY FS_CardinalityType
<1>2. 0 \in S
  <2>1. ASSUME NEW some \in SUBSET Keys, IsFiniteSet(some), Cardinality(some) = 0
        PROVE  Sorted(some) # {}
    <3>1. <<>> \in [1..0 -> some] BY SMT
    <3>2. <<>> \in Sorted(some) BY <2>1, <3>1 DEF Sorted, SetToSeqs, Increasing
    <3> QED BY <3>2
  <2> QED BY <1>1, <2>1
<1> HIDE DEF n
<1>3. ASSUME NEW m \in 0..(n - 1), m \in S
      PROVE  m + 1 \in S
  <2>1. m \in Nat /\ m + 1 \in 0..n BY <1>1
  <2>2. ASSUME NEW some \in SUBSET Keys, IsFiniteSet(some), Cardinality(some) = m + 1
        PROVE  Sorted(some) # {}
    <3>1. some # {} BY <2>1, <2>2, FS_EmptySet
    <3>2. PICK least \in some : \A key \in some : Rank[least] <= Rank[key] BY <3>1, LeastKey
    <3> DEFINE others == some \ {least}
    <3>3. IsFiniteSet(others) /\ Cardinality(others) = m
      <4>1. IsFiniteSet(others) /\ Cardinality(others) = Cardinality(some) - 1
        BY <2>2, FS_RemoveElement
      <4>2. (m + 1) - 1 = m BY <2>1
      <4> QED BY <2>2, <4>1, <4>2
    <3>4. PICK order : order \in Sorted(others)
      <4>1. others \in SUBSET Keys OBVIOUS
      <4> HIDE DEF others
      <4> QED BY <1>3, <3>3, <4>1
    <3>5. /\ order \in [1..m -> others]
          /\ \A i, j \in 1..m : i < j => Rank[order[i]] < Rank[order[j]]
          /\ \A i, j \in 1..m : i # j => order[i] # order[j]
      BY <3>3, <3>4 DEF Sorted, SetToSeqs, Increasing
    <3>6. \A i \in 1..m : Rank[least] < Rank[order[i]]
      <4> SUFFICES ASSUME NEW i \in 1..m PROVE Rank[least] < Rank[order[i]] OBVIOUS
      <4>1. order[i] \in some /\ order[i] # least BY <3>5
      <4>2. Rank[least] <= Rank[order[i]] /\ Rank[least] # Rank[order[i]]
        BY <3>2, <4>1, RankIs
      <4>3. Rank[least] \in Nat /\ Rank[order[i]] \in Nat BY <4>1, RankIs
      <4> QED BY <4>2, <4>3
    <3> DEFINE all == [i \in 1..(m + 1) |-> IF i = 1 THEN least ELSE order[i - 1]]
    <3>7. \A i \in 1..(m + 1) : i = 1 \/ i - 1 \in 1..m BY <2>1
    <3>8. all \in [1..(m + 1) -> some]
      <4>1. \A i \in 1..m : order[i] \in some BY <3>5
      <4> QED BY <3>7, <4>1
    <3>9. ASSUME NEW i \in 1..(m + 1), NEW j \in 1..(m + 1), i < j
          PROVE  Rank[all[i]] < Rank[all[j]]
      <4>1. j - 1 \in 1..m /\ j # 1 BY <2>1, <3>9
      <4>2. CASE i = 1 BY <4>1, <4>2, <3>6
      <4>3. CASE i # 1
        <5>1. i - 1 \in 1..m /\ i - 1 < j - 1 BY <2>1, <3>9, <4>3
        <5> QED BY <4>1, <4>3, <5>1, <3>5
      <4> QED BY <4>2, <4>3
    <3>10. \A i, j \in 1..(m + 1) : i # j => all[i] # all[j]
      <4> SUFFICES ASSUME NEW i \in 1..(m + 1), NEW j \in 1..(m + 1), i # j, all[i] = all[j]
                   PROVE  FALSE
        OBVIOUS
      <4>1. Rank[all[i]] \in Nat BY <3>8, RankIs
      <4>2. i < j \/ j < i BY <2>1
      <4> HIDE DEF all
      <4> QED BY <3>9, <4>1, <4>2
    <3>11. all \in Sorted(some)
      <4>1. DOMAIN all = 1..(m + 1) OBVIOUS
      <4> HIDE DEF all
      <4> QED BY <2>2, <3>8, <3>9, <3>10, <4>1 DEF Sorted, SetToSeqs, Increasing
    <3> QED BY <3>11
  <2> QED BY <2>1, <2>2
<1>4. n \in S
  <2> HIDE DEF S
  <2>1. 0..n \subseteq S BY <1>1, <1>2, <1>3, EveryIndex
  <2> QED BY <2>1, <1>1
<1> QED BY <1>4 DEF n

(* A list has finitely many elements.                                      *)
LEMMA ListIsFinite ==
  ASSUME NEW n \in Nat, NEW f, DOMAIN f = 1..n
  PROVE  IsFiniteSet({f[i] : i \in 1..n})
<1> DEFINE T == {f[i] : i \in 1..n}
           g == [i \in 1..n |-> f[i]]
<1>1. g \in Surjection(1..n, T) BY DEF Surjection
<1>2. IsFiniteSet(1..n) BY FS_Interval
<1> HIDE DEF g, T
<1>3. IsFiniteSet(T) BY <1>1, <1>2, FS_Surjection
<1> QED BY <1>3 DEF T

(* The exported tags of a list are finitely many keys.                     *)
LEMMA ExportedKeysType ==
  ASSUME NEW list \in Seq(Specs)
  PROVE  ExportedKeys(list) \in SUBSET Keys /\ IsFiniteSet(ExportedKeys(list))
<1> DEFINE KeysOf(spec) == {tag.key : tag \in ToSet(spec.exportedTags)}
           n == Len(list)
           keysOf == [i \in 1..n |-> KeysOf(list[i])]
<1>1. n \in Nat /\ DOMAIN list = 1..n /\ \A i \in 1..n : list[i] \in Specs OBVIOUS
<1>2. ASSUME NEW spec \in Specs
      PROVE  KeysOf(spec) \in SUBSET Keys /\ IsFiniteSet(KeysOf(spec))
  <2> DEFINE tags == spec.exportedTags
             m == Len(tags)
             keys == [i \in 1..m |-> tags[i].key]
  <2>1. m \in Nat /\ DOMAIN tags = 1..m /\ \A i \in 1..m : tags[i] \in ExportedTag
    BY SpecIs
  <2>2. KeysOf(spec) = {keys[i] : i \in 1..m} BY <2>1 DEF ToSet
  <2>3. \A i \in 1..m : keys[i] \in Keys BY <2>1 DEF ExportedTag
  <2>4. IsFiniteSet({keys[i] : i \in 1..m})
    <3>1. DOMAIN keys = 1..m OBVIOUS
    <3>2. m \in Nat BY <2>1
    <3> HIDE DEF keys, m
    <3> QED BY <3>1, <3>2, ListIsFinite
  <2> HIDE DEF keys, KeysOf
  <2> QED BY <2>2, <2>3, <2>4
<1> HIDE DEF KeysOf, n
<1>3. IsFiniteSet({keysOf[i] : i \in 1..n})
  <2>1. DOMAIN keysOf = 1..n OBVIOUS
  <2> HIDE DEF keysOf
  <2> QED BY <1>1, <2>1, ListIsFinite
<1>4. ExportedKeys(list) = UNION {keysOf[i] : i \in 1..n}
  <2>1. ExportedKeys(list) = UNION {KeysOf(spec) : spec \in ToSet(list)}
    BY Zenon DEF ExportedKeys, KeysOf
  <2>2. ToSet(list) = {list[i] : i \in 1..n} BY <1>1 DEF ToSet
  <2> QED BY <2>1, <2>2
<1>5. \A keys \in {keysOf[i] : i \in 1..n} : keys \in SUBSET Keys /\ IsFiniteSet(keys)
  BY <1>1, <1>2
<1>6. IsFiniteSet(UNION {keysOf[i] : i \in 1..n})
  <2> HIDE DEF keysOf
  <2> QED BY <1>3, <1>5, FS_UNION
<1> QED BY <1>4, <1>5, <1>6

(* The exported tags are the keys in order, and no other order is.         *)
LEMMA ExportedSorted ==
  ASSUME NEW list \in Seq(Specs)
  PROVE  \E labels : extractExportedTagsOnMetrics(list) = {labels}
<1> DEFINE keys == ExportedKeys(list)
<1>1. keys \in SUBSET Keys /\ IsFiniteSet(keys) BY ExportedKeysType
<1>2. extractExportedTagsOnMetrics(list) = Sorted(keys) BY DEF extractExportedTagsOnMetrics, Sorted
<1> HIDE DEF keys
<1>3. PICK labels : labels \in Sorted(keys) BY <1>1, SortedExists
<1>4. \A order \in Sorted(keys) : order = labels BY <1>1, <1>3, SortedOnce
<1> QED BY <1>2, <1>3, <1>4

(* What a check judges a resource by is the same for lists of the same     *)
(* Tagemons, whoever comes last, if those that ask for one blueprint have  *)
(* the same rules.                                                         *)
LEMMA SameConfig ==
  ASSUME NEW list \in Seq(Specs), NEW other \in Seq(Specs), ToSet(other) = ToSet(list),
         EachItsBlueprint(list), NEW resource \in Resources
  PROVE  LET policy == buildTagPolicy(list)
             another == buildTagPolicy(other)
         IN /\ FoundBy(another, resource) = FoundBy(policy, resource)
            /\ \A by \in FoundBy(policy, resource) :
                 ConfigOf(another, resource.service, by) = ConfigOf(policy, resource.service, by)
<1> DEFINE policy == buildTagPolicy(list)
           another == buildTagPolicy(other)
           service == resource.service
<1>1. /\ DOMAIN list = 1..Len(list) /\ DOMAIN other = 1..Len(other)
      /\ \A i \in DOMAIN list : list[i] \in Specs
      /\ \A i \in DOMAIN other : \E j \in DOMAIN list : list[j] = other[i]
      /\ \A i \in DOMAIN list : \E j \in DOMAIN other : other[j] = list[i]
  <2>1. /\ DOMAIN list = 1..Len(list) /\ DOMAIN other = 1..Len(other)
        /\ \A i \in DOMAIN list : list[i] \in Specs
    OBVIOUS
  <2>2. \A i \in DOMAIN other : other[i] \in ToSet(list) BY DEF ToSet
  <2>3. \A i \in DOMAIN list : list[i] \in ToSet(other) BY DEF ToSet
  <2> QED BY <2>1, <2>2, <2>3 DEF ToSet
<1>2. service \in Services /\ resource.type \in ResourceTypes BY TagPolicyAssumption DEF Resource
<1>3. FoundBy(another, resource) = FoundBy(policy, resource)
  <2>1. /\ AskedOf(list, Len(list), service, policy.resources[service])
        /\ AskedOf(other, Len(other), service, another.resources[service])
    <3> HIDE DEF service
    <3> QED BY <1>2, PolicyIsOfTheLast
  <2>2. resource.type \in PolicyTypes /\ AllTypes \in PolicyTypes BY <1>2 DEF PolicyTypes
  <2>3. \A type \in PolicyTypes : type \in another.resources[service] <=> type \in policy.resources[service]
    BY <1>1, <2>1 DEF AskedOf
  <2> QED BY <2>2, <2>3 DEF FoundBy
<1>4. ASSUME NEW by \in FoundBy(policy, resource)
      PROVE  ConfigOf(another, service, by) = ConfigOf(policy, service, by)
  <2> DEFINE name == BlueprintOf[service, by]
  <2>1. PICK i \in DOMAIN list, type \in PolicyTypes :
          /\ AsksUnder(list[i], name, type)
          /\ ConfigOf(policy, service, by) = ResourceConfig(list[i], type)
    BY FoundIs
  <2>2. PICK j \in DOMAIN other, type2 \in PolicyTypes :
          /\ AsksUnder(other[j], name, type2)
          /\ ConfigOf(another, service, by) = ResourceConfig(other[j], type2)
    <3>1. by \in FoundBy(another, resource) BY <1>3
    <3> QED BY <3>1, FoundIs
  <2>3. PICK k \in DOMAIN list : list[k] = other[j] BY <1>1
  <2>4. name \in BlueprintNames BY FoundIs
  <2> HIDE DEF name
  <2>5. list[i] = list[k]
    <3>1. i \in AskingFor(list, name) /\ k \in AskingFor(list, name)
      BY <2>1, <2>2, <2>3 DEF AskingFor, AsksUnder
    <3> QED BY <2>4, <3>1 DEF EachItsBlueprint
  <2>6. type = type2 BY <1>1, <2>1, <2>2, <2>3, <2>5, OneTypeUnder
  <2> QED BY <2>1, <2>2, <2>3, <2>5, <2>6
<1> QED BY <1>3, <1>4

(* Checks of the same Tagemons, listed in different orders, use the same   *)
(* labels in the same order, and give the same verdicts if the Tagemons    *)
(* that ask for one blueprint have the same rules (sort.Strings,           *)
(* buildTagPolicy).                                                        *)
THEOREM OrderHasNoEffect == Spec => OrderDoesNotShow
<1> DEFINE Same ==
             /\ \A before \in extractExportedTagsOnMetrics(listed),
                   after \in extractExportedTagsOnMetrics(listed') : after = before
             /\ EachItsBlueprint(listed) => Results(listed', Resources) = Results(listed, Resources)
<1>1. TypeOK /\ TypeOK' /\ ToSet(listed') = ToSet(listed) => Same
  <2> SUFFICES ASSUME TypeOK, TypeOK', ToSet(listed') = ToSet(listed) PROVE Same OBVIOUS
  <2>1. listed \in Seq(Specs) /\ listed' \in Seq(Specs) BY DEF TypeOK
  <2>2. extractExportedTagsOnMetrics(listed') = extractExportedTagsOnMetrics(listed)
    BY DEF extractExportedTagsOnMetrics, ExportedKeys
  <2>3. \E labels : extractExportedTagsOnMetrics(listed) = {labels} BY <2>1, ExportedSorted
  <2>4. ASSUME EachItsBlueprint(listed)
        PROVE  Results(listed', Resources) = Results(listed, Resources)
    <3>1. /\ extractAllowedAccountIDs(listed') = extractAllowedAccountIDs(listed)
          /\ extractSearchTagsFilters(listed') = extractSearchTagsFilters(listed)
      BY DEF extractAllowedAccountIDs, extractSearchTagsFilters
    <3> DEFINE policy == buildTagPolicy(listed)
               another == buildTagPolicy(listed')
    <3>2. ASSUME NEW r \in Resources
          PROVE  /\ FoundBy(another, r) = FoundBy(policy, r)
                 /\ \A by \in FoundBy(policy, r) :
                      ConfigOf(another, r.service, by) = ConfigOf(policy, r.service, by)
      BY <2>1, <2>4, SameConfig
    <3> HIDE DEF policy, another
    <3> DEFINE Of(p, r) == {[resource |-> r, by |-> type,
                             isCompliant |-> IsCompliant(ConfigOf(p, r.service, type), r)] :
                              type \in FoundBy(p, r)}
               relevant == {r \in Resources : isResourceRelevant(r, extractAllowedAccountIDs(listed),
                                                                 extractSearchTagsFilters(listed))}
    <3>3. \A r \in relevant : Of(another, r) = Of(policy, r) BY <3>2
    <3>4. /\ Results(listed, Resources) = UNION {Of(policy, r) : r \in relevant}
          /\ Results(listed', Resources) = UNION {Of(another, r) : r \in relevant}
      BY <3>1 DEF Results, policy, another
    <3> HIDE DEF Of, relevant
    <3> QED BY <3>3, <3>4
  <2> QED BY <2>2, <2>3, <2>4
<1> QED BY <1>1, TypesOfPolicy, PTL DEF OrderDoesNotShow

(* A resource type with threshold tags has a policy, whatever other        *)
(* Tagemons of the service ask for and wherever they are in the list       *)
(* (buildTagPolicy).                                                       *)
THEOREM ThresholdsAreChecked == Spec => []EveryThresholdIsChecked
BY TypesOfPolicy, CheckedIfTyped, PTL

(* What a check reports is in a monitored account and has every search tag *)
(* (isResourceRelevant).                                                   *)
THEOREM ReportsWhatIsAskedFor == Spec => []ReportedIsAskedFor
BY TypesOfPolicy, AskedForIfTyped, PTL

(* What is found compliant by a blueprint that one Tagemon alone asks for  *)
(* has its tags with valid values (buildTagPolicy).                        *)
THEOREM CompliantMeets == Spec => []CompliantMeetsTheOnlyTagemon
BY TypesOfPolicy, MetIfTyped, PTL

-----------------------------------------------------------------------------
(* The inductive invariant: what is exported is what the last check that   *)
(* had Tagemons made of its list and of the resources it found.            *)

(* The patrol found the resources of one inventory, for this list or, when *)
(* there was none since, for an earlier one.                               *)
ResultsOfCheck ==
  /\ listed # <<>> => \E inventory \in Inventories : results = Results(listed, inventory)
  /\ results = {} \/ \E list, inventory : inventory \in Inventories /\ results = Results(list, inventory)

(* The exported thresholds are those written, each with a written value.   *)
IsWritten(writes) ==
  /\ DOMAIN thresholds = {w[1] : w \in writes}
  /\ \A series \in DOMAIN thresholds : <<series, thresholds[series]>> \in writes

ThresholdsOfCheck ==
  listed # <<>> => \E exported \in extractExportedTagsOnMetrics(listed) :
                     IsWritten(Writes(thresholdTagsMap(listed), exported, results))

(* The counts are those of the results, also when the list became empty.   *)
CountsOfCheck ==
  LET set == allResourceTypes(results)
  IN \E custom \in [set -> Custom] :
       counts = [series \in set |->
         [value |-> nonCompliantCount(results, series), custom |-> custom[series]]]

(* All of this holds whatever users do between two checks.                 *)
IndInv == ResultsOfCheck /\ ThresholdsOfCheck /\ CountsOfCheck

(* A write has a series and a value.                                       *)
LEMMA WritesArePairs ==
  ASSUME NEW types, NEW exported, NEW patrolled, NEW w \in Writes(types, exported, patrolled)
  PROVE  w = <<w[1], w[2]>>
BY DEF Writes, ResetThresholds, createMetricsForResource

(* The process starts with nothing listed and nothing exported.            *)
LEMMA InitIndInv == MetricsInit => IndInv
<1> SUFFICES ASSUME MetricsInit PROVE IndInv OBVIOUS
<1>1. listed = <<>> /\ results = {} /\ counts = NoMetrics BY DEF MetricsInit, Init
<1>2. allResourceTypes(results) = {} BY <1>1 DEF allResourceTypes
<1>3. CountsOfCheck
  <2> DEFINE custom == [series \in {} |-> 0]
  <2>1. custom \in [{} -> Custom] OBVIOUS
  <2>2. counts = [series \in {} |-> [value |-> nonCompliantCount(results, series),
                                     custom |-> custom[series]]]
    BY <1>1 DEF NoMetrics
  <2> QED BY <1>2, <2>1, <2>2 DEF CountsOfCheck
<1> QED BY <1>1, <1>3 DEF IndInv, ResultsOfCheck, ThresholdsOfCheck, IsWritten

(* Whatever value of a contested series is kept, it was written.           *)
LEMMA SeriesWritten ==
  ASSUME NEW writes, \A w \in writes : w = <<w[1], w[2]>>, SetSeries(writes)
  PROVE  /\ DOMAIN thresholds' = {w[1] : w \in writes}
         /\ \A series \in DOMAIN thresholds' : <<series, thresholds'[series]>> \in writes
<1> DEFINE set == {w[1] : w \in writes}
           valuesOf(series) == {w[2] : w \in {x \in writes : x[1] = series}}
           contested == {series \in set : Cardinality(valuesOf(series)) > 1}
<1>1. PICK last \in [contested -> {w[2] : w \in writes}] :
        /\ \A series \in contested : last[series] \in valuesOf(series)
        /\ thresholds' = [series \in set |->
                            IF series \in contested THEN last[series]
                            ELSE CHOOSE value \in valuesOf(series) : TRUE]
  BY Zenon DEF SetSeries
<1>3. ASSUME NEW series \in set
      PROVE  thresholds'[series] \in valuesOf(series)
  <2>1. PICK w \in writes : w[1] = series OBVIOUS
  <2>2. w[2] \in valuesOf(series) BY <2>1
  <2> HIDE DEF valuesOf, contested, set
  <2>3. (CHOOSE value \in valuesOf(series) : TRUE) \in valuesOf(series) BY <2>2
  <2> QED BY <1>1, <2>3
<1>4. DOMAIN thresholds' = set BY <1>1
<1>5. ASSUME NEW series \in set
      PROVE  <<series, thresholds'[series]>> \in writes
  <2>1. PICK w \in writes : w[1] = series /\ w[2] = thresholds'[series] BY <1>3
  <2> QED BY <2>1
<1> QED BY <1>4, <1>5

(* A check exports the series it writes, each with a written value.        *)
LEMMA ThresholdsWritten ==
  ASSUME NEW list, NEW patrolled, SetThresholds(list, patrolled)
  PROVE  \E exported \in extractExportedTagsOnMetrics(list) :
           LET writes == Writes(thresholdTagsMap(list), exported, patrolled)
           IN /\ DOMAIN thresholds' = {w[1] : w \in writes}
              /\ \A series \in DOMAIN thresholds' : <<series, thresholds'[series]>> \in writes
<1>1. PICK exported \in extractExportedTagsOnMetrics(list) :
        SetSeries(Writes(thresholdTagsMap(list), exported, patrolled))
  BY Zenon DEF SetThresholds
<1> DEFINE writes == Writes(thresholdTagsMap(list), exported, patrolled)
<1>2. \A w \in writes : w = <<w[1], w[2]>> BY WritesArePairs
<1>3. SetSeries(writes) BY <1>1
<1> HIDE DEF writes
<1>4. /\ DOMAIN thresholds' = {w[1] : w \in writes}
      /\ \A series \in DOMAIN thresholds' : <<series, thresholds'[series]>> \in writes
  BY <1>2, <1>3, SeriesWritten
<1> QED BY <1>4 DEF writes

(* A check leaves the exports of its own list and inventory.               *)
LEMMA CheckIndInv == IndInv /\ Check => IndInv'
<1> SUFFICES ASSUME IndInv, Check PROVE IndInv' OBVIOUS
<1>1. PICK list \in Listings :
        /\ CheckCompliance(list)
        /\ \/ list = <<>> /\ UNCHANGED <<results, thresholds, counts>>
           \/ /\ list # <<>>
              /\ \E patrolled \in {Results(list, inventory) : inventory \in Inventories} :
                   /\ results' = patrolled
                   /\ SetThresholds(list, patrolled)
                   /\ updateNonCompliantMetrics(patrolled)
  BY DEF Check
<1>2. listed' = list BY <1>1 DEF CheckCompliance
<1>3. CASE list = <<>> /\ UNCHANGED <<results, thresholds, counts>>
  <2>1. CountsOfCheck'
    BY <1>3 DEF IndInv, CountsOfCheck, allResourceTypes, nonCompliantCount, TypeAndAccount
  <2> QED BY <1>2, <1>3, <2>1 DEF IndInv, ResultsOfCheck, ThresholdsOfCheck, IsWritten
<1>4. CASE list # <<>>
  <2>1. PICK inventory \in Inventories :
          /\ results' = Results(list, inventory)
          /\ SetThresholds(list, Results(list, inventory))
          /\ updateNonCompliantMetrics(Results(list, inventory))
    BY <1>1, <1>4
  <2>2. ResultsOfCheck' BY <1>2, <2>1 DEF ResultsOfCheck
  <2>3. ThresholdsOfCheck'
    BY <1>2, <2>1, ThresholdsWritten DEF ThresholdsOfCheck, IsWritten
  <2>4. CountsOfCheck' BY <2>1 DEF CountsOfCheck, updateNonCompliantMetrics
  <2> QED BY <2>2, <2>3, <2>4 DEF IndInv
<1> QED BY <1>1, <1>3, <1>4

(* The metrics leave the policy as it is: what holds of TagPolicy holds.   *)
THEOREM MetricsImplementPolicy == MetricsSpec => Spec
<1>1. MetricsInit => Init BY DEF MetricsInit
<1>2. [MetricsNext]_metricVars => [Next]_vars
  BY Zenon DEF MetricsNext, Users, Check, Next, metricVars
<1> QED BY <1>1, <1>2, PTL DEF MetricsSpec, Spec

(* What is exported at any time is what the last check that had Tagemons   *)
(* made of its list and of the resources it found: nothing is left over    *)
(* from an earlier check (processResults, resetAllThresholdMetrics).       *)
THEOREM ExportsOfCheck == MetricsSpec => []IndInv
<1>1. IndInv /\ [MetricsNext]_metricVars => IndInv'
  <2> SUFFICES ASSUME IndInv, [MetricsNext]_metricVars PROVE IndInv' OBVIOUS
  <2>1. CASE Check BY <2>1, CheckIndInv
  <2>2. CASE listed' = listed /\ UNCHANGED <<results, thresholds, counts>>
    <3>1. CountsOfCheck'
      BY <2>2 DEF IndInv, CountsOfCheck, allResourceTypes, nonCompliantCount, TypeAndAccount
    <3> QED BY <2>2, <3>1 DEF IndInv, ResultsOfCheck, ThresholdsOfCheck, IsWritten
  <2>3. Users => listed' = listed /\ UNCHANGED <<results, thresholds, counts>>
    BY DEF Users, Create, Edit, Delete
  <2> QED BY <2>1, <2>2, <2>3 DEF MetricsNext, metricVars, vars
<1> QED BY <1>1, InitIndInv, PTL DEF MetricsSpec

-----------------------------------------------------------------------------
(* thresholdTagsMap                                                        *)

Maps == [Services -> TypeMaps]

(* One Tagemon of the loop adds the types of its own tags to its service.  *)
LEMMA AddTypesType ==
  ASSUME NEW types \in Maps, NEW spec \in Specs
  PROVE  /\ AddTypes(types, spec) \in Maps
         /\ \A s \in Services, k \in Keys :
              AddTypes(types, spec)[s][k] =
                IF ServiceType(spec) = s /\ TypesOf(spec, PolicyTypes)[k] # NoType
                THEN TypesOf(spec, PolicyTypes)[k] ELSE types[s][k]
<1>1. ServiceType(spec) \in Services BY ServiceTypeType
<1> DEFINE added == TypesOf(spec, PolicyTypes)
<1>2. ASSUME NEW k \in Keys
      PROVE  added[k] \in TagTypes \cup {NoType}
  <2>1. added \in TypeMaps BY TypeIsOfOne
  <2> QED BY <2>1 DEF TypeMaps
<1> HIDE DEF added
<1>3. AddTypes(types, spec) =
        [types EXCEPT ![ServiceType(spec)] =
           [k \in Keys |-> IF added[k] # NoType THEN added[k] ELSE @[k]]]
  BY DEF AddTypes, added
<1>4. AddTypes(types, spec) \in Maps BY <1>1, <1>2, <1>3 DEF Maps, TypeMaps
<1>5. \A s \in Services, k \in Keys :
        AddTypes(types, spec)[s][k] =
          IF ServiceType(spec) = s /\ added[k] # NoType THEN added[k] ELSE types[s][k]
  BY <1>1, <1>3 DEF Maps, TypeMaps
<1> QED BY <1>4, <1>5 DEF added

(* thresholdTagsMap is filled Tagemon by Tagemon.                          *)
LEMMA MapSteps ==
  ASSUME NEW list \in Seq(Specs)
  PROVE  \E h \in [0..Len(list) -> Maps] :
           /\ h[0] = NoTypes
           /\ \A i \in 1..Len(list) : h[i] = AddTypes(h[i - 1], list[i])
           /\ thresholdTagsMap(list) = h[Len(list)]
<1> DEFINE n == Len(list)
           step == [i \in 1..n |-> [types \in Maps |-> AddTypes(types, list[i])]]
           Fold(f) == f = [s \in SUBSET (DOMAIN list) |->
                             IF s = {} THEN NoTypes
                             ELSE AddTypes(f[s \ {Max(s)}], list[Max(s)])]
<1>1. n \in Nat /\ DOMAIN list = 1..n /\ \A i \in 1..n : list[i] \in Specs OBVIOUS
<1>2. step \in [1..n -> [Maps -> Maps]] BY <1>1, AddTypesType
<1>3. NoTypes \in Maps BY DEF NoTypes, Maps, TypeMaps
<1>4. IsLoop(n, Maps, NoTypes, step) BY <1>1, <1>2, <1>3 DEF IsLoop
<1>5. \E f : Fold(f)
  <2>1. PICK f : IsFold(f, n, Maps, NoTypes, step)
    <3> HIDE DEF step, n
    <3> QED BY <1>4, FoldExists
  <2>2. \A s \in SUBSET (1..n) : f[s] = IF s = {} THEN NoTypes
                                        ELSE AddTypes(f[s \ {Max(s)}], list[Max(s)])
    BY <2>1 DEF IsFold
  <2>3. f = [s \in SUBSET (1..n) |-> f[s]] BY <2>1 DEF IsFold
  <2>4. Fold(f)
    <3> HIDE DEF n
    <3> QED BY <2>2, <2>3, <1>1
  <2> QED BY <2>4
<1>6. PICK f : Fold(f) /\ thresholdTagsMap(list) = f[DOMAIN list]
  <2> HIDE DEF n
  <2> QED BY <1>5, Zenon DEF thresholdTagsMap, FoldLeft, MapThenFoldSet
<1>7. TakesSteps(f, n, Maps, NoTypes, step)
  <2> HIDE DEF n
  <2> QED BY <1>1, <1>6 DEF TakesSteps
<1>8. n \in Nat BY <1>1
<1> HIDE DEF step, n, Fold
<1>9. EndsAs(f, n, Maps, NoTypes, step) BY <1>4, <1>7, FoldSteps
<1>10. PICK h : IsSteps(h, n, Maps, NoTypes, step) /\ f[1..n] = h[n] BY <1>9 DEF EndsAs
<1>11. ASSUME NEW i \in 1..n
      PROVE  h[i] = AddTypes(h[i - 1], list[i])
  <2>1. i - 1 \in 0..n BY <1>8
  <2> QED BY <2>1, <1>10 DEF IsSteps, step
<1> QED BY <1>1, <1>6, <1>10, <1>11 DEF IsSteps, n

(* A Tagemon of a service declares a type for a key.                       *)
Declares(spec, s, k, type) ==
  ServiceType(spec) = s /\ \E tag \in ToSet(spec.thresholdTags) : tag.key = k /\ tag.type = type

(* A key has no type if none of the first n Tagemons of the service        *)
(* declares one, and otherwise one that they declare.                      *)
DeclaredBy(list, n, s, k, type) ==
  \/ type = NoType /\ \A i \in 1..n, other \in TagTypes : ~Declares(list[i], s, k, other)
  \/ type \in TagTypes /\ \E i \in 1..n : Declares(list[i], s, k, type)

(* A Tagemon gives types to the keys it declares and to no other.          *)
LEMMA TypesOfSpec ==
  ASSUME NEW spec \in Specs, NEW k \in Keys, NEW s, ServiceType(spec) = s
  PROVE  LET type == TypesOf(spec, PolicyTypes)[k]
         IN \/ type = NoType /\ \A other \in TagTypes : ~Declares(spec, s, k, other)
            \/ type \in TagTypes /\ type # NoType /\ Declares(spec, s, k, type)
<1> DEFINE tags == spec.thresholdTags
           type == TypesOf(spec, PolicyTypes)[k]
<1>1. DOMAIN tags = 1..Len(tags) /\ \A i \in 1..Len(tags) : tags[i] \in ThresholdTag
  BY SpecIs
<1>2. \A i \in 1..Len(tags) : tags[i].resourceType \in PolicyTypes /\ tags[i].type \in TagTypes
  BY <1>1 DEF ThresholdTag
<1>3. NoType \notin TagTypes BY DEF NoType, TagTypes
<1>4. TypeOfOne(tags, Len(tags), PolicyTypes, k, type) BY TypeIsOfOne
<1>5. ToSet(tags) = {tags[i] : i \in 1..Len(tags)} BY <1>1 DEF ToSet
<1> HIDE DEF type, tags
<1> QED BY <1>2, <1>3, <1>4, <1>5 DEF TypeOfOne, Declares, type, tags

(* A type in thresholdTagsMap was declared by a listed Tagemon.            *)
LEMMA TypeIsDeclared ==
  ASSUME NEW list \in Seq(Specs), NEW s \in Services, NEW k \in Keys
  PROVE  DeclaredBy(list, Len(list), s, k, thresholdTagsMap(list)[s][k])
<1> DEFINE n == Len(list)
<1>1. n \in Nat /\ \A i \in 1..n : list[i] \in Specs OBVIOUS
<1> HIDE DEF n
<1>2. PICK h \in [0..n -> Maps] :
        /\ h[0] = NoTypes
        /\ \A i \in 1..n : h[i] = AddTypes(h[i - 1], list[i])
        /\ thresholdTagsMap(list) = h[n]
  BY MapSteps DEF n
<1> DEFINE S == {m \in 0..n : DeclaredBy(list, m, s, k, h[m][s][k])}
<1>3. 0 \in S
  <2>1. h[0][s][k] = NoType BY <1>2 DEF NoTypes
  <2>2. 0 \in 0..n /\ 1..0 = {} BY <1>1
  <2> QED BY <2>1, <2>2 DEF DeclaredBy
<1>4. ASSUME NEW m \in 0..(n - 1), m \in S
      PROVE  m + 1 \in S
  <2> DEFINE spec == list[m + 1]
             added == TypesOf(spec, PolicyTypes)[k]
  <2>1. m \in 0..n /\ m + 1 \in 1..n /\ m + 1 \in 0..n /\ (m + 1) - 1 = m BY <1>1
  <2>2. DeclaredBy(list, m, s, k, h[m][s][k]) BY <1>4
  <2>3. h[m] \in Maps /\ spec \in Specs /\ h[m + 1] = AddTypes(h[m], spec) BY <2>1, <1>1, <1>2
  <2>4. h[m + 1][s][k] = IF ServiceType(spec) = s /\ added # NoType THEN added ELSE h[m][s][k]
    BY <2>3, AddTypesType
  <2>5. \A i : i \in 1..(m + 1) <=> i = m + 1 \/ i \in 1..m BY <2>1
  <2>6. DeclaredBy(list, m + 1, s, k, h[m + 1][s][k])
    <3>1. CASE ServiceType(spec) = s /\ added # NoType
      <4>1. added \in TagTypes /\ Declares(spec, s, k, added) BY <3>1, <2>3, TypesOfSpec
      <4> QED BY <4>1, <3>1, <2>4, <2>5 DEF DeclaredBy
    <3>2. CASE ~ (ServiceType(spec) = s /\ added # NoType)
      <4>1. \A other \in TagTypes : ~Declares(spec, s, k, other)
        <5>1. CASE ServiceType(spec) # s BY <5>1 DEF Declares
        <5>2. CASE ServiceType(spec) = s BY <5>2, <3>2, <2>3, TypesOfSpec
        <5> QED BY <5>1, <5>2
      <4> HIDE DEF added
      <4> QED BY <4>1, <3>2, <2>2, <2>4, <2>5 DEF DeclaredBy
    <3> QED BY <3>1, <3>2
  <2> QED BY <2>1, <2>6
<1>5. n \in S
  <2> HIDE DEF S
  <2>1. 0..n \subseteq S BY <1>1, <1>3, <1>4, EveryIndex
  <2> QED BY <2>1, <1>1
<1> QED BY <1>2, <1>5 DEF n

-----------------------------------------------------------------------------
(* What is exported                                                        *)

(* A written value is that of a threshold tag of a compliant resource.     *)
LEMMA WriteIs ==
  ASSUME NEW types, NEW exported, NEW patrolled, NEW w \in Writes(types, exported, patrolled)
  PROVE  \E resource \in Compliant(patrolled), key \in Keys :
           LET type == types[resource.service][key]
           IN /\ type # NoType
              /\ HasValue(resource, key)
              /\ w[1] = Series(exported, key, resource)
              /\ w[2] = ReadAs(type, resource.tags[key]) /\ w[2] # NoNumber
<1>1. PICK resource \in Compliant(patrolled) :
        w \in createMetricsForResource(types[resource.service], exported, resource)
  BY DEF Writes, ResetThresholds
<1>2. PICK key \in Keys :
        /\ types[resource.service][key] # NoType
        /\ HasValue(resource, key)
        /\ ReadAs(types[resource.service][key], resource.tags[key]) # NoNumber
        /\ w = <<Series(exported, key, resource),
                 ReadAs(types[resource.service][key], resource.tags[key])>>
  BY <1>1 DEF createMetricsForResource
<1> QED BY <1>2

(* There is one order of labels, and what is exported was written with it. *)
LEMMA ExportedAre ==
  ASSUME TypeOK, IndInv, listed # <<>>, NEW exported \in extractExportedTagsOnMetrics(listed)
  PROVE  LET writes == Writes(thresholdTagsMap(listed), exported, results)
         IN /\ DOMAIN thresholds = {w[1] : w \in writes}
            /\ \A series \in DOMAIN thresholds : <<series, thresholds[series]>> \in writes
<1>1. PICK labels \in extractExportedTagsOnMetrics(listed) :
        IsWritten(Writes(thresholdTagsMap(listed), labels, results))
  BY DEF IndInv, ThresholdsOfCheck
<1>2. labels = exported BY ExportedSorted DEF TypeOK
<1> QED BY <1>1, <1>2 DEF IsWritten

(* Every exported series was written for a compliant resource.             *)
LEMMA OnlyOfCompliant == TypeOK /\ IndInv => ThresholdsOnlyOfCompliant
<1> SUFFICES ASSUME TypeOK, IndInv, NEW exported \in extractExportedTagsOnMetrics(listed),
                    listed # <<>>, NEW series \in DOMAIN thresholds
             PROVE  \E r \in Compliant(results) : series.labels = LabelsOf(exported, r)
  BY DEF ThresholdsOnlyOfCompliant
<1> DEFINE types == thresholdTagsMap(listed)
<1>1. PICK w \in Writes(types, exported, results) : series = w[1] BY ExportedAre
<1>2. PICK r \in Compliant(results), key \in Keys : w[1] = Series(exported, key, r) BY WriteIs
<1> QED BY <1>1, <1>2 DEF Series

(* What the results are about.                                             *)
LEMMA ReportedType ==
  ASSUME ResultsOfCheck, listed # <<>>, NEW resource \in Reported(results)
  PROVE  resource \in Resource
<1>1. PICK inventory \in Inventories : results = Results(listed, inventory) BY DEF ResultsOfCheck
<1>2. resource \in inventory BY <1>1, ResultIs DEF Reported
<1> QED BY <1>2, TagMetricsAssumption, TagPolicyAssumption

(* A key of thresholdTagsMap is declared by a listed Tagemon of the        *)
(* service as what the map has, and every declared key is in the map.      *)
LEMMA DeclaredInMap ==
  ASSUME TypeOK, NEW s \in Services, NEW key \in Keys
  PROVE  LET type == thresholdTagsMap(listed)[s][key]
         IN /\ type # NoType => \E tag \in Declared(s) : tag.key = key /\ tag.type = type
            /\ (\E tag \in Declared(s) : tag.key = key) => type # NoType
<1> DEFINE type == thresholdTagsMap(listed)[s][key]
<1>1. listed \in Seq(Specs) /\ DOMAIN listed = 1..Len(listed) BY DEF TypeOK
<1>2. DeclaredBy(listed, Len(listed), s, key, type) BY <1>1, TypeIsDeclared
<1> HIDE DEF type
<1>3. ASSUME type # NoType
      PROVE  \E tag \in Declared(s) : tag.key = key /\ tag.type = type
  <2>1. PICK i \in DOMAIN listed : Declares(listed[i], s, key, type)
    BY <1>1, <1>2, <1>3 DEF DeclaredBy
  <2> QED BY <2>1 DEF Declares, Declared, About
<1>4. ASSUME NEW tag \in Declared(s), tag.key = key
      PROVE  type # NoType
  <2>1. PICK i \in DOMAIN listed : ServiceType(listed[i]) = s /\ tag \in ToSet(listed[i].thresholdTags)
    BY DEF Declared, About
  <2>2. tag.type \in TagTypes BY <1>1, <2>1, TagTypesOfSpec DEF ThresholdTag
  <2>3. Declares(listed[i], s, key, tag.type) BY <1>4, <2>1 DEF Declares
  <2>4. NoType \notin TagTypes BY DEF NoType, TagTypes
  <2> QED BY <1>1, <1>2, <2>2, <2>3, <2>4 DEF DeclaredBy
<1> QED BY <1>3, <1>4 DEF type

(* Whatever way a key is declared, the map has one: the value is a number, *)
(* is written, and whatever is written to the series is a reading.         *)
LEMMA ExportedIfChecked == TypeOK /\ IndInv => ThresholdsAreExported
<1> SUFFICES ASSUME TypeOK, IndInv,
                    NEW exported \in extractExportedTagsOnMetrics(listed),
                    NEW resource \in Compliant(results),
                    NEW tag \in Declared(resource.service),
                    HasValue(resource, tag.key),
                    \A other \in Declared(resource.service) :
                      other.key = tag.key => ReadAs(other.type, resource.tags[tag.key]) # NoNumber
             PROVE  LET series == Series(exported, tag.key, resource)
                    IN series \in DOMAIN thresholds /\ thresholds[series] \in Readings(exported, series)
  BY DEF ThresholdsAreExported
<1> DEFINE types == thresholdTagsMap(listed)
           writes == Writes(types, exported, results)
           series == Series(exported, tag.key, resource)
<1>1. listed \in Seq(Specs) /\ DOMAIN listed = 1..Len(listed) BY DEF TypeOK
<1>2. PICK i \in DOMAIN listed : tag \in ToSet(listed[i].thresholdTags) BY DEF Declared, About
<1>3. tag.key \in Keys BY <1>1, <1>2, TagTypesOfSpec DEF ThresholdTag
<1>4. \A r \in Compliant(results) : r.service \in Services
  <2>1. \A r \in Compliant(results) : r \in Reported(results) BY DEF Compliant, Reported
  <2> QED BY <2>1, <1>1, <1>2, ReportedType DEF IndInv, Resource
<1>5. /\ DOMAIN thresholds = {w[1] : w \in writes}
      /\ \A x \in DOMAIN thresholds : <<x, thresholds[x]>> \in writes
  <2>1. listed # <<>> BY <1>1, <1>2
  <2> QED BY <2>1, ExportedAre
<1>6. \E w \in writes : w[1] = series
  <2> DEFINE type == types[resource.service][tag.key]
  <2>1. type # NoType BY <1>3, <1>4, DeclaredInMap
  <2>2. \E other \in Declared(resource.service) : other.key = tag.key /\ other.type = type
    BY <1>3, <1>4, <2>1, DeclaredInMap
  <2>3. ReadAs(type, resource.tags[tag.key]) # NoNumber BY <2>2
  <2>4. <<series, ReadAs(type, resource.tags[tag.key])>> \in
          createMetricsForResource(types[resource.service], exported, resource)
    BY <1>3, <2>1, <2>3 DEF createMetricsForResource
  <2>5. <<series, ReadAs(type, resource.tags[tag.key])>> \in writes BY <2>4 DEF Writes
  <2> HIDE DEF writes, series, type
  <2> QED BY <2>5
<1>7. series \in DOMAIN thresholds
  <2> HIDE DEF writes, series
  <2> QED BY <1>5, <1>6
<1>8. ASSUME NEW w \in writes, w[1] = series
      PROVE  w[2] \in Readings(exported, series)
  <2>1. PICK r \in Compliant(results), key \in Keys :
          /\ types[r.service][key] # NoType
          /\ HasValue(r, key)
          /\ w[1] = Series(exported, key, r)
          /\ w[2] = ReadAs(types[r.service][key], r.tags[key]) /\ w[2] # NoNumber
    BY WriteIs
  <2>2. PICK other \in Declared(r.service) : other.key = key /\ other.type = types[r.service][key]
    BY <1>4, <2>1, DeclaredInMap
  <2> HIDE DEF series, types
  <2> QED BY <1>8, <2>1, <2>2 DEF Readings
<1>9. thresholds[series] \in Readings(exported, series)
  <2> HIDE DEF writes, series
  <2>1. <<series, thresholds[series]>> \in writes BY <1>5, <1>7
  <2> QED BY <2>1, <1>8
<1> QED BY <1>7, <1>9

(* The results of one type and account that do not comply are at least as  *)
(* many as its resources that do not, at most twice as many, and as many   *)
(* where no policy for all types of the service finds a resource again.    *)
LEMMA CountedOnce ==
  ASSUME NEW list, NEW inventory \in Inventories, results = Results(list, inventory),
         NEW service, NEW type, NEW account
  PROVE  LET its == [type |-> <<service, type>>, account |-> account]
             violating == Reported({result \in results : ~result.isCompliant})
             number == Cardinality({r \in violating : TypeAndAccount(r) = its})
             counted == nonCompliantCount(results, its)
         IN /\ number <= counted /\ counted <= 2 * number
            /\ AllTypes \notin buildTagPolicy(list).resources[service] => counted = number
<1> DEFINE policy == buildTagPolicy(list)
           its == [type |-> <<service, type>>, account |-> account]
           violating == Reported({result \in results : ~result.isCompliant})
           V == {r \in violating : TypeAndAccount(r) = its}
           R == {result \in results : ~result.isCompliant /\ TypeAndAccount(result.resource) = its}
           By(t) == {result \in R : result.by = t}
<1>1. results = Results(list, inventory) OBVIOUS
<1>2. ASSUME NEW result \in R
      PROVE  /\ result.resource \in V
             /\ result.resource.service = service
             /\ result.by \in {type, AllTypes} \cap policy.resources[service]
  <2>1. TypeAndAccount(result.resource) = its OBVIOUS
  <2>2. result.resource.service = service /\ result.resource.type = type BY <2>1 DEF TypeAndAccount
  <2>3. result.by \in FoundBy(policy, result.resource) BY <1>1, ResultIs
  <2>4. result.resource \in violating BY DEF Reported
  <2> QED BY <2>1, <2>2, <2>3, <2>4 DEF FoundBy
<1>3. \A r \in V : \E result \in R : result.resource = r BY DEF Reported
<1>4. ASSUME NEW x \in R, NEW y \in R, x.resource = y.resource, x.by = y.by
      PROVE  x = y
  <2>1. /\ x = [resource |-> x.resource, by |-> x.by, isCompliant |-> x.isCompliant]
        /\ y = [resource |-> y.resource, by |-> y.by, isCompliant |-> y.isCompliant]
        /\ x.isCompliant = IsCompliant(ConfigOf(policy, x.resource.service, x.by), x.resource)
        /\ y.isCompliant = IsCompliant(ConfigOf(policy, y.resource.service, y.by), y.resource)
    BY <1>1, ResultIs
  <2>2. x.isCompliant = y.isCompliant BY <2>1, <1>4
  <2> QED BY <2>1, <2>2, <1>4, Zenon
<1>5. IsFiniteSet(V)
  <2>1. V \subseteq inventory BY <1>1, ResultIs DEF Reported
  <2>2. IsFiniteSet(inventory) BY TagMetricsAssumption
  <2> HIDE DEF V
  <2> QED BY <2>1, <2>2, FS_Subset
<1>6. R = By(type) \cup By(AllTypes) BY <1>2
<1>7. AllTypes \notin policy.resources[service] => R = By(type) BY <1>2
<1> HIDE DEF policy, R, V, violating
<1>8. ASSUME NEW t
      PROVE  IsFiniteSet(By(t)) /\ Cardinality(By(t)) <= Cardinality(V)
  <2> DEFINE f == [result \in By(t) |-> result.resource]
  <2>1. f \in Injection(By(t), V) BY <1>2, <1>4 DEF Injection, IsInjective
  <2> HIDE DEF f, By
  <2> QED BY <1>5, <2>1, FS_Injection
<1>9. /\ IsFiniteSet(R) /\ Cardinality(R) \in Nat
      /\ Cardinality(R) <= Cardinality(By(type)) + Cardinality(By(AllTypes))
  <2>1. /\ IsFiniteSet(By(type)) /\ IsFiniteSet(By(AllTypes)) BY <1>8
  <2> HIDE DEF By
  <2>2. /\ IsFiniteSet(R)
        /\ Cardinality(R) = Cardinality(By(type)) + Cardinality(By(AllTypes))
                              - Cardinality(By(type) \cap By(AllTypes))
    BY <1>6, <2>1, FS_Union
  <2>3. IsFiniteSet(By(type) \cap By(AllTypes)) BY <2>1, FS_Intersection
  <2>4. /\ Cardinality(By(type)) \in Nat /\ Cardinality(By(AllTypes)) \in Nat
        /\ Cardinality(By(type) \cap By(AllTypes)) \in Nat /\ Cardinality(R) \in Nat
    BY <2>1, <2>2, <2>3, FS_CardinalityType
  <2> QED BY <2>2, <2>4
<1>10. Cardinality(V) <= Cardinality(R)
  <2> DEFINE f == [result \in R |-> result.resource]
  <2>1. f \in Surjection(R, V) BY <1>2, <1>3 DEF Surjection
  <2> HIDE DEF f
  <2> QED BY <1>9, <2>1, FS_Surjection
<1>11. nonCompliantCount(results, its) = Cardinality(R) BY DEF nonCompliantCount, R
<1>12. /\ Cardinality(V) \in Nat /\ Cardinality(By(type)) \in Nat /\ Cardinality(By(AllTypes)) \in Nat
       /\ Cardinality(By(type)) <= Cardinality(V) /\ Cardinality(By(AllTypes)) <= Cardinality(V)
  <2>1. /\ IsFiniteSet(By(type)) /\ IsFiniteSet(By(AllTypes))
        /\ Cardinality(By(type)) <= Cardinality(V) /\ Cardinality(By(AllTypes)) <= Cardinality(V)
    BY <1>8
  <2> HIDE DEF By
  <2> QED BY <1>5, <2>1, FS_CardinalityType
<1> HIDE DEF By, its
<1>13. Cardinality(R) <= 2 * Cardinality(V) BY <1>9, <1>12
<1>14. AllTypes \notin policy.resources[service] => Cardinality(R) = Cardinality(V)
  BY <1>7, <1>9, <1>10, <1>12
<1> QED BY <1>10, <1>11, <1>13, <1>14 DEF V, violating, its, policy

(* The counts are those of the results, of a check or, at first, none.     *)
LEMMA CountedIfChecked == IndInv => CountsOfEveryType
<1> DEFINE policy == buildTagPolicy(listed)
           reported == Reported(results)
           violating == Reported({result \in results : ~result.isCompliant})
           set == allResourceTypes(results)
           number(its) == Cardinality({r \in violating : TypeAndAccount(r) = its})
<1> SUFFICES ASSUME IndInv PROVE CountsOfEveryType OBVIOUS
<1>1. PICK custom \in [set -> Custom] :
        counts = [series \in set |->
          [value |-> nonCompliantCount(results, series), custom |-> custom[series]]]
  BY DEF IndInv, CountsOfCheck
<1>2. set = {TypeAndAccount(r) : r \in reported} BY DEF allResourceTypes, Reported
<1>3. DOMAIN counts = {TypeAndAccount(r) : r \in reported} BY <1>1, <1>2
<1>4. ASSUME NEW resource \in reported
      PROVE  LET its == TypeAndAccount(resource)
             IN /\ number(its) <= counts[its].value /\ counts[its].value <= 2 * number(its)
                /\ listed # <<>> /\ AllTypes \notin policy.resources[resource.service] =>
                     counts[its].value = number(its)
  <2> DEFINE its == TypeAndAccount(resource)
  <2>1. its \in set BY <1>2
  <2>2. counts[its].value = nonCompliantCount(results, its) BY <1>1, <2>1
  <2> DEFINE counted == nonCompliantCount(results, its)
             Between == number(its) <= counted /\ counted <= 2 * number(its)
             Exact(list) == AllTypes \notin buildTagPolicy(list).resources[resource.service] =>
                              counted = number(its)
  <2>3. ASSUME NEW list, NEW inventory \in Inventories, results = Results(list, inventory)
        PROVE  Between /\ Exact(list)
    BY <2>3, CountedOnce DEF TypeAndAccount
  <2>4. \E list, inventory : inventory \in Inventories /\ results = Results(list, inventory)
    BY DEF IndInv, ResultsOfCheck, Reported
  <2>5. listed # <<>> => \E inventory \in Inventories : results = Results(listed, inventory)
    BY DEF IndInv, ResultsOfCheck
  <2> HIDE DEF Between, Exact
  <2>6. Between /\ (listed # <<>> => Exact(listed)) BY <2>3, <2>4, <2>5
  <2> QED BY <2>2, <2>6 DEF Between, Exact
<1> QED BY <1>3, <1>4 DEF CountsOfEveryType

(* The threshold a Tagemon declares is exported for each resource of its   *)
(* service that complies and whose value the Tagemons, however they        *)
(* declare the tag, read as a number, and what is exported is such a       *)
(* reading of a compliant resource with these labels (buildTagPolicy,      *)
(* createMetricsForResource).                                              *)
THEOREM ThresholdsExported == MetricsSpec => []ThresholdsAreExported
BY MetricsImplementPolicy, TypesOfPolicy, ExportsOfCheck, ExportedIfChecked, PTL

(* No threshold of a resource that did not comply at the last check is     *)
(* exported (resetAllThresholdMetrics).                                    *)
THEOREM ThresholdsCompliant == MetricsSpec => []ThresholdsOnlyOfCompliant
BY MetricsImplementPolicy, TypesOfPolicy, ExportsOfCheck, OnlyOfCompliant, PTL

(* Every type and account with reported resources has its count, which is  *)
(* the number that do not comply, or up to twice that where a policy for   *)
(* all types of the service counts again (updateNonCompliantMetrics).      *)
THEOREM CountsExported == MetricsSpec => []CountsOfEveryType
BY ExportsOfCheck, CountedIfChecked, PTL

(* A check that also exports metrics is a check: what is reported, what    *)
(* compliance means, what is checked and that the order of the list does   *)
(* not show is as the policy alone has it.                                 *)
THEOREM PolicyUnderMetrics ==
  MetricsSpec => /\ []ReportedIsAskedFor
                 /\ []CompliantMeetsTheOnlyTagemon
                 /\ []EveryThresholdIsChecked
                 /\ OrderDoesNotShow
BY MetricsImplementPolicy, ReportsWhatIsAskedFor, CompliantMeets, ThresholdsAreChecked,
   OrderHasNoEffect, PTL
===============================================================================
