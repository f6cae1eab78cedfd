------------------------------- MODULE TagPolicy -------------------------------
(***************************************************************************)
(* The tagging policy of src/internal/tagshandler/handler.go: what a check *)
(* makes of the list of Tagemons, and what it then says of a resource.     *)
(* The list comes from the controller's cache, which returns the Tagemons  *)
(* in any order, and users create, edit and delete Tagemons between checks.*)
(***************************************************************************)
EXTENDS Naturals, SequencesExt

CONSTANTS
  Names,          \* names of Tagemons
  Types,          \* spec.type
  Services,       \* services of AWS Resource Explorer
  ServiceOf,      \* the service of a type: "AWS/" dropped, in lower case
  NoService,      \* spec.resourceExplorerService is not set
  ResourceTypes,  \* types of resources
  AllTypes,       \* "*"
  BlueprintNames, \* names of blueprints in a policy
  BlueprintOf,    \* service + "-" + resource type + "-base"
  Keys,           \* tag keys
  Name,           \* the key "Name"
  Rank,           \* the lexical order of keys
  Values,         \* tag values
  AnyValue,       \* searchTags without a value
  NoTag,          \* a resource does not have the tag
  IsValid(_, _),  \* tag-patrol: a tag value is valid for a type
  Accounts,       \* AWS accounts
  ARNs,           \* ids of resources
  Resources,      \* the resources there may be
  Specs,          \* specifications users write
  NoSpec          \* there is no such Tagemon

Optional == {"true", "false", "unset"}

TagTypes == {"int", "bool", "percentage"}

NoType == "none"

PolicyTypes == ResourceTypes \cup {AllTypes}

ThresholdTag == [key: Keys, type: TagTypes, resourceType: PolicyTypes, required: Optional]
ExportedTag == [key: Keys, required: Optional]
SearchTag == [key: Keys, value: Values \cup {AnyValue}]

Resource == [id: ARNs, service: Services, type: ResourceTypes, account: Accounts,
             tags: [Keys -> Values \cup {NoTag}]]

(* A service and a resource type may hold a "-" themselves: two services   *)
(* may come to one name of a blueprint, two types of one service may not.  *)
ASSUME TagPolicyAssumption ==
  /\ ServiceOf \in [Types -> Services]
  /\ NoService \notin Services
  /\ AllTypes \notin ResourceTypes
  /\ BlueprintOf \in [Services \X PolicyTypes -> BlueprintNames]
  /\ \A service \in Services : \A type1, type2 \in PolicyTypes :
       BlueprintOf[service, type1] = BlueprintOf[service, type2] => type1 = type2
  /\ Name \in Keys
  /\ Rank \in [Keys -> Nat]
  /\ \A k1, k2 \in Keys : Rank[k1] = Rank[k2] => k1 = k2
  /\ AnyValue \notin Values /\ NoTag \notin Values
  /\ Resources \subseteq Resource
  /\ NoSpec \notin Specs
  /\ \A spec \in Specs :
       /\ spec.type \in Types
       /\ spec.resourceExplorerService \in Services \cup {NoService}
       /\ spec.thresholdTags \in Seq(ThresholdTag)
       /\ spec.exportedTags \in Seq(ExportedTag)
       /\ spec.searchTags \in Seq(SearchTag)
       /\ spec.accounts \in (SUBSET Accounts) \ {{}}

VARIABLES
  tagemons,  \* the Tagemons there are
  listed     \* the list the last check got

vars == <<tagemons, listed>>

Existing == {n \in Names : tagemons[n] # NoSpec}

-----------------------------------------------------------------------------
(* buildTagPolicy                                                          *)

ServiceType(spec) == IF spec.resourceExplorerService = NoService
                     THEN ServiceOf[spec.type]
                     ELSE spec.resourceExplorerService

(* A flag that is not set has its default: thresholdTags are required,     *)
(* exported tags are not.                                                  *)
IsRequired(tag, default) == tag.required = "true" \/ (tag.required = "unset" /\ default)

RequiredExported(spec) == {tag.key : tag \in {t \in ToSet(spec.exportedTags) : IsRequired(t, FALSE)}}

(* The resource types a Tagemon makes a policy for.                        *)
ResourceTypeGroups(spec) ==
  IF spec.thresholdTags # <<>> THEN {t.resourceType : t \in ToSet(spec.thresholdTags)}
  ELSE IF RequiredExported(spec) # {} THEN {AllTypes} ELSE {}

ThresholdTagsFor(spec, type) == {t \in ToSet(spec.thresholdTags) : t.resourceType = type}

(* The types of the tags for some resource types: the last of several tags *)
(* with the same key gives it.                                             *)
TypesOf(spec, types) ==
  FoldLeft(LAMBDA typeOf, t : IF t.resourceType \in types
                              THEN [typeOf EXCEPT ![t.key] = t.type] ELSE typeOf,
           [k \in Keys |-> NoType], spec.thresholdTags)

(* Mutant of MandatoryKeys: only flags that are set count.                 *)
MandatoryKeysExplicit(spec, type) ==
  {Name} \cup RequiredExported(spec)
    \cup {t.key : t \in {s \in ThresholdTagsFor(spec, type) : IsRequired(s, FALSE)}}

MandatoryKeys(spec, type) ==
  {Name} \cup RequiredExported(spec)
    \cup {t.key : t \in {s \in ThresholdTagsFor(spec, type) : IsRequired(s, TRUE)}}

ResourceConfig(spec, type) ==
  [mandatoryKeys |-> MandatoryKeys(spec, type), validations |-> TypesOf(spec, {type})]

NoConfig == [mandatoryKeys |-> {}, validations |-> [k \in Keys |-> NoType]]

NoPolicy == [blueprints |-> [name \in BlueprintNames |-> NoConfig],
             resources |-> [service \in Services |-> {}]]

(* Mutant of AddToPolicy: what other Tagemons said of the service is lost. *)
AddToNewPolicy(policy, spec) ==
  LET service == ServiceType(spec)
      groups == ResourceTypeGroups(spec)
      named(name) == {type \in groups : BlueprintOf[service, type] = name}
  IN [blueprints |-> [name \in BlueprintNames |->
                        IF named(name) = {} THEN policy.blueprints[name]
                        ELSE ResourceConfig(spec, CHOOSE type \in named(name) : TRUE)],
      resources |-> [policy.resources EXCEPT ![service] = groups]]

(* One Tagemon of the loop: its rules go under the names of blueprints,    *)
(* whoever wrote there before, and its service refers to them by name.     *)
AddToPolicy(policy, spec) ==
  LET service == ServiceType(spec)
      groups == ResourceTypeGroups(spec)
      named(name) == {type \in groups : BlueprintOf[service, type] = name}
  IN [blueprints |-> [name \in BlueprintNames |->
                        IF named(name) = {} THEN policy.blueprints[name]
                        ELSE ResourceConfig(spec, CHOOSE type \in named(name) : TRUE)],
      resources |-> [policy.resources EXCEPT ![service] = @ \cup groups]]

buildTagPolicy(list) == FoldLeft(AddToPolicy, NoPolicy, list)

-----------------------------------------------------------------------------
(* The rest of what a check reads from the list                            *)

extractAllowedAccountIDs(list) == UNION {spec.accounts : spec \in ToSet(list)}

(* Mutant of extractSearchTagsFilters: those of one Tagemon.               *)
SearchTagsOfOne(list) == IF list = <<>> THEN {} ELSE ToSet(Head(list).searchTags)

extractSearchTagsFilters(list) == UNION {ToSet(spec.searchTags) : spec \in ToSet(list)}

ExportedKeys(list) == UNION {{tag.key : tag \in ToSet(spec.exportedTags)} : spec \in ToSet(list)}

(* Mutant of Increasing: the keys stay as the iteration gave them.         *)
AsIterated(keys) == TRUE

Increasing(keys) == \A i, j \in DOMAIN keys : i < j => Rank[keys[i]] < Rank[keys[j]]

(* The labels a check may use: the iteration over a map gives the keys in  *)
(* any order, and sort.Strings leaves those in lexical order.              *)
extractExportedTagsOnMetrics(list) ==
  {labels \in SetToSeqs(ExportedKeys(list)) : Increasing(labels)}

isResourceRelevant(resource, allowedAccountIDs, searchTags) ==
  /\ allowedAccountIDs # {} => resource.account \in allowedAccountIDs
  /\ \A search \in searchTags :
       /\ resource.tags[search.key] # NoTag
       /\ search.value # AnyValue => resource.tags[search.key] = search.value

(* tag-patrol: a resource complies with the policy of its type if it has   *)
(* the mandatory tags and those it has are valid.                          *)
IsCompliant(config, resource) ==
  /\ \A key \in config.mandatoryKeys : resource.tags[key] # NoTag
  /\ \A key \in Keys :
       config.validations[key] # NoType /\ resource.tags[key] # NoTag =>
         IsValid(config.validations[key], resource.tags[key])

(* The patrol asks AWS for the resources of each type that has a policy,   *)
(* "*" being all types of a service, and judges them by it.                *)
FoundBy(policy, resource) ==
  {resource.type, AllTypes} \cap policy.resources[resource.service]

(* ... which means by the blueprint a type of the service refers to.       *)
ConfigOf(policy, service, type) == policy.blueprints[BlueprintOf[service, type]]

(* What a check makes of the resources there are: of those that concern    *)
(* its Tagemons, the results of the patrol.                                *)
Results(list, resources) ==
  LET policy == buildTagPolicy(list)
      allowedAccountIDs == extractAllowedAccountIDs(list)
      searchTags == extractSearchTagsFilters(list)
      relevant == {r \in resources : isResourceRelevant(r, allowedAccountIDs, searchTags)}
  IN UNION {{[resource |-> r, by |-> type,
              isCompliant |-> IsCompliant(ConfigOf(policy, r.service, type), r)] :
               type \in FoundBy(policy, r)} : r \in relevant}

Reported(results) == {result.resource : result \in results}

Compliant(results) == Reported({result \in results : result.isCompliant})

-----------------------------------------------------------------------------
Init == tagemons = [n \in Names |-> NoSpec] /\ listed = <<>>

Create(n) ==
  /\ tagemons[n] = NoSpec
  /\ \E spec \in Specs : tagemons' = [tagemons EXCEPT ![n] = spec]
  /\ UNCHANGED listed

Edit(n) ==
  /\ tagemons[n] # NoSpec
  /\ \E spec \in Specs : tagemons' = [tagemons EXCEPT ![n] = spec]
  /\ UNCHANGED listed

Delete(n) ==
  /\ tagemons[n] # NoSpec
  /\ tagemons' = [tagemons EXCEPT ![n] = NoSpec]
  /\ UNCHANGED listed

(* The lists the cache may return: the Tagemons in some order.             *)
Listings == {[i \in DOMAIN order |-> tagemons[order[i]]] : order \in SetToSeqs(Existing)}

CheckCompliance(list) ==
  /\ listed' = list
  /\ UNCHANGED tagemons

Next == (\E n \in Names : Create(n) \/ Edit(n) \/ Delete(n)) \/ (\E list \in Listings : CheckCompliance(list))

Spec == Init /\ [][Next]_vars

-----------------------------------------------------------------------------
(* Properties                                                              *)

About(list, service) == {i \in DOMAIN list : ServiceType(list[i]) = service}

(* A resource that is reported matches every search tag of every Tagemon   *)
(* (README.md: only resources matching all specified tags are monitored),  *)
(* and a Tagemon monitors its account.                                     *)
ReportedIsAskedFor ==
  \A resource \in Reported(Results(listed, Resources)) :
    /\ \E i \in DOMAIN listed : resource.account \in listed[i].accounts
    /\ \A i \in DOMAIN listed : \A search \in ToSet(listed[i].searchTags) :
         resource.tags[search.key] \in
           IF search.value = AnyValue THEN Values ELSE {search.value}

(* The Tagemons whose rules come under the name of a blueprint.            *)
AskingFor(list, name) ==
  {i \in DOMAIN list : \E type \in ResourceTypeGroups(list[i]) :
                         BlueprintOf[ServiceType(list[i]), type] = name}

(* A Tagemon's rules for a resource type (or for all) are met: there is a  *)
(* name, the tags it exports as required and its threshold tags for the    *)
(* type, and each of these that is there is valid as it declares the key.  *)
Meets(resource, spec, type) ==
  /\ resource.tags[Name] # NoTag
  /\ \A tag \in ToSet(spec.exportedTags) :
       tag.required = "true" => resource.tags[tag.key] # NoTag
  /\ \A tag \in ThresholdTagsFor(spec, type) :
       IF resource.tags[tag.key] = NoTag THEN tag.required = "false"
       ELSE \E declared \in ThresholdTagsFor(spec, type) :
              declared.key = tag.key /\ IsValid(declared.type, resource.tags[tag.key])

(* Where one Tagemon alone has rules under the name of a blueprint, what   *)
(* the check finds compliant by it meets them, whatever Tagemons that ask  *)
(* for other blueprints are listed before or after.                        *)
CompliantMeetsTheOnlyTagemon ==
  \A result \in Results(listed, Resources) : \A i \in DOMAIN listed :
    /\ result.isCompliant
    /\ AskingFor(listed, BlueprintOf[result.resource.service, result.by]) = {i}
    => Meets(result.resource, listed[i], result.by)

(* Several Tagemons about the resources of a type: one that is counted as  *)
(* compliant meets each of them.                                           *)
CompliantMeetsEveryTagemon ==
  \A result \in Results(listed, Resources) : \A i \in About(listed, result.resource.service) :
    result.isCompliant /\ result.by \in ResourceTypeGroups(listed[i]) =>
      Meets(result.resource, listed[i], result.by)

(* A resource type that some Tagemon has threshold tags for is in the      *)
(* policy of its service, whatever other Tagemons ask for.                 *)
EveryThresholdIsChecked ==
  LET policy == buildTagPolicy(listed)
  IN \A i \in DOMAIN listed : \A tag \in ToSet(listed[i].thresholdTags) :
       tag.resourceType \in policy.resources[ServiceType(listed[i])]

(* No two Tagemons with different rules ask for one blueprint.             *)
EachItsBlueprint(list) ==
  \A name \in BlueprintNames : \A i, j \in AskingFor(list, name) : list[i] = list[j]

(* Neither the order in which the cache lists the Tagemons nor that of an  *)
(* iteration over a map shows: two checks of the same Tagemons use the     *)
(* same labels in the same order, since gauges are registered by one and   *)
(* set by another, and give the same verdicts, if each Tagemon has its own *)
(* blueprints.                                                             *)
OrderDoesNotShow ==
  [][listed' # listed /\ ToSet(listed') = ToSet(listed) =>
       /\ \A before \in extractExportedTagsOnMetrics(listed),
             after \in extractExportedTagsOnMetrics(listed') : after = before
       /\ EachItsBlueprint(listed) => Results(listed', Resources) = Results(listed, Resources)]_listed
===============================================================================
