----------------------------- MODULE MCTagMetrics -----------------------------
(***************************************************************************)
(* A small instance of TagMetrics: the Tagemons of MCTagPolicy and some    *)
(* that declare a tag differently, or one with the same metric, or for all *)
(* types, or whose blueprint has a name that another service comes to;     *)
(* resources with and without the tags, and some whose labels coincide.    *)
(***************************************************************************)
EXTENDS TagMetrics, MCTagPolicy

CONSTANTS cluster, Quota, five, arn2, stage, region

RankOfKeys == KeyRank @@ Quota :> 4

Numbers == ten :> 10 @@ five :> 5 @@ text :> NoNumber @@ Empty :> NoNumber @@ True :> NoNumber

(* "quota" and "Quota" are one metric.                                     *)
Metrics == [k \in Keys |-> IF k = Quota THEN quota ELSE k]

NamedBy == <<Name, team>>

(* A name of a blueprint that two services come to.                        *)
OneNameShared == [NameOfItsOwn EXCEPT ![backup, db] = <<rds, cluster>>]

OneLabel == stage :> "production"

TwoLabels == stage :> "production" @@ region :> "eu"

Tagged(name, itsTeam, itsQuota, theQuota) ==
  Name :> name @@ team :> itsTeam @@ quota :> itsQuota @@ Quota :> theQuota

ResourceOf(id, service, type, account, tags) ==
  [id |-> id, service |-> service, type |-> type, account |-> account, tags |-> tags]

ValidNumber(type, value) ==
  CASE type \in {"int", "percentage"} -> value \in {ten, five}
    [] type = "bool" -> value = True
    [] OTHER -> TRUE

Declares(key, type, resourceType) ==
  <<[key |-> key, type |-> type, resourceType |-> resourceType, required |-> "unset"]>>

NineSpecs ==
  { TagemonOf(AwsRDS, NoService, Threshold("unset"), <<>>, <<>>, {here}),
    TagemonOf(AwsRDS, NoService, Threshold("false"), Exported(team, "true"), <<>>, {there}),
    TagemonOf(AwsRDS, NoService, <<>>, Exported(team, "unset"), <<>>, {here}),
    TagemonOf(AwsRDS, NoService, <<>>, Exported(team, "true"), <<>>, {here, there}),
    TagemonOf(AwsRDS, NoService, Declares(quota, "bool", cluster) \o Declares(team, "bool", AllTypes),
              Exported(team, "unset"), <<>>, {here}),
    TagemonOf(AwsRDS, NoService, Declares(Quota, "percentage", db), <<>>, <<>>, {here, there}),
    TagemonOf(AwsBackup, NoService, <<>>,
              Exported(quota, "true") \o Exported(team, "false"),
              <<[key |-> team, value |-> text]>>, {there}),
    TagemonOf(AwsBackup, NoService, Threshold("false"), <<>>, <<>>, {there}),
    TagemonOf(AwsBackup, rds, Threshold("true"), Exported(quota, "false"),
              <<[key |-> quota, value |-> AnyValue]>>, {here}) }

(* Complies, and what is wrong with others.                                *)
good == ResourceOf(arn, rds, db, here, Tagged(text, text, ten, NoTag))
twin == ResourceOf(arn2, rds, db, here, Tagged(text, text, five, NoTag))
both == ResourceOf(arn2, rds, db, here, Tagged(Empty, Empty, ten, five))
nameless == ResourceOf(arn2, rds, db, here, Tagged(NoTag, text, ten, NoTag))
wordy == ResourceOf(arn, rds, db, there, Tagged(text, NoTag, text, ten))
switched == ResourceOf(arn, rds, cluster, here, Tagged(text, True, True, NoTag))
counted == ResourceOf(arn2, rds, cluster, here, Tagged(five, text, ten, ten))
saved == ResourceOf(arn, backup, db, there, Tagged(text, text, five, NoTag))

SomeInventories ==
  {{good, twin, wordy}, {good, nameless, saved}, {both, switched}, {wordy, counted}}

SomeResources ==
  (UNION SomeInventories) \cup
  {ResourceOf(arn, service, db, account, Tagged(name, itsTeam, itsQuota, NoTag)) :
     service \in Services, account \in Accounts,
     name \in {NoTag, text}, itsTeam \in {NoTag, text}, itsQuota \in {NoTag, ten, text}}
===============================================================================
