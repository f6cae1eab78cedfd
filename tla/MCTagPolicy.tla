----------------------------- MODULE MCTagPolicy -----------------------------
(***************************************************************************)
(* A small instance of TagPolicy: Tagemons for two services, one of them   *)
(* under two names, that differ in what they require.                      *)
(***************************************************************************)
EXTENDS TagPolicy, TLC

CONSTANTS AwsRDS, AwsBackup, rds, backup, db, team, quota, ten, text, here, there, arn

ServiceOfType == AwsRDS :> rds @@ AwsBackup :> backup

KeyRank == Name :> 1 @@ quota :> 2 @@ team :> 3

ServicesAndTypes == Services \X PolicyTypes

(* No two joined names coincide.                                           *)
NameOfItsOwn == [pair \in ServicesAndTypes |-> pair]

(* A resource of each service, in each account, with and without each tag. *)
EveryResource ==
  [id: {arn}, service: Services, type: {db}, account: Accounts,
   tags: [Keys -> {ten, text, NoTag}]]

(* tag-patrol: numbers are valid where a number is asked for.              *)
Valid(type, value) == type \in {"int", "percentage"} => value = ten

TagemonOf(type, service, thresholds, exported, search, accounts) ==
  [type |-> type, resourceExplorerService |-> service, thresholdTags |-> thresholds,
   exportedTags |-> exported, searchTags |-> search, accounts |-> accounts]

Threshold(required) ==
  <<[key |-> quota, type |-> "int", resourceType |-> db, required |-> required]>>

Exported(key, required) == <<[key |-> key, required |-> required]>>

SomeSpecs ==
  { TagemonOf(AwsRDS, NoService, Threshold("unset"), <<>>, <<>>, {here}),
    TagemonOf(AwsRDS, NoService, Threshold("false"), Exported(team, "true"), <<>>, {there}),
    TagemonOf(AwsRDS, NoService, <<>>, Exported(team, "unset"), <<>>, {here}),
    TagemonOf(AwsBackup, NoService, <<>>,
              Exported(quota, "true") \o Exported(team, "false"),
              <<[key |-> team, value |-> text]>>, {there}),
    TagemonOf(AwsBackup, rds, Threshold("true"), Exported(quota, "false"),
              <<[key |-> quota, value |-> AnyValue]>>, {here}) }

=============================================================================
