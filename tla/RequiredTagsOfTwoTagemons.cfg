CONSTANTS
  Names = {a, b, c}
  AwsRDS = AwsRDS
  AwsBackup = AwsBackup
  rds = rds
  backup = backup
  db = db
  team = team
  quota = quota
  ten = ten
  text = text
  here = here
  there = there
  arn = arn
  Types = {AwsRDS, AwsBackup}
  Services = {rds, backup}
  ServiceOf <- ServiceOfType
  NoService = NoService
  ResourceTypes = {db}
  AllTypes = AllTypes
  BlueprintNames <- ServicesAndTypes
  BlueprintOf <- NameOfItsOwn
  Keys = {Name, team, quota}
  Name = Name
  Rank <- KeyRank
  Values = {ten, text}
  AnyValue = AnyValue
  NoTag = NoTag
  IsValid <- Valid
  Accounts = {here, there}
  ARNs = {arn}
  Resources <- EveryResource
  Specs <- SomeSpecs
  NoSpec = NoSpec
SPECIFICATION Spec
INVARIANTS CompliantMeetsEveryTagemon
