CONSTANTS
  Names = {a, b}
  AwsRDS = AwsRDS
  AwsBackup = AwsBackup
  rds = rds
  backup = backup
  db = db
  team = team
  quota = quota
  ten = ten
  text = text
  here = here
  there = there
  arn = arn
  cluster = cluster
  Quota = Quota
  five = five
  arn2 = arn2
  stage = stage
  region = region
  Empty = Empty
  True = True
  NoNumber = NoNumber
  Types = {AwsRDS, AwsBackup}
  Services = {rds, backup}
  ServiceOf <- ServiceOfType
  NoService = NoService
  ResourceTypes = {db, cluster}
  AllTypes = AllTypes
  BlueprintNames <- ServicesAndTypes
  BlueprintOf <- OneNameShared
  Keys = {Name, team, quota, Quota}
  Name = Name
  Rank <- RankOfKeys
  Values = {ten, five, text, Empty, True}
  AnyValue = AnyValue
  NoTag = NoTag
  IsValid <- ValidNumber
  Accounts = {here, there}
  ARNs = {arn, arn2}
  Resources <- SomeResources
  Specs <- NineSpecs
  NoSpec = NoSpec
  MetricNames = {Name, team, quota}
  MetricOf <- Metrics
  NameKeys <- NamedBy
  NumberOf <- Numbers
  CustomLabels <- OneLabel
  Inventories <- SomeInventories
SPECIFICATION MetricsSpec
INVARIANTS ReportedIsAskedFor CompliantMeetsTheOnlyTagemon EveryThresholdIsChecked
  ThresholdsAreExported ThresholdsOnlyOfCompliant CountsOfEveryType
PROPERTIES OrderDoesNotShow
