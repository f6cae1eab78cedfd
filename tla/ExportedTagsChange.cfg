CONSTANTS
  Scheduler = Scheduler
  Triggers = {t1}
  Few = Few
  Many = Many
  Before = Before
  After = After
  Quota = Quota
  Database = Database
  Total = Total
  Views = {Few, Many}
  NoTagemons = NoTagemons
  Inventories = {Before, After}
  NonCompliant = NonCompliant
  Thresholds = {Quota}
  Samples <- AllSamples
  Findings <- Found
  LabelsOf <- OneEach
  CountLabels = CountLabels
  Unregistered = Unregistered
  NoView = NoView
  NoSample = NoSample
  MaxTriggers = 0
  MaxChanges = 3
  MaxFailures = 0
SPECIFICATION FairSpec
PROPERTIES SelfHealing
