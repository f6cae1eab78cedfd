SPECIFICATION AlikeSpec
CONSTANTS
  NoObject = NoObject  NoName = NoName  NoId = NoId  NoJob = NoJob
  t1 = t1  t2 = t2  n1 = n1  n2 = n2  u1 = u1  u2 = u2  u3 = u3
  q1 = q1  q2 = q2  small = small  large = large  plain = plain  prefixed = prefixed
  Tagemons = {t1}
  Names = {n1, n2}
  Ids = {u1, u2, u3}
  Queries = {q1, q2}
  Intervals = {300}
  Resources = {small}
  Namings = {plain, prefixed}
  Specs <- QueryAndNaming
  BuiltName <- OneNameEach
  ReadsLag = FALSE
  ClockStands = FALSE
  RemovedAtAnyTime = TRUE
  MaxGeneration = 2
  MaxCreations = 2
  MaxTouches = 0
  MaxFaults = 1
  MaxRemovals = 0
INVARIANT RecordedBeforeFinalizer
PROPERTIES RecordIsFinal DeletionCompletes
CHECK_DEADLOCK FALSE
