SPECIFICATION AlikePodsSpec
CONSTANTS
  NoObject = NoObject  NoName = NoName  NoId = NoId  NoJob = NoJob  NoPod = NoPod
  t1 = t1  t2 = t2  n1 = n1  n2 = n2  u1 = u1  u2 = u2  u3 = u3
  q1 = q1  q2 = q2  small = small  large = large  plain = plain  prefixed = prefixed
  Tagemons = {t1}
  Names = {n1}
  Ids = {u1, u2}
  Queries = {q1, q2}
  Intervals = {300}
  Resources = {small, large}
  Namings = {plain}
  Specs <- Twofold
  BuiltName <- OneName
  ReadsLag = TRUE
  ClockStands = TRUE
  RemovedAtAnyTime = FALSE
  MaxGeneration = 3
  MaxCreations = 1
  MaxTouches = 0
  MaxFaults = 1
  MaxRemovals = 1
PROPERTIES SpecTakesEffect DeletionCompletes
CHECK_DEADLOCK FALSE
