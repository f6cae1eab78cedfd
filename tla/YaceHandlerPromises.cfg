SPECIFICATION NotMisledSpec
CONSTANTS
  NoObject = NoObject  NoName = NoName  NoId = NoId  NoJob = NoJob  NoSpec = NoSpec  Nothing = Nothing
  t1 = t1  t2 = t2  n1 = n1  n2 = n2  u1 = u1  u2 = u2  u3 = u3
  q1 = q1  q2 = q2  small = small  large = large  plain = plain  prefixed = prefixed
  Tagemons = {t1}
  Names = {n1}
  Ids = {u1, u2, u3}
  Queries = {q1, q2}
  Intervals = {300}
  Resources = {small, large}
  Namings = {plain}
  Specs <- Twofold
  BuiltName <- OneName
  ReadsLag = TRUE
  ClockStands = FALSE
  RemovedAtAnyTime = TRUE
  MaxGeneration = 3
  MaxCreations = 2
  MaxTouches = 0
  MaxFaults = 1
  MaxRemovals = 0
SYMMETRY SameIds
INVARIANT ObservedMeansApplied
PROPERTIES DeletionLeavesNothing ImplementsLifecycle
CHECK_DEADLOCK FALSE
