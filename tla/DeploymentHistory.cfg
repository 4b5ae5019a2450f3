SPECIFICATION Spec
CONSTANTS
  Deployment = {d1, d2, d3}
  Number <- SomeNumbers
  DefaultLimit = 1
  MaxLimit = 2
  RecentLimit = 1
  KeepCompleted = 1
  KeepFailed = 2
  MaxTime = 2
SYMMETRY Symmetry
INVARIANTS
  TypeOK
  LimitIsClosest
  KnownIsListed
  PrunedAreOldest
\* Requests and clock are finite.
CHECK_DEADLOCK FALSE
