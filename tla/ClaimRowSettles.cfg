SPECIFICATION FairSpec
CONSTANTS
  Deployment = {d1}
  Project = {p1}
  Worker = {w1, w2}
  MaxAttempts = 3
  MaxStalled = 1
  KeepCompleted = 1
  KeepFailed = 1
  FaultKinds <- OnlyRedis
  MaxFaults = 1
PROPERTIES
  EveryRowSettles
\* The requests are finite: the system stops when all are answered and run.
CHECK_DEADLOCK FALSE
