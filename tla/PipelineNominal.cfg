SPECIFICATION FairSpec
CONSTANTS
  Deployment = {d1, d2}
  Project = {p1}
  Worker = {w1, w2}
  MaxAttempts = 3
  MaxStalled = 1
  KeepCompleted = 1
  KeepFailed = 1
  FaultKinds <- NoFaults
  MaxFaults = 0
INVARIANTS
  SettledJobSettledRow
  NoOrphanRow
PROPERTIES
  EveryRowSettles
  ImplementsLifecycle
\* The requests are finite: the system stops when all are answered and run.
CHECK_DEADLOCK FALSE
