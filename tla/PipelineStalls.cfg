SPECIFICATION FairSpec
CONSTANTS
  Deployment = {d1}
  Project = {p1}
  Worker = {w1, w2}
  MaxAttempts = 2
  MaxStalled = 1
  KeepCompleted = 1
  KeepFailed = 1
  FaultKinds <- AllFaults
  MaxFaults = 3
INVARIANTS
  TypeOK
  RowHasProject
  FailNeverSucceeds
  BuildsBounded
PROPERTIES
  DeletedStaysDeleted
  EveryJobSettles
  SlotsAreReleased
\* The requests are finite: the system stops when all are answered and run.
CHECK_DEADLOCK FALSE
