SPECIFICATION Spec
CONSTANTS
  User = {u1, u2}
  Project = {p1, p2}
  Deployment = {d1}
  Name = {n1, n2}
  Repo = {r1}
  Call = {c1, c2}
  None = None
  Null = Null
SYMMETRY Symmetry
INVARIANTS
  TypeOK
  RemovedOnce
  DeploymentsByOwner
  ReadsStayInside
  ForeignIsNotFound
PROPERTIES
  EveryWriteAsked
  ImplementsStore
\* The calls are finite: the system stops when all are answered.
CHECK_DEADLOCK FALSE
