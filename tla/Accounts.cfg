SPECIFICATION Spec
CONSTANTS
  User = {u1, u2, u3}
  Email = {e1, e2}
  Password = {s1, s2}
  Call = {c1, c2, c3}
  Session = {t1, t2}
  None = None
SYMMETRY Symmetry
INVARIANTS
  TypeOK
  EmailUnique
  TokenIsProof
  SessionOfHolder
\* The calls are finite: the system stops when all are answered.
CHECK_DEADLOCK FALSE
