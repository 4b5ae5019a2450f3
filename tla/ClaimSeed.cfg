SPECIFICATION Spec
CONSTANTS
  Run = {r1, r2, r3}
  User = {u1, u2}
  Project = {p1, p2, p3}
  Deployment = {d1, d2, d3}
  None = None
SYMMETRY Symmetry
INVARIANT
  SeedIdempotent
\* The runs and the ids are finite.
CHECK_DEADLOCK FALSE
