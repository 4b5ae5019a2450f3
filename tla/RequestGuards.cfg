SPECIFICATION Spec
CONSTANTS
  Address = {a1, a2}
  Route = {login, api}
  Public = {login}
  Throttled = {login}
  DefaultLimit = 2
  LoginLimit = 1
  Ttl = 2
  Request = {q1, q2, q3, q4}
  MaxTime = 4
  MaxLife = 1
SYMMETRY Symmetry
INVARIANTS
  TypeOK
  RatePerAddress
  RefusedAfterBurst
\* Requests and clock are finite.
CHECK_DEADLOCK FALSE
