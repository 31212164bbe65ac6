CONSTANTS
  p1 = p1
  p2 = p2
  Proc = {p1, p2}
  r1 = r1
  r2 = r2
  Request = {r1, r2}
  s1 = s1
  State = {s1}
  e1 = e1
  e2 = e2
  Email = {e1, e2}
  Limit = 1
  Window = 1
  StateLife = 1
  CodeLife = 1
  MaxId = 3
  MaxCodes = 1
  MaxOps = 1
  MaxClock = 1
SYMMETRY Alike
SPECIFICATION Spec
INVARIANTS StateUsedOnce OneAccount SignupsBounded
CHECK_DEADLOCK FALSE
