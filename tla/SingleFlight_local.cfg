CONSTANTS
  p1 = p1
  p2 = p2
  r1 = r1
  r2 = r2
  r3 = r3
  NoOne = NoOne
  Pending = Pending
  Proc = {p1}
  Req = {r1, r2, r3}
  home <- HomeOne
  Distributed = FALSE
  RedisFaults = FALSE
  LeaseMayLapse = FALSE
  Crashes = {p1}
SPECIFICATION Spec
INVARIANTS NoOrphanedFollower FreshAnswers
CHECK_DEADLOCK FALSE
