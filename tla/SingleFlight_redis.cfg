CONSTANTS
  p1 = p1
  p2 = p2
  r1 = r1
  r2 = r2
  r3 = r3
  NoOne = NoOne
  Pending = Pending
  Proc = {p1, p2}
  Req = {r1, r2, r3}
  home <- HomeThree
  Distributed = TRUE
  RedisFaults = TRUE
  LeaseMayLapse = TRUE
  Crashes = {p2}
SPECIFICATION FairSpec
INVARIANTS TypeOK OneExecutionPerProcess FlightsAgree NoAnswerWithheld LeadersHoldTheLock
PROPERTIES PromiseKept EveryCallEnds
CHECK_DEADLOCK FALSE
