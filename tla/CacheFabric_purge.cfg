CONSTANTS
  c1 = c1
  c2 = c2
  q1 = q1
  q2 = q2
  t1 = t1
  acme = acme
  globex = globex
  Caller = {c1, c2}
  Query = {q1, q2}
  Tag = {t1}
  NoTag = none
  Org = {acme, globex}
  OrgOf <- Orgs
  TalkOf <- OneTalk
  Single = {q1, q2}
  Alike <- Similar
  Messages = {q2}
  MaxEntries = 1
  MaxTalks = 1
  MaxClock = 4
SYMMETRY Callers
SPECIFICATION Spec
INVARIANTS PurgedIsNotServed
CHECK_DEADLOCK FALSE
