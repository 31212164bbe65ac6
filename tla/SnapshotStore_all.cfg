CONSTANTS
  c1 = c1
  c2 = c2
  k1 = k1
  Client = {c1, c2}
  Key = {k1}
  Scopes <- OneScope
  Ops = {"persist", "persist_sync", "spend", "delete", "read", "close"}
  QueueMax = 2
  BatchMax = 2
  MaxOps = 4
  DbFaults = TRUE
  Crashes = TRUE
SPECIFICATION FairSpec
INVARIANTS TypeOK DeletedStaysDeleted SpendCountedOnce CloseDrains
PROPERTIES DbNeverRegresses InOrder NothingStalls
CHECK_DEADLOCK FALSE
