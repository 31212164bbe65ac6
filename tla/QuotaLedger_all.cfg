CONSTANTS
  k1 = k1
  admin = admin
  s1 = s1
  s2 = s2
  NoKey = NoKey
  Keys = {k1, admin}
  Admin = admin
  Plans <- TwoPlans
  AdminPlan <- Free
  Slots = {s1, s2}
  MaxCost = 2
  Reserves = {0, 2}
  RequireAuth = FALSE
  DbFaults = TRUE
  Crashes = TRUE
  QueueMax = 2
  MaxOps = 5
SPECIFICATION Spec
SYMMETRY SlotSymmetry
INVARIANTS TypeOK BudgetHolds OvershootBounded DurableWhenDrained
CHECK_DEADLOCK FALSE
