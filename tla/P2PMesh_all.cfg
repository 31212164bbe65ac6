CONSTANTS
  Nodes = {1, 2}
  Resources = {r1, r2}
  MaxTombstones = 1
  Flaky = {2}
  Restarts = {1}
  MaxTime = 1
  MaxMutations <- TwoOne
SPECIFICATION Spec
SYMMETRY ResourceSymmetry
INVARIANTS TypeOK KnowsNoFuture
PROPERTIES CausalMonotonicity NewerReplacesOlder
CHECK_DEADLOCK FALSE
