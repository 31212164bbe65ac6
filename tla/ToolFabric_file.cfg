CONSTANTS
  Gateway = "gateway"
  Mcp = "mcp"
  Tool = {"read_file", "write_file"}
  Failing = {"read_file", "write_file"}
  old = old
  new = new
  Content = {old, new}
  Requests <- Bodies
  NoTtl = NoTtl
  Ttls = {NoTtl}
  Long = {"read_file"}
  Mid = {}
  LookBack = 1
  SwarmCap = 2
  SwarmTtl = 1
  Watched = TRUE
  MaxClock = 1
  MaxWrites = 1
  MaxHistory = 2
  MaxOps = 3
SYMMETRY Contents
SPECIFICATION Spec
INVARIANTS WarmedReadIsFresh RecentTurnsIntact
CHECK_DEADLOCK FALSE
