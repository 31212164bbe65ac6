CONSTANTS
  Gateway = "gateway"
  Mcp = "mcp"
  Tool = {"read_file", "list_dir", "write_file"}
  Failing = {}
  old = old
  new = new
  Content = {old, new}
  Requests <- OneBody
  NoTtl = NoTtl
  Ttls = {NoTtl}
  Long = {"read_file"}
  Mid = {"list_dir"}
  LookBack = 0
  SwarmCap = 1
  SwarmTtl = 2
  Watched = FALSE
  MaxClock = 2
  MaxWrites = 1
  MaxHistory = 1
  MaxOps = 2
SYMMETRY Contents
SPECIFICATION Spec
INVARIANTS TypeOK ServedWithinTtl
CHECK_DEADLOCK FALSE
