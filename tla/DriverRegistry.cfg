SPECIFICATION Spec
CONSTANTS
  Conns = {k1, k2}
  Ops = {o1, o2, o3}
  Kinds = {"use", "list", "refresh", "disconnect", "update", "delete", "create", "test"}
  Interrupts = TRUE
  First = First  NoOp = NoOp  NoConn = NoConn
SYMMETRY Symmetric
INVARIANTS
  StatusIsTrue PoolsAccountedFor StaleOnlyIfRaced CacheFollowsDriver
\* A behaviour ends when every call has been made.
CHECK_DEADLOCK FALSE
