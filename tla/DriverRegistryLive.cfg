SPECIFICATION FairSpec
CONSTANTS
  Conns = {k1, k2}
  Ops = {o1, o2, o3}
  Kinds = {"use", "disconnect"}
  Interrupts = TRUE
  First = First  NoOp = NoOp  NoConn = NoConn
PROPERTY CallsEnd
\* A behaviour ends when every call has been made.
CHECK_DEADLOCK FALSE
