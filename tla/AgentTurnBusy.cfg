SPECIFICATION Spec
CONSTANTS
  t1 = t1  t2 = t2  k1 = k1
  Threads = {t1}
  Conns = {k1}
  Turns = {m1, m2}
  Calls = {c1}
  ConnOf <- OneThread
  SingleWrites = {c1}
  Kinds = {"anthropic"}
  StoreMayFail = TRUE
  MaxCrashes = 0
  UserOps = {"policy", "deleteThread", "deleteConnection"}
  NoTurn = NoTurn  NoThread = NoThread  NoConn = NoConn
INVARIANT
  BusyMeansRunning
\* A behaviour ends when every message id and call id is used up.
CHECK_DEADLOCK FALSE
