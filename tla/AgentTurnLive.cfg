SPECIFICATION FairSpec
CONSTANTS
  t1 = t1  t2 = t2  k1 = k1
  Threads = {t1}
  Conns = {k1}
  Turns = {m1}
  Calls = {c1, c2}
  ConnOf <- OneThread
  SingleWrites = {c1, c2}
  Kinds = {"anthropic", "openai"}
  StoreMayFail = FALSE
  MaxCrashes = 0
  UserOps = {}
  NoTurn = NoTurn  NoThread = NoThread  NoConn = NoConn
PROPERTIES
  NothingWaitsForEver
\* A behaviour ends when every message id and call id is used up.
CHECK_DEADLOCK FALSE
