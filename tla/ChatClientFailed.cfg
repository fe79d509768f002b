SPECIFICATION Spec
CONSTANTS
  Windows = {w1, w2}
  Views = {v1}
  Turns = {t1}
  MaxSlots = 2
  MaxPending = 1
  MaxOps = 5
  UserOps = {"attach", "send", "answer"}
  Faults = {}
  NoTurn = NoTurn
SYMMETRY Symmetric
INVARIANT FailedMeansRolledBack
\* A behaviour ends when the users have nothing left to do.
CHECK_DEADLOCK FALSE
