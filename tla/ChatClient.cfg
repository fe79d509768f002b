SPECIFICATION Spec
CONSTANTS
  Windows = {w1}
  Views = {v1, v2}
  Turns = {t1}
  MaxSlots = 2
  MaxPending = 1
  MaxOps = 4
  UserOps = {"attach", "detach", "send", "retry", "abort", "answer", "delete"}
  Faults = {"error"}
  NoTurn = NoTurn
INVARIANTS
  OneStream  ExecutedIsTrue AppliedOnce
\* A behaviour ends when the users have nothing left to do.
CHECK_DEADLOCK FALSE
