SPECIFICATION FairSpec
CONSTANTS
  Windows = {w1}
  Views = {v1}
  Turns = {t1}
  MaxSlots = 2
  MaxPending = 1
  MaxOps = 3
  UserOps = {"attach", "detach", "send", "abort", "answer"}
  Faults = {"late", "drop"}
  NoTurn = NoTurn
PROPERTIES
  IndicatorsEnd
\* A behaviour ends when the users have nothing left to do.
CHECK_DEADLOCK FALSE
