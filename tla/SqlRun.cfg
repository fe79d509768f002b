SPECIFICATION Spec
CONSTANTS
  Runs = {r1, r2}
  Cancels = {c1, c2}
  RunIds = {id1, id2}
  Sessions = {s1, s2}
  Dialects = {"postgres", "mysql"}
  NoRun = NoRun  NoId = NoId  NoSession = NoSession
SYMMETRY Symmetric
INVARIANTS
  RegistryHoldsWaitingRuns  KillsHitTheirRun
   CancelIsComplete OnlyKillsBlock
PROPERTY RunsAreAtomic
\* A behaviour ends when every call has been made.
CHECK_DEADLOCK FALSE
