SPECIFICATION Spec
CONSTANTS
  MAX_RESTARTS = 3
  Platforms = {"darwin", "other"}
  Calls = {c1, c2, c3}
  MaxVersion = 2
INVARIANTS
  ServerIsManaged OneCallWorks
PROPERTIES
  CrashIsHandled SwapIsSafe
\* A behaviour ends when the app is gone.
CHECK_DEADLOCK FALSE
