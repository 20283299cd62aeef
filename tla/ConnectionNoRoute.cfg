CONSTANTS
  Topics = {t1}
  Secure = TRUE
  Addresses = 2
  MinDelay = 1
  MaxDelay = 3
  StaleBeats = 1
  Faults = {"refused", "noRoute"}
  MaxFaults = 1
  MaxCalls = 1

SPECIFICATION Spec

INVARIANTS
  DeathReported

CHECK_DEADLOCK FALSE
