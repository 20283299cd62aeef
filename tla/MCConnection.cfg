CONSTANTS
  Topics = {t1, t2}
  Secure = TRUE
  Addresses = 2
  MinDelay = 1
  MaxDelay = 3
  StaleBeats = 1
  Faults = {"unresolved", "unreachable", "refused", "handshake", "badUpgrade", "timeout", "reset", "closed", "mute", "writes"}
  MaxFaults = 3
  MaxCalls = 5

SPECIFICATION FairSpec

INVARIANTS
  TypeOK
  DeathReported
  NoSilentWait
  SubscriptionsReplayed
  StopIsFinal

PROPERTIES
  LossReported
  Recovers

CHECK_DEADLOCK FALSE
