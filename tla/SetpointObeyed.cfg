SPECIFICATION WFairSpec
CONSTANTS
  Top = 3
  Settle <- Exact
  Default = 1
  Plans <- Comfort
  Adopt = TRUE
  Period = 2
  Window = 2
  SettleMin = 2
  Throttle = 2
  Liveness = 3
  Depth = 1
  Faults = {"lost", "late", "deaf", "offline", "reboot", "restart", "disable"}
  None = None
  FailWrites = 2
  FailMin = 2
  Ttl = 2
INVARIANTS
  NotAccused
PROPERTIES
  Agreement
  DeafIsReported
CHECK_DEADLOCK FALSE
