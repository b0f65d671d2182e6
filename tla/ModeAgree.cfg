SPECIFICATION AgreeSpec
CONSTANTS
  None = None
  Modes = {"off", "heat"}
  Policies = {"timer"}
  TimerFor = 1
  MaxFor = 1
  Points = {1}
  Supported = {"off", "heat"}
  CanHeat = TRUE
  Plans <- Radiator
  Window = 2
  Reassert = 3
  Depth = 2
  Faults = {"lost", "late", "offline", "reload", "disable", "setpoint"}
INVARIANTS
  TypeOK
PROPERTIES
  Agreement
