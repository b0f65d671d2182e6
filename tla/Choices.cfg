SPECIFICATION PartsSpec
CONSTANTS
  None = None
  Modes = {"off", "heat", "cool"}
  Policies = {"schedule", "timer"}
  TimerFor = 1
  MaxFor = 1
  Points = {1}
  Supported = {"off", "heat", "cool"}
  CanHeat = TRUE
  Plans <- HeatOrCool
  Window = 2
  Reassert = 3
  Depth = 2
  Faults = {"late"}
  Top = 2
  Settle <- Exact
  Default = 1
  SetpointPlans <- ComfortOrIdle
  Adopt = TRUE
  Period = 0
  SetpointWindow = 2
  SettleMin = 1
  Throttle = 2
  Liveness = 2
  SetpointDepth = 1
  SetpointFaults = {"user", "nudge", "blind"}
INVARIANTS
  HoldIsWhole
PROPERTIES
  ChoiceIsTakenOnce
  WindowSparesChoice
  SetpointChoiceIsHeard
