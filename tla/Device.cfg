SPECIFICATION PartsSpec
CONSTANTS
  Supported = {"off", "heat", "cool", "dry"}
  CanHeat = TRUE
  CanCool = TRUE
  GuardOn = TRUE
  MinOff = 3
  ModeHold = 2
  Reassert = 2
  Skew = 1
  WallBack = 0
  Silent = FALSE
  Wishes <- CoolingDay
  Faults = {"lost", "foreign"}
  None = None
  Running = Running
  EchoTimeout = 1
  DwellMin = 1
  Budget = 3
  ReentryBlock = 1
  EchoWindow = 2
  Stage = "high"
  FanModes = {"auto", "high"}
  Depth = 2
  Circulates = FALSE
  Floor = 5
  Plans <- HeatOrCool
  Choices = {20}
  Compressor = TRUE
  Errors = 1
  Rooms = {0, 1, 2}
  Targets = {2, 4}
  Span = 2
  CmdDelta = 2
  MinRise = 1
  Outages = {"blind", "restart", "alarm"}
PROPERTIES
  LockHolds
  FlipsAreHeld
  HeldOnlyInside
  FanIsGivenBack
  TickKeepsItsBooks
  AlarmIsHonest
