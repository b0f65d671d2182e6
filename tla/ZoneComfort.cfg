SPECIFICATION PartsSpec
CONSTANTS
  Days = 2
  DayLen = 5
  Schedules <- FewWeeks
  Weeks <- ManyWeeks
  NoEdge = None
  Modes = {}
  Policies = {"schedule"}
  TimerFor = 2
  MaxFor = 3
  Points = {}
  None = None
  Rooms = {1, 2, 3, 4, 5}
  ComfortBase = 4
  SetbackBy = 2
  EcoBy = 1
  BoostBy = 1
  EcoDelta = 1
  AwayOffset = 2
  CoastLower = 3
  CoastReady = 0
  MaxLead = 4
  HeldAt = 3
  BoostFor = 2
  AbsenceAfter = 2
  Presets = {"none", "eco", "boost"}
  Homes = {"home", "away"}
  People = {"in", "out"}
  Faults = {"restart"}
  Indoors = {66, 86, 107}
  Outdoors = {20, 72, 134}
  Bands <- TwoBands
  Moulds = {87}
  Overrides = {102}
  Kinds <- FiveKinds
  Frost = 28
  NormCap = 104
  HardCap = 104
  ShockDelta = 28
  CoolMinOut = 64
  HeatMaxOut = 88
  Half = 2
  SuppressFor = 2
INVARIANTS
  ScheduleIsTheClock
  PlanIsEarned
PROPERTIES
  ArrivesWarm
  TargetIsSteady
