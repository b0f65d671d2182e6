SPECIFICATION PartsSpec
CONSTANTS
  a = a
  b = b
  c = c
  Zones = {a, b, c}
  ControlsBoiler = {a, b}
  DeclaredPower <- MCPower
  CountThreshold = 2
  PowerThreshold = 2
  FullDuty = 2
  NoDuty = NoDuty
  StaleAfter = 0
  Snapshots <- MCSnapshots
  NoData = NoData
  RoomLevels = {0, 1, 2}
  DefaultRoom = 2
  Contact = TRUE
  Thresholds = {1}
  Scale = 2
  MaxSlope = 4
  MinPoints = 2
  MaxDuration = 2
  MinRise = 1
  Longest = 3
  Airs <- ContestedAirs
  AdviceCools = FALSE
  AdviceFaults = {}
  EpisodeCools = TRUE
  RequestTtl = 2
  ReminderEvery = 1
  UnknownRelease = 2
  MaxTick = 1
  MinuteCap = 3
  PhaseCap <- OneOrTwo
  EpisodeCap <- TwoOrThree
  Cooldown <- Pauses
INVARIANTS
  DemandIsSound
PROPERTIES
  DemandIsNotRaised
  WindowVerdictIsEarned
  AdviceIsSteady
  EpisodeIsTold
