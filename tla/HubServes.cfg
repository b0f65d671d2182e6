SPECIFICATION PartsFairSpec
CONSTANTS
  Zones = {"a"}
  ControlsBoiler = {"a"}
  DeclaredPower <- MCNoPower
  CountThreshold = 1
  PowerThreshold = 0
  FullDuty = 1
  NoDuty = NoDuty
  StaleAfter = 0
  Snapshots <- OnOffPark
  NoData = NoData
  DwellFloor = 1
  MinOnCfg = 1
  MinOffCfg = 0
  Delay = 1
  Keepalive = 1
  NoLatch = NoLatch
  CallTimeout = 0
  WallBack = 0
  Faults = {"foreign", "callFails", "lateCall"}
PROPERTIES
  HeatArrives
  BoilerRests
  LostZonesAreAnswered
  RoomKeepsUp
CHECK_DEADLOCK FALSE
