SPECIFICATION SoleSpec
CONSTANTS
  Zones = {"a"}
  ControlsBoiler = {"a"}
  DeclaredPower <- MCNoPower
  CountThreshold = 1
  PowerThreshold = 0
  FullDuty = 1
  NoDuty = NoDuty
  StaleAfter = 0
  Snapshots <- OnOff
  NoData = NoData
  DwellFloor = 4
  MinOnCfg = 3
  MinOffCfg = 5
  Delay = 0
  Keepalive = 1
  NoLatch = NoLatch
  CallTimeout = 1
  WallBack = 1
  Faults = {"callFails", "saveFails", "loadFails"}
INVARIANTS
  TypeOK
  BeliefIsTrue
PROPERTIES
  KeepsPromise
