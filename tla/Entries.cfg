SPECIFICATION PartsSpec
CONSTANTS
  SaveEvery = 2
  SaveLimit = 1
  TickLimit = 1
  Waiting = 1
  Faults = {"save", "load", "tick", "unload", "park", "torn", "crash"}
  None = None
  Zones = {a}
  ControlsBoiler = {a}
  DeclaredPower <- NoPower
  CountThreshold = 1
  PowerThreshold = 0
  FullDuty = 1
  StaleAfter = 0
  Snapshots <- OnOff
  DwellFloor = 1
  MinOnCfg = 1
  MinOffCfg = 0
  Delay = 1
  Keepalive = 1
  CallTimeout = 1
  WallBack = 1
  HubFaults = {"midCall"}
INVARIANTS
  EntryEndsClean
PROPERTIES
  EntryLosesNothing
  RemovalLeavesItOff
CHECK_DEADLOCK FALSE
