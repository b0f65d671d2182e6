SPECIFICATION Spec
CONSTANTS
  SaveEvery = 2
  SaveLimit = 1
  TickLimit = 1
  Waiting = 2
  Faults = {}
  None = None
PROPERTY
  DoseSurvivesRestart
