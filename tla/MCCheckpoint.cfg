SPECIFICATION Spec
CONSTANTS
  None = None
  e1 = e1
  e2 = e2
  Exporters <- MCOne
  Modes <- MCOneModes
  MaxVersion = 0
  MaxDirs = 1
  MaxCalls = 2
  MaxFaults = 0
CHECK_DEADLOCK FALSE
PROPERTIES CheckpointProves
