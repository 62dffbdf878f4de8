SPECIFICATION Spec
CONSTANTS
  NConns = 3
  MaxWorkers = 2
  MaxCloses = 2
CHECK_DEADLOCK FALSE
INVARIANTS Accounted StopComplete
PROPERTIES StopDrains
