SPECIFICATION Spec
CONSTANTS
  None = None
  p1 = p1
  Procs <- MCOneProc
  NCases = 3
  Unsupported <- MCSecond
  Watchdog = TRUE
  KeepChoices <- MCBoth
  MaxCalls = 2
  MaxCrashes = 1
  MaxFaults = 1
CHECK_DEADLOCK FALSE
INVARIANTS Accounted MonitoredUntilStopped
PROPERTIES RecordsHonest OthersUntouched InvocationReturns TripStopsServer
