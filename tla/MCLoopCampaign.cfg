SPECIFICATION Spec
CONSTANTS
  NRlm = 2
  NHalo = 2
  Held <- MCHeld
  Isolated <- MCIsolated
  NProfiles = 2
  RlmStop = 20
  MeasurementStop = 40
  HardStop = 50
  Instants <- MCInstants
  MaxCrashes = 1
  MaxFaults = 1
  MaxInvocations = 2
CHECK_DEADLOCK FALSE
INVARIANTS VerifiedMeansClean OneHaloProfile
PROPERTIES CasesSettleOnce InvocationEnds
