SPECIFICATION Spec
CONSTANTS
  None = None
  e1 = e1
  e2 = e2
  Exporters <- MCExporters
  Modes <- MCModes
  MaxVersion = 1
  MaxDirs = 1
  MaxCalls = 2
  MaxFaults = 1
CHECK_DEADLOCK FALSE
INVARIANTS EvidenceKept
PROPERTIES ExportSound ExportEnds
