SPECIFICATION Spec
CONSTANTS
  NTrials = 3
  MaxFaults = 1
CHECK_DEADLOCK FALSE
INVARIANTS EnvelopeTruthful Orderly
PROPERTIES InterruptStops CampaignEnds
