CONSTANTS
    Proposals = 1
    ReasoningAxis <- MCAxis
    Simpler <- MCSimpler
    Outcomes <- MCOutcomes
    ScreenMin = 2
    PromotionMin = 0
    CombinedMin = 2
    SimplifyMin <- MCSimplifyMin
    MaxFaults = 1
    ClockSteps = FALSE
    MaxDenials = 1
    MaxVersion = 1
    MaxTime = 0
    Cutoff = 1
    Tearing = FALSE
    TornCells = FALSE
SPECIFICATION FairSpec
INVARIANT AcknowledgedBeforeNext
PROPERTY Settles
