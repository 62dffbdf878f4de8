CONSTANTS
    Proposals = 2
    ReasoningAxis <- MCAxis
    Simpler <- MCSimpler
    Outcomes <- MCFewerOutcomes
    ScreenMin = 2
    PromotionMin = 0
    CombinedMin = 2
    SimplifyMin <- MCSimplifyMin
    MaxFaults = 1
    ClockSteps = TRUE
    MaxDenials = 2
    MaxVersion = 0
    MaxTime = 1
    Cutoff = 1
    Tearing = TRUE
    TornCells = TRUE
SPECIFICATION Spec
INVARIANTS FilesAgree AdmissionSound
PROPERTIES ImplementsReplay LaunchDiscipline ClosedStaysClosed
