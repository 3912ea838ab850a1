CONSTANTS
    Model <- Ladder
    Cpu <- CpuRungs
    Down <- DownByOne
    None = None
    MaxAutoSteps = 2
SPECIFICATION Spec
INVARIANTS ReadyIsServable AnsweredByTier InFlightIsResumed FinalFailureRests
PROPERTIES PreparationEnds AnswerEnds
CHECK_DEADLOCK FALSE
