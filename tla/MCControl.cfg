SPECIFICATION MCFairSpec
CONSTANTS
    MaxControls = 2
    MaxInterrupts = 1
    StoreMayFail = TRUE
    HostMayThrow = FALSE
INVARIANT DoubtIsLocked
INVARIANT CertainAnswersAreTrue
PROPERTY NoBlindControl
PROPERTY NoOverlap
PROPERTY ControlReturns
