SPECIFICATION Spec
CONSTANTS
    MaxControls = 1
    MaxInterrupts = 0
    StoreMayFail = FALSE
    HostMayThrow = TRUE
INVARIANT DoubtIsLocked
