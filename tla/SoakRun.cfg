SPECIFICATION FairSpec
CONSTANTS
    QueueCapacity = 2
    MaxEvents = 4
    NScenarios = 2
    Capturing = {2}
    Warmups = 1
    MinSamples = 1
    AllowedReconnects = 1
    MaxConsecutive = 1
    BatchSize = 1
    MaxBatches = 3
    MaxResources = 2
INVARIANT PassedIsEarned
INVARIANT NoEpisodeMissed
PROPERTY StopEnds
