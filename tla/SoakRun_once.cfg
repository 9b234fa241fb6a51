SPECIFICATION Spec
CONSTANTS
    QueueCapacity = 3
    MaxEvents = 3
    NScenarios = 1
    Capturing = {}
    Warmups = 0
    MinSamples = 1
    AllowedReconnects = 1
    MaxConsecutive = 0
    BatchSize = 2
    MaxBatches = 2
    MaxResources = 2
INVARIANT CountedOnce
