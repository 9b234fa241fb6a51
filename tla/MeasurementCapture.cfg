SPECIFICATION FairSpec
CONSTANTS
    p1 = p1
    p2 = p2
    Points = {p1, p2}
    Others = {x}
    Manifest <- MCManifest
    Capacity = 2
    MaxOffers = 3
    Faults = {"begin", "enqueue", "process", "digest"}
INVARIANT ValidIsComplete
INVARIANT Accounting
INVARIANT ClientAccepts
PROPERTY SealedIsFinal
PROPERTY CaptureEnds
PROPERTY WorkerStops
