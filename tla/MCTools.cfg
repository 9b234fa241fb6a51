CONSTANTS
    Points <- MCPoints
    Kind <- MCKind
    Profiles <- MCProfiles
    Durations = {0, 1, 2}
    MinSamples = 1
    MaxOverhead = 50
    MaxCheckpoints = 2
    ByteLimit = 8
    Sizes = {1, 3}
    Overhead = 1
    MaxWrites = 6
    Loads <- MCLoads
    SequenceLimit = 8
    TimeLimit = 8
    EmissionLimit = 2
    PointCount = 2
    BufferCapacity = 2
    StoreCapacity = 2
    BatchLimit = 1
    MaxFragment = 2
    MaxFaults = 1
    MaxStarts = 3
    MaxRequests = 5
    MaxInterrupts = 2
    LineCapacity = 2
SPECIFICATION MCSpec
INVARIANTS
    AcceptedIsExact
    WithinWatchdog
    SuiteIsEarned
    ChainVerifies
    BytesBounded
    BenchmarkIsEarned
    AcceptedIsPlanned
    AnswerIsOwn
CHECK_DEADLOCK FALSE
