CONSTANTS
    Configs <- MCConfigs
    Collections <- MCCollections
    Ready <- MCReady
    Pics <- MCPics
    Documents <- MCDocuments
    Numbers <- MCNumbers
    MaxAttempts = 2
SPECIFICATION MCSpec
INVARIANTS
    ControlIsEarned
    NoPoison
    NothingLeftRunning
    EvidenceIsWhole
    PassMeansMoved
    SentIsApproved
    ReadyMeansRun
CHECK_DEADLOCK FALSE
