CONSTANTS
    Coord = Coord
    w1 = w1
    w2 = w2
    run = run
    None = None
    Workers = {w1, w2}
    NumPeers = 2
    Final = 5
    SaveEvery = 1
    SyncEvery <- AlikeSyncEvery
    RunId <- AlikeRunId
    NodeId <- AlikeNodeId
    Faults = {"crash", "timeout"}
    MaxRestarts = 1
SPECIFICATION FairSpec
INVARIANTS
    TypeOK
    FinalIsFleetAverage
    NoSyncSkipped
    FinalModelsAgree
    PeersShareBase
    RepliesMatch
PROPERTIES
    Implements
    EveryoneFinishes
