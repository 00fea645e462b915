CONSTANTS
    w1 = w1
    w2 = w2
    Workers = {w1, w2}
    NumBatches = 2
    MaxShards = 2
    MaxChanges = 1
    MaxNets = 1
    MaxSilences = 1
    MaxRuns = 2
    None = None
SPECIFICATION FairSpec
CHECK_DEADLOCK FALSE
INVARIANTS
    TypeOK
    CorpusIsComplete
    BatchHasOneNet
    DriftIsCaught
PROPERTIES
    ValidBatchIsKept
    ScriptEnds
