CONSTANTS
    w1 = w1
    w2 = w2
    Workers = {w1}
    NumBatches = 2
    MaxShards = 1
    MaxChanges = 0
    MaxNets = 1
    MaxSilences = 0
    MaxRuns = 2
    None = None
SPECIFICATION Spec
CHECK_DEADLOCK FALSE
INVARIANT ProvenanceNamesNet
