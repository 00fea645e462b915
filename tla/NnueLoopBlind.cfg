CONSTANTS
    None = None
    Gates <- TwoGates
    Labels <- FullGames
    Options = {"force"}
    MaxStarts = 2
    MaxCandidates = 2
    MaxRuns = 2
    MaxPolls = 2
SPECIFICATION Spec
CHECK_DEADLOCK FALSE
INVARIANTS
    OnlyForceRunsTwo
