CONSTANTS
    None = None
    Gates <- TwoGates
    Labels <- FullGames
    Options = {"force"}
    MaxStarts = 3
    MaxCandidates = 2
    MaxRuns = 3
    MaxPolls = 2
SPECIFICATION Spec
CHECK_DEADLOCK FALSE
INVARIANTS
    JudgedOnOwnGames
