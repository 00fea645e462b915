CONSTANTS
    None = None
    Gates <- TwoGates
    Labels <- ScreenedGames
    Options = {"force", "full"}
    MaxStarts = 2
    MaxCandidates = 2
    MaxRuns = 2
    MaxPolls = 2
SPECIFICATION FairSpec
CHECK_DEADLOCK FALSE
INVARIANTS
    TypeOK
    ForcedIterationIsFresh
    VerdictMatchesGames
    FirstCandidateEarnsIt
    OneRunAtATime
PROPERTIES
    IterationEnds
