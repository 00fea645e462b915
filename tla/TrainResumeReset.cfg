CONSTANTS
    c1 = c1
    c2 = c2
    Configs = {c1, c2}
    MaxTarget = 2
    SaveRate = 1
    MaxParent = 0
    MaxRuns = 4
    CrashIn <- Working
    None = None
SPECIFICATION Spec
CHECK_DEADLOCK FALSE
INVARIANTS
    CandidateIsFinished
