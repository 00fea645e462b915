CONSTANTS
    c1 = c1
    c2 = c2
    Configs = {c1, c2}
    MaxTarget = 3
    SaveRate = 2
    MaxParent = 1
    MaxRuns = 4
    CrashIn <- CrashOutsideReset
    None = None
SYMMETRY Symmetry
SPECIFICATION Spec
CHECK_DEADLOCK FALSE
INVARIANTS
    TypeOK
    CandidateIsFinished
    NoMixedTraining
    ForcedRunNeverRefused
    EarlyCrashesAreRepaired
PROPERTIES
    FinishedNetIsKept
