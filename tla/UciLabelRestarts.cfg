CONSTANTS
    NumRows = 3
    MaxAttempts = 3
SPECIFICATION FairSpec
CHECK_DEADLOCK FALSE
INVARIANT
    AnswersAreOwn
PROPERTY
    TaskEnds
