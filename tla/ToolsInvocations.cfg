CONSTANTS
    Pending = Pending
    Jobs <- MCJobs
SPECIFICATION Spec
CHECK_DEADLOCK FALSE
INVARIANTS
    ExportsLoad
    RewritesKeepTheNet
    WarmStartsFit
    RegionsKept
    ThreatRowsAreApart
    SidesAgree
    CorpusIsKept
    ScoresKeepTheirOrder
