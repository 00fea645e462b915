CONSTANTS
    Pending = Pending
    Jobs <- RewriteJobs
SPECIFICATION Spec
CHECK_DEADLOCK FALSE
INVARIANTS
    WritesReturn
