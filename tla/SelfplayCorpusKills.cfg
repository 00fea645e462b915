CONSTANTS
    p1 = p1
    p2 = p2
    a = a
    b = b
    own = own
    outcome = outcome
    Procs = {p1, p2}
    Outputs = {a, b}
    NumShards = 2
    Modes = {own, outcome}
    MaxStarts = 3
    Scripts <- MCScripts
    None = None
    Torn = Torn
SPECIFICATION Spec
SYMMETRY Symmetry
CHECK_DEADLOCK FALSE
INVARIANTS
    ProcessedIsAppended
    ShardsOnce
