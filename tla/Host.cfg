SPECIFICATION MCSpec
CONSTANTS
    Plugins = {p1}
    Plans <- MCPlans
    InfoCap = 1
    None = None
    HostNames = {p, q}
    Callers = {c1, c2}
    Nobody = Nobody
    Feeds = {f1, f2}
SYMMETRY Symmetric
CHECK_DEADLOCK FALSE
INVARIANTS
    StopMeansDown
    
    NothingStrands
    EndsAgree
    NothingLeaks
    StdioAccounted
    
