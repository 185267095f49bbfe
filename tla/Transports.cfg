SPECIFICATION MCSpec
CONSTANTS
    s1 = s1  s2 = s2  Nobody = Nobody
    Senders = {s1, s2}
    Plans <- MCPlans
CHECK_DEADLOCK FALSE
INVARIANTS
    
    FramesSafe
    ReceiverMoves
    WireSafe
    
    
    ErrorsHonest
