SPECIFICATION FairSpec
CONSTANTS
    c1 = c1
    c2 = c2
    Calls <- Both
    Timed <- One
    MaxGen = 2
    WireCap = 1
    Plans <- AllPlans
    Prompt = 1
INVARIANTS
    CallsHonest
    
PROPERTIES
    NoStaleRouting
    
