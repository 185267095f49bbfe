SPECIFICATION FairSpec
CONSTANTS
    c1 = c1
    c2 = c2
    Calls <- One
    Timed = {}
    MaxGen = 1
    WireCap = 1
    Plans <- OnePlan
    Prompt = 0
PROPERTIES
    EveryInvokeReturns
CHECK_DEADLOCK FALSE
