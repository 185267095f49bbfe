SPECIFICATION FairSpec
CONSTANTS
    W = 3
    Cap = 2
    MaxCancels = 1
INVARIANTS
    IInv
    NoLostWakeup
PROPERTIES
    RecvReturns
