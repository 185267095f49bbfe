SPECIFICATION FairSpec
CONSTANTS
    W = 4
    Cap = 2
    Slabs = {s1, s2}
    Payloads = {p, q}
    Nil = Nil
INVARIANTS
    SlabsExact
PROPERTIES
    ImplementsFifo
    StuckIntentResolves
