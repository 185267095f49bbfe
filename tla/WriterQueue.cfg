SPECIFICATION FairSpec
CONSTANTS
    copy = copy  fill1 = fill1  cancel = cancel  ack = ack  NoIntent = NoIntent
    Copies = {copy}
    Fills = {fill1}
    Lifecycles = {cancel, ack}
    Mixes <- MCMixes
    DataDepth = 1  LifecycleDepth = 1  RingCap = 1  Slabs = 1  BurstBound = 1
INVARIANTS
    EveryIntentAccounted
    SubmissionsHonest
PROPERTIES
    SubmissionsReturn
