SPECIFICATION FairSpec
CONSTANTS
    Max = 1
    Missed = 2
    Resets = 1
    Callers = {c1, c2}
    NoCaller = NoCaller
CHECK_DEADLOCK FALSE
INVARIANTS
    OneInstance
PROPERTIES
    PublishesTheStream
    RunAnswers
