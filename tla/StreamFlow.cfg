SPECIFICATION FairSpec
CONSTANTS
    Plans <- MCPlans
CHECK_DEADLOCK FALSE
INVARIANTS
    StreamIntact
    WindowConserved
PROPERTIES
    CreditFlows
