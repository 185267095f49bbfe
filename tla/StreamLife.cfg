SPECIFICATION Spec
CONSTANTS
    Plans <- MCPlans
CHECK_DEADLOCK FALSE
INVARIANTS
    NoOrphan
    ObligationExact
    EndsCleanly
