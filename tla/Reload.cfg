SPECIFICATION MCSpec
CONSTANTS
    Plans <- MCPlans
INVARIANTS
    UpdatesSurvive
    ReloadSettles
    
    VerdictExact
CHECK_DEADLOCK FALSE
