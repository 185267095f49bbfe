SPECIFICATION MCSpec
CONSTANTS
    Plans <- CancelPlan
INVARIANTS
    CrashEquivalentMeansGone
CHECK_DEADLOCK FALSE
