SPECIFICATION Spec
CONSTANTS
    a = a
    b = b
    Files = {a, b}
    Metas <- MCMetas
    Filters <- MCFilters
    ResetBetween = {b}
    Slots = 1
    FailFast = TRUE
    MaxRuns = 2
INVARIANTS
    
    PassIsEarned
    NoFalseGreen
