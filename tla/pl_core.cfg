CONSTANTS
    Names <- EveryRecipe
    DryRuns <- Both
    MaxRuns = 2
    DiskMayFail = TRUE
SPECIFICATION Spec
CHECK_DEADLOCK FALSE
INVARIANTS
    RolledBack
    OutcomeTrue
