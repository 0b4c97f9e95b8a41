\* Two runs of a project's directives: the ceiling of steps cuts an extension of the wiki loop.
SPECIFICATION FairSpec
CONSTANTS
    Language = {"python", "node", "go", "rust"}
    Windows = TRUE
    None = None
    Autonomy = {"autonomous", "assisted"}
    MaxSteps = 4
    MaxAttempts = 1
    Dollars = TRUE
    PoolCalls = 1
    MaxFindings = 1
    MaxRuns = 2
CHECK_DEADLOCK FALSE
INVARIANTS StepsBounded CompleteIsEarned NoSilentFailure EnvFits
PROPERTY RunEnds
