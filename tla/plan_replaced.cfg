\* A task failed: what becomes of the plan when the project is built again?
SPECIFICATION Spec
CONSTANTS
    Language = {"rust"}
    Windows = TRUE
    None = None
    Autonomy = {"autonomous", "assisted"}
    MaxSteps = 6
    MaxAttempts = 1
    Dollars = TRUE
    PoolCalls = 1
    MaxFindings = 1
    MaxRuns = 2
CHECK_DEADLOCK FALSE
PROPERTY PlanIsResumed
