\* Violated (types.ts:37): green gates with a failure mode.
SPECIFICATION Spec
CONSTANTS
    Language = {"go"}
    Windows = FALSE
    None = None
    Autonomy = {"autonomous"}
    MaxSteps = 0
    MaxAttempts = 1
    Dollars = FALSE
    PoolCalls = 0
    MaxFindings = 0
    MaxRuns = 1
CHECK_DEADLOCK FALSE
INVARIANT GreenIsClean
