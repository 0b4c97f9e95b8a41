\* Violated (WORKFLOWS.md:103): a wiki that nobody accepted is planned.
SPECIFICATION Spec
CONSTANTS
    Language = {"go"}
    Windows = FALSE
    None = None
    Autonomy = {"autonomous"}
    MaxSteps = 0
    MaxAttempts = 1
    Dollars = FALSE
    PoolCalls = 0
    MaxFindings = 0
    MaxRuns = 2
CHECK_DEADLOCK FALSE
INVARIANT PlannedIsAccepted
