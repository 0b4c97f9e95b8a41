SPECIFICATION Spec
CONSTANTS
    NumTasks = 3
    Metered <- Builders3
    Concurrency = 2
    Default = 1
    Floor = 0
    AutoIncrease = TRUE
    Multiplier = 2
    MaxDepth = 2
    WriteFails = FALSE
    MaxOperator = 0
    MaxSessions = 1
INVARIANTS CeilingHolds
CHECK_DEADLOCK FALSE
