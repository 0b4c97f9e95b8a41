SPECIFICATION Spec
CONSTANTS
    NumTasks = 3
    Metered <- Builders3
    Concurrency = 2
    Default = 2
    Floor = 0
    AutoIncrease = FALSE
    Multiplier = 2
    MaxDepth = 1
    WriteFails = FALSE
    MaxOperator = 0
    MaxSessions = 1
INVARIANTS DependenciesSucceeded NoTaskForgotten OverdrawBound
CHECK_DEADLOCK FALSE
