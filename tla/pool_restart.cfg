SPECIFICATION FairSpec
CONSTANTS
    NumTasks = 2
    Metered <- Builders2
    Concurrency = 2
    Default = 1
    Floor = 0
    AutoIncrease = TRUE
    Multiplier = 2
    MaxDepth = 2
    WriteFails = TRUE
    MaxOperator = 1
    MaxSessions = 2
PROPERTIES CompleteRowStays PoolEnds
CHECK_DEADLOCK FALSE
