SPECIFICATION Spec
CONSTANTS
    a = a
    b = b
    daemon = daemon
    inline = inline
    Task <- MCTask
    Process <- MCProcess
    Conflict <- MCConflict
    MaxEdits = 1
    MaxRuns = 2
    MaxFaults = 1
    OwnConfig = FALSE
    Sandboxed = TRUE
    None = None
CHECK_DEADLOCK FALSE
PROPERTY HeadIsOwnMerge
SYMMETRY Symmetric

