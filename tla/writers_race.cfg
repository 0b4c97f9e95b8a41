SPECIFICATION Spec
CONSTANTS
    f1 = f1
    f2 = f2
    NumRaw = 3
    File = {f1}
INVARIANTS SharedFilesSerialised
CHECK_DEADLOCK FALSE
