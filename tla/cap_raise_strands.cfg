SPECIFICATION FairSpec
CONSTANTS
    b1 = b1
    b2 = b2
    c1 = c1
    Build = {b1}
    Chat = {}
    Assisted = {}
    Autonomous = {}
    Inline = {}
    Concurrency = 1
    MaxSignals = 1
    MaxBoots = 1
PROPERTIES ResumedIsReclaimed
CHECK_DEADLOCK FALSE
