SPECIFICATION FairSpec
CONSTANTS
    b1 = b1
    b2 = b2
    c1 = c1
    Build = {b1}
    Chat = {c1}
    Assisted = {}
    Autonomous = {b1}
    Inline = {}
    Concurrency = 1
    MaxSignals = 1
    MaxBoots = 1
PROPERTIES CancelFreesSlot StopDrains PendingIsServed
CHECK_DEADLOCK FALSE
