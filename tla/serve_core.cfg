SPECIFICATION Spec
CONSTANTS
    b1 = b1
    b2 = b2
    c1 = c1
    Build = {b1}
    Chat = {c1}
    Assisted = {b1}
    Autonomous = {}
    Inline = {b1}
    Concurrency = 1
    MaxSignals = 1
    MaxBoots = 2
PROPERTIES StrandedOnlyBy TerminalIsFinal
CHECK_DEADLOCK FALSE
